--------------------------- MODULE WatchdogProofs ---------------------------
(***************************************************************************)
(* What the dashboard's page shows, for every number of letters, events    *)
(* and connections, and for rings, queues and feeds of any size.           *)
(*                                                                         *)
(* Every copy of the server's state, on its way to the browser, is that of *)
(* one moment (RingInv, AgreeInv), the copies are in the order of those    *)
(* moments (OrderInv), and at most one of them is between the poller and   *)
(* the page (RefreshInv).  What the page appends is therefore what its     *)
(* last look had not shown (FeedExact), and its two numbers agree.         *)
(***************************************************************************)
EXTENDS WatchdogProperties, SequenceTheorems, FiniteSetTheorems, WellFoundedInduction, TLAPS

\* The server's state as a snapshot, and all the snapshots that are somewhere.
Current == [counts |-> stats, events |-> events, total |-> total]
Copies == {latest} \cup answers \cup {downlink[i] : i \in 1..Len(downlink)}

\* A ring after t events holds the newest of them, numbered without a gap.
Ring(ring, t) ==
    /\ Len(ring) = IF t > MaxEvents THEN MaxEvents ELSE t
    /\ \A i \in 1..Len(ring) : ring[i].id = t - Len(ring) + i - 1

RingInv == \A x \in Copies \cup {Current} : Ring(x.events, x.total)

\* The page, the answer, the poller, its queue and the server, in the order of their totals.
OrderInv ==
    /\ lastTotal <= latest.total /\ shown.events <= latest.total
    /\ latest.total <= total
    /\ \A a \in answers :
          /\ lastTotal <= a.total /\ shown.events <= a.total
          /\ a.total <= latest.total
    /\ \A i \in 1..Len(downlink) :
          /\ latest.total <= downlink[i].total /\ downlink[i].total <= total
          /\ \A j \in 1..i : downlink[j].total <= downlink[i].total

\* The flag lets one fetch at a time be underway.
RefreshInv ==
    /\ asked \in {0, 1}
    /\ asked = 1 => isRefreshing /\ answers = {}
    /\ \A a \in answers : isRefreshing /\ answers = {a}

FeedInv ==
    /\ lastTotal = -1 => rows = <<>>
    /\ FeedExact

\* A name has statistics from its first connection on, and sends nothing before.
KnownInv ==
    \A s \in Senders :
        /\ stats[s] # Unknown <=> connects[s] > 0
        /\ uplink[s] # <<>> => connects[s] > 0

\* What the cards of a snapshot add up to, against its total.
ConnectedOnce == \A s \in Senders : connects[s] <= 1
Agree(counts, t, once) ==
    /\ Messages(counts) <= t
    /\ once => Messages(counts) = t

AgreeInv ==
    /\ \A x \in Copies \cup {Current} : Agree(x.counts, x.total, ConnectedOnce)
    /\ CountsAgree

WatchdogInv == RingInv /\ OrderInv /\ RefreshInv /\ FeedInv /\ KnownInv /\ AgreeInv

-----------------------------------------------------------------------------
(***************************************************************************)
(* Sums over finite sets.  FoldSet takes the elements in the order in      *)
(* which CHOOSE yields them; the sum does not depend on it.  The arguments *)
(* by induction look at a smallest subset for which the claim fails.       *)
(***************************************************************************)
Sum(c, T) == FoldSet(LAMBDA s, sum : c[s] + sum, 0, T)

\* The function that FoldSet(..., T) is the value of, at T.
FoldOf(c, T, g) ==
    g = [s \in SUBSET T |-> IF s = {} THEN 0
                            ELSE LET x == CHOOSE x \in s : TRUE IN c[x] + g[s \ {x}]]

\* A set of subsets of a finite set has one that is smallest.
LEMMA MinimalSubset ==
    ASSUME NEW S, IsFiniteSet(S), NEW B, B \subseteq SUBSET S, B # {}
    PROVE  \E x \in B : \A y \in B : ~(y \subseteq x /\ y # x)
<1> DEFINE R == StrictSubsetOrdering(S)
<1>1. IsWellFoundedOn(R, SUBSET S)
  BY FS_StrictSubsetOrderingWellFounded, FS_FiniteSubsetsOfFinite
<1>2. PICK x \in B : \A y \in B : <<y, x>> \notin R
  <2> HIDE DEF R
  <2> QED
    BY <1>1, WFMin
<1>3. \A y \in B : y \subseteq x /\ y # x => <<y, x>> \in R
  BY DEF StrictSubsetOrdering
<1> HIDE DEF R
<1>4. \A y \in B : ~(y \subseteq x /\ y # x)
  BY <1>2, <1>3
<1> QED
  BY <1>4

\* Two of these functions agree on the sets they are both defined for.
LEMMA FoldUnique ==
    ASSUME NEW c, NEW T, IsFiniteSet(T), NEW U \in SUBSET T,
           NEW g, FoldOf(c, T, g), NEW h, FoldOf(c, U, h)
    PROVE  \A s \in SUBSET U : g[s] = h[s]
<1> DEFINE B == {s \in SUBSET U : g[s] # h[s]}
<1>1. SUFFICES ASSUME B # {} PROVE FALSE
  OBVIOUS
<1>2. IsFiniteSet(U)
  BY FS_Subset
<1>3. PICK s \in B : \A y \in B : ~(y \subseteq s /\ y # s)
  <2> HIDE DEF B
  <2>1. B \subseteq SUBSET U
    BY DEF B
  <2> QED
    BY <1>1, <1>2, <2>1, MinimalSubset
<1>4. g[{}] = 0 /\ h[{}] = 0
  BY DEF FoldOf
<1>5. s # {}
  BY <1>4
<1> DEFINE x == CHOOSE x \in s : TRUE
<1>6. x \in s
  BY <1>5
<1>7. g[s] = c[x] + g[s \ {x}] /\ h[s] = c[x] + h[s \ {x}]
  BY <1>5 DEF FoldOf
<1>8. g[s \ {x}] = h[s \ {x}]
  BY <1>3, <1>6
<1> QED
  BY <1>7, <1>8

\* The recursion that FoldSet is defined by has a solution.
LEMMA FoldExists ==
    ASSUME NEW c, NEW T, IsFiniteSet(T)
    PROVE  \E g : FoldOf(c, T, g)
<1> DEFINE B == {s \in SUBSET T : ~\E g : FoldOf(c, s, g)}
<1>1. SUFFICES ASSUME B # {} PROVE FALSE
  OBVIOUS
<1>2. PICK S \in B : \A y \in B : ~(y \subseteq S /\ y # S)
  <2> HIDE DEF B
  <2>1. B \subseteq SUBSET T
    BY DEF B
  <2> QED
    BY <1>1, <2>1, MinimalSubset
<1>3. IsFiniteSet(S)
  BY FS_Subset
<1> DEFINE h(s) == CHOOSE g : FoldOf(c, s, g)
           G == [s \in SUBSET S |-> IF s = {} THEN 0
                                    ELSE LET x == CHOOSE x \in s : TRUE
                                         IN  c[x] + h(s \ {x})[s \ {x}]]
<1>4. \A s \in SUBSET S : s # S => FoldOf(c, s, h(s))
  BY <1>2
<1>5. ASSUME NEW s \in SUBSET S, s # S PROVE G[s] = h(s)[s]
  <2>1. FoldOf(c, s, h(s))
    BY <1>4, <1>5
  <2>2. CASE s = {}
    BY <2>1, <2>2 DEF FoldOf
  <2>3. CASE s # {}
    <3> DEFINE x == CHOOSE x \in s : TRUE
               u == s \ {x}
    <3>1. x \in s
      BY <2>3
    <3>2. FoldOf(c, u, h(u))
      BY <1>4, <1>5, <3>1
    <3>3. IsFiniteSet(s)
      BY <1>3, FS_Subset
    <3>4. h(s)[u] = h(u)[u]
      <4> HIDE DEF h, u
      <4>1. u \in SUBSET s
        BY DEF u
      <4> QED
        BY <2>1, <3>2, <3>3, <4>1, FoldUnique
    <3>5. h(s)[s] = c[x] + h(s)[u]
      <4> HIDE DEF h
      <4> QED
        BY <2>1, <2>3 DEF FoldOf
    <3>6. G[s] = c[x] + h(u)[u]
      BY <2>3
    <3> QED
      BY <3>4, <3>5, <3>6
  <2> QED
    BY <2>2, <2>3
<1>6. G = [s \in SUBSET S |-> IF s = {} THEN 0
                              ELSE LET x == CHOOSE x \in s : TRUE IN c[x] + G[s \ {x}]]
  <2>1. \A s \in SUBSET S : s # {} =>
            LET x == CHOOSE x \in s : TRUE IN G[s \ {x}] = h(s \ {x})[s \ {x}]
    <3> SUFFICES ASSUME NEW s \in SUBSET S, s # {}
                 PROVE  LET x == CHOOSE x \in s : TRUE IN G[s \ {x}] = h(s \ {x})[s \ {x}]
      OBVIOUS
    <3> DEFINE x == CHOOSE x \in s : TRUE
    <3>1. s \ {x} \in SUBSET S /\ s \ {x} # S
      OBVIOUS
    <3> HIDE DEF G, h
    <3> QED
      BY <3>1, <1>5
  <2>2. \A s \in SUBSET S : G[s] = IF s = {} THEN 0
                                   ELSE LET x == CHOOSE x \in s : TRUE IN c[x] + G[s \ {x}]
    <3> SUFFICES ASSUME NEW s \in SUBSET S
                 PROVE  G[s] = IF s = {} THEN 0
                               ELSE LET x == CHOOSE x \in s : TRUE IN c[x] + G[s \ {x}]
      OBVIOUS
    <3>1. CASE s = {}
      BY <3>1
    <3>2. CASE s # {}
      <4> DEFINE x == CHOOSE x \in s : TRUE
      <4>1. G[s] = c[x] + h(s \ {x})[s \ {x}]
        BY <3>2
      <4>2. G[s \ {x}] = h(s \ {x})[s \ {x}]
        BY <2>1, <3>2
      <4> HIDE DEF G, h
      <4> QED
        BY <3>2, <4>1, <4>2
    <3> QED
      BY <3>1, <3>2
  <2>3. G = [s \in SUBSET S |-> G[s]]
    OBVIOUS
  <2> HIDE DEF G
  <2> QED
    BY <2>2, <2>3
<1>7. FoldOf(c, S, G)
  BY <1>6 DEF FoldOf
<1> QED
  BY <1>7, <1>2

\* A sum is its chosen element and the sum of the others.
LEMMA SumChosen ==
    ASSUME NEW c, NEW T, IsFiniteSet(T)
    PROVE  /\ T = {} => Sum(c, T) = 0
           /\ T # {} => LET x == CHOOSE x \in T : TRUE IN Sum(c, T) = c[x] + Sum(c, T \ {x})
<1> DEFINE h(s) == CHOOSE g : FoldOf(c, s, g)
           u == T \ {CHOOSE x \in T : TRUE}
<1>1. \A s : Sum(c, s) = h(s)[s]
  BY DEF Sum, FoldOf, FoldSet, MapThenFoldSet
<1>2. IsFiniteSet(u)
  BY FS_Subset
<1>3. FoldOf(c, T, h(T)) /\ FoldOf(c, u, h(u))
  <2> HIDE DEF u
  <2> QED
    BY <1>2, FoldExists
<1>4. h(T)[u] = h(u)[u]
  <2>1. u \in SUBSET T
    OBVIOUS
  <2> HIDE DEF u, h
  <2> QED
    BY <1>3, <2>1, FoldUnique
<1>5. T = {} => h(T)[T] = 0
  <2> HIDE DEF h
  <2> QED
    BY <1>3 DEF FoldOf
<1>6. T # {} => h(T)[T] = c[CHOOSE x \in T : TRUE] + h(T)[u]
  <2> HIDE DEF h
  <2> QED
    BY <1>3 DEF FoldOf
<1> HIDE DEF h
<1> QED
  BY <1>1, <1>4, <1>5, <1>6

\* A sum is any of its elements and the sum of the others.
LEMMA SumRemove ==
    ASSUME NEW T, IsFiniteSet(T), NEW c, \A s \in T : c[s] \in Nat
    PROVE  \A s \in T : /\ Sum(c, T) \in Nat
                        /\ Sum(c, T) = c[s] + Sum(c, T \ {s})
<1> DEFINE Good(U) == /\ Sum(c, U) \in Nat
                      /\ \A s \in U : Sum(c, U) = c[s] + Sum(c, U \ {s})
           B == {U \in SUBSET T : ~Good(U)}
<1>1. SUFFICES ASSUME B # {} PROVE FALSE
  <2>1. ASSUME NEW U, U \in SUBSET T, U \notin B PROVE Good(U)
    BY <2>1
  <2> QED
    BY <2>1
<1>2. PICK U \in B : \A V \in B : ~(V \subseteq U /\ V # U)
  <2>1. B \subseteq SUBSET T
    OBVIOUS
  <2> HIDE DEF B
  <2> QED
    BY <1>1, <2>1, MinimalSubset
<1>3. U \in SUBSET T /\ ~Good(U)
  OBVIOUS
<1>4. \A V \in SUBSET U : V # U => Good(V)
  BY <1>2, <1>3
<1> HIDE DEF B
<1>5. U # {}
  <2>1. IsFiniteSet({})
    BY FS_EmptySet
  <2>2. Sum(c, {}) = 0
    BY <2>1, SumChosen
  <2>3. ASSUME U = {} PROVE Good(U)
    BY <2>2, <2>3
  <2> HIDE DEF Good
  <2> QED
    BY <1>3, <2>3
<1> DEFINE x == CHOOSE x \in U : TRUE
<1>6. x \in U
  BY <1>5
<1>7. IsFiniteSet(U)
  BY <1>3, FS_Subset
<1>8. Sum(c, U) = c[x] + Sum(c, U \ {x})
  BY <1>5, <1>7, SumChosen
<1> HIDE DEF x
<1>9. Good(U \ {x})
  BY <1>4, <1>6
<1>10. Sum(c, U) \in Nat
  BY <1>3, <1>6, <1>8, <1>9
<1>11. ASSUME NEW s \in U PROVE Sum(c, U) = c[s] + Sum(c, U \ {s})
  <2>1. CASE s = x
    BY <1>8, <2>1
  <2>2. CASE s # x
    <3> DEFINE V == (U \ {x}) \ {s}
    <3>1. V = (U \ {s}) \ {x} /\ s \in U \ {x} /\ x \in U \ {s}
      BY <1>6, <2>2
    <3>2. Good(U \ {s}) /\ Good(V)
      BY <1>4
    <3>3. Sum(c, U \ {x}) = c[s] + Sum(c, V)
      BY <1>9, <3>1
    <3>4. Sum(c, U \ {s}) = c[x] + Sum(c, V)
      BY <3>1, <3>2
    <3>5. c[s] \in Nat /\ c[x] \in Nat /\ Sum(c, V) \in Nat
      BY <1>3, <1>6, <3>2
    <3> HIDE DEF V
    <3> QED
      BY <1>8, <3>3, <3>4, <3>5
  <2> QED
    BY <2>1, <2>2
<1> QED
  BY <1>3, <1>10, <1>11

\* Sums over the same set, of functions with the same values there.
LEMMA SumSame ==
    ASSUME NEW T, IsFiniteSet(T), NEW c, NEW d, \A s \in T : c[s] = d[s]
    PROVE  Sum(c, T) = Sum(d, T)
<1> DEFINE B == {U \in SUBSET T : Sum(c, U) # Sum(d, U)}
<1>1. SUFFICES ASSUME B # {} PROVE FALSE
  OBVIOUS
<1>2. PICK U \in B : \A V \in B : ~(V \subseteq U /\ V # U)
  <2>1. B \subseteq SUBSET T
    OBVIOUS
  <2> HIDE DEF B
  <2> QED
    BY <1>1, <2>1, MinimalSubset
<1>3. U \in SUBSET T /\ Sum(c, U) # Sum(d, U)
  OBVIOUS
<1>4. IsFiniteSet(U)
  BY <1>3, FS_Subset
<1>5. U # {}
  BY <1>3, <1>4, SumChosen
<1> DEFINE x == CHOOSE x \in U : TRUE
<1>6. x \in U
  BY <1>5
<1>7. Sum(c, U \ {x}) = Sum(d, U \ {x})
  BY <1>2, <1>3, <1>6
<1>8. Sum(c, U) = c[x] + Sum(c, U \ {x}) /\ Sum(d, U) = d[x] + Sum(d, U \ {x})
  BY <1>4, <1>5, SumChosen
<1> HIDE DEF x, B
<1> QED
  BY <1>3, <1>6, <1>7, <1>8

LEMMA SumType ==
    ASSUME NEW T, IsFiniteSet(T), NEW c, \A s \in T : c[s] \in Nat
    PROVE  Sum(c, T) \in Nat
<1>1. T = {} => Sum(c, T) = 0
  BY SumChosen
<1>2. CASE T = {}
  BY <1>1, <1>2
<1>3. CASE T # {}
  BY <1>3, SumRemove
<1> QED
  BY <1>2, <1>3

-----------------------------------------------------------------------------
(* The messages of all cards, and the newest elements of a sequence.       *)

LEMMA SendersFinite == IsFiniteSet(Senders)
  BY FS_AddElement, ConstantsAssumption DEF Senders

\* The messages are a number, and none as long as no name is known.
LEMMA MessagesType ==
    ASSUME NEW c \in Counts
    PROVE  /\ Messages(c) \in Nat
           /\ Counted(c) = {} => Messages(c) = 0
           /\ \A s \in Counted(c) : Messages(c) = c[s] + Sum(c, Counted(c) \ {s})
<1> DEFINE T == Counted(c)
<1>1. T \subseteq Senders /\ \A s \in T : c[s] \in Nat
  BY DEF Counted, Counts, Unknown
<1>2. IsFiniteSet(T)
  BY <1>1, SendersFinite, FS_Subset
<1>3. Messages(c) = Sum(c, T)
  BY DEF Messages, Sum
<1>4. T = {} => Sum(c, T) = 0
  BY <1>2, SumChosen
<1>5. \A s \in T : Sum(c, T) \in Nat /\ Sum(c, T) = c[s] + Sum(c, T \ {s})
  <2> HIDE DEF T
  <2> QED
    BY <1>1, <1>2, SumRemove
<1> HIDE DEF T
<1>6. CASE T = {}
  BY <1>3, <1>4, <1>6 DEF T
<1>7. CASE T # {}
  BY <1>3, <1>5, <1>7 DEF T
<1> QED
  BY <1>6, <1>7

\* Counting a message of a name that is known adds one.
LEMMA MessagesCounted ==
    ASSUME NEW c \in Counts, NEW s \in Senders, c[s] # Unknown
    PROVE  LET d == [c EXCEPT ![s] = @ + 1]
           IN  d \in Counts /\ Messages(d) = Messages(c) + 1
<1> DEFINE d == [c EXCEPT ![s] = @ + 1]
           T == Counted(c)
<1>1. c[s] \in Nat /\ d[s] = c[s] + 1 /\ \A r \in Senders : r # s => d[r] = c[r]
  BY DEF Counts
<1>2. d \in Counts
  BY <1>1 DEF Counts
<1>3. Counted(d) = T /\ s \in T
  BY <1>1 DEF Counted, Unknown
<1>4. IsFiniteSet(T \ {s}) /\ T \subseteq Senders
  BY SendersFinite, FS_Subset DEF Counted
<1> HIDE DEF d
<1>5. Sum(d, T \ {s}) = Sum(c, T \ {s})
  BY <1>1, <1>4, SumSame
<1>6. Messages(c) = c[s] + Sum(c, T \ {s}) /\ Messages(c) \in Nat
  BY <1>3, MessagesType
<1>7. Messages(d) = d[s] + Sum(d, T \ {s}) /\ Messages(d) \in Nat
  BY <1>2, <1>3, MessagesType
<1>8. Sum(c, T \ {s}) \in Int
  <2>1. \A r \in T \ {s} : c[r] \in Nat
    BY <1>4 DEF Counted, Counts
  <2> DEFINE U == T \ {s}
  <2> HIDE DEF U
  <2>2. Sum(c, U) \in Nat
    BY <1>4, <2>1, SumType DEF U
  <2> QED
    BY <2>2 DEF U
<1>9. Messages(d) = Messages(c) + 1
  <2> HIDE DEF T
  <2> QED
    BY <1>1, <1>5, <1>6, <1>7, <1>8
<1> QED
  BY <1>2, <1>9 DEF d

\* A name's first connection adds nothing, a further one takes away what it had counted.
LEMMA MessagesReset ==
    ASSUME NEW c \in Counts, NEW s \in Senders
    PROVE  LET d == [c EXCEPT ![s] = 0]
           IN  /\ d \in Counts /\ Messages(d) <= Messages(c)
               /\ c[s] = Unknown => Messages(d) = Messages(c)
<1> DEFINE d == [c EXCEPT ![s] = 0]
           T == Counted(c) \ {s}
<1>1. d[s] = 0 /\ \A r \in Senders : r # s => d[r] = c[r]
  BY DEF Counts
<1>2. d \in Counts
  BY DEF Counts
<1>3. Counted(d) = T \cup {s} /\ s \notin T
  BY <1>1 DEF Counted, Unknown
<1>4. IsFiniteSet(T) /\ T \subseteq Senders
  BY SendersFinite, FS_Subset DEF Counted
<1>5. \A r \in T : c[r] \in Nat
  BY DEF Counted, Counts
<1> HIDE DEF d
<1>6. Sum(d, T) = Sum(c, T)
  BY <1>1, <1>3, <1>4, SumSame
<1>7. Sum(c, T) \in Nat
  <2> HIDE DEF T
  <2> QED
    BY <1>4, <1>5, SumType
<1>8. Messages(d) = 0 + Sum(d, T)
  <2>1. Counted(d) \ {s} = T /\ s \in Counted(d)
    BY <1>3
  <2> QED
    BY <1>1, <1>2, <2>1, MessagesType
<1>9. CASE c[s] = Unknown
  <2>1. T = Counted(c)
    BY <1>9 DEF Counted
  <2>2. Messages(c) = Sum(c, T)
    BY <2>1 DEF Messages, Sum
  <2> HIDE DEF T
  <2> QED
    BY <1>2, <1>6, <1>7, <1>8, <2>2 DEF d
<1>10. CASE c[s] # Unknown
  <2>1. s \in Counted(c) /\ c[s] \in Nat
    BY <1>10 DEF Counted, Counts
  <2>2. Messages(c) = c[s] + Sum(c, T)
    BY <2>1, MessagesType
  <2> HIDE DEF T
  <2> QED
    BY <1>2, <1>6, <1>7, <1>8, <1>10, <2>1, <2>2 DEF d
<1> QED
  BY <1>9, <1>10

\* The newest n elements of a sequence are its last ones, in their order.
LEMMA NewestProperties ==
    ASSUME NEW S, NEW seq \in Seq(S), NEW n \in Nat
    PROVE  /\ Newest(n, seq) \in Seq(S)
           /\ Len(Newest(n, seq)) = IF Len(seq) > n THEN n ELSE Len(seq)
           /\ \A i \in 1..Len(Newest(n, seq)) :
                 Newest(n, seq)[i] = seq[Len(seq) - Len(Newest(n, seq)) + i]
<1> DEFINE m == IF Len(seq) > n THEN Len(seq) - n + 1 ELSE 1
           k == Len(seq)
<1>1. k \in Nat /\ m \in Int /\ m >= 1
  BY LenProperties
<1>2. \A i \in m..k : seq[i] \in S
  BY <1>1, ElementOfSeq
<1>3. /\ SubSeq(seq, m, k) \in Seq(S)
      /\ Len(SubSeq(seq, m, k)) = IF m <= k THEN k - m + 1 ELSE 0
      /\ \A i \in 1..(k - m + 1) : SubSeq(seq, m, k)[i] = seq[m + i - 1]
  <2> HIDE DEF m, k
  <2> QED
    BY <1>1, <1>2, SubSeqProperties
<1>4. Newest(n, seq) = SubSeq(seq, m, k)
  BY DEF Newest
<1>5. Len(SubSeq(seq, m, k)) = IF k > n THEN n ELSE k
  <2>1. CASE k > n
    BY <1>1, <1>3, <2>1
  <2>2. CASE ~(k > n)
    BY <1>1, <1>3, <2>2
  <2> QED
    BY <2>1, <2>2
<1> DEFINE r == SubSeq(seq, m, k)
<1>6. ASSUME NEW i \in 1..Len(r) PROVE r[i] = seq[k - Len(r) + i]
  <2>1. i \in 1..(k - m + 1) /\ m + i - 1 = k - Len(r) + i
    <3>1. Len(r) = IF k > n THEN n ELSE k
      BY <1>5
    <3> HIDE DEF r
    <3>2. CASE k > n
      BY <1>1, <3>1, <3>2
    <3>3. CASE ~(k > n)
      BY <1>1, <3>1, <3>3
    <3> QED
      BY <3>2, <3>3
  <2>2. r[i] = seq[m + i - 1]
    <3> HIDE DEF m, k
    <3> QED
      BY <1>3, <2>1
  <2> QED
    BY <2>1, <2>2
<1> HIDE DEF m
<1> QED
  BY <1>3, <1>4, <1>5, <1>6

-----------------------------------------------------------------------------
(* What the steps have in common.                                          *)

\* However events are fired, it is for a finite set of names that are connected.
LEMMA FiresSome ==
    ASSUME TypeOK, KeyPress \/ ApiFire \/ ApiSend
    PROVE  \E names \in SUBSET Senders : /\ IsFiniteSet(names)
                                         /\ \A s \in names : connects[s] > 0
                                         /\ Fire(names)
<1>1. CASE KeyPress
  <2>1. PICK names \in {{l} : l \in Letters} \cup {Letters} : Fire(names)
    BY <1>1 DEF KeyPress
  <2>2. names \in SUBSET Senders /\ IsFiniteSet(names)
    BY FS_Singleton, ConstantsAssumption DEF Senders
  <2>3. \A s \in names : connects[s] > 0
    BY <1>1 DEF KeyPress
  <2> QED
    BY <2>1, <2>2, <2>3
<1>2. CASE ApiFire
  <2>1. PICK l \in Letters : connects[l] > 0 /\ Fire({l})
    BY <1>2 DEF ApiFire
  <2> QED
    BY <2>1, FS_Singleton DEF Senders
<1>3. CASE ApiSend
  <2>1. connects[UI] > 0 /\ Fire({UI})
    BY <1>3 DEF ApiSend
  <2> QED
    BY <2>1, FS_Singleton DEF Senders
<1> QED
  BY <1>1, <1>2, <1>3

LEMMA CurrentType == TypeOK => Current \in Snapshots
  BY DEF TypeOK, Current, Snapshots

LEMMA CopiesType == TypeOK => \A x \in Copies : x \in Snapshots
<1> SUFFICES ASSUME TypeOK PROVE \A x \in Copies : x \in Snapshots
  OBVIOUS
<1>1. PICK d \in Seq(Snapshots) : d = downlink
  BY DEF TypeOK
<1>2. \A i \in 1..Len(d) : d[i] \in Snapshots
  BY ElementOfSeq
<1> QED
  BY <1>1, <1>2 DEF TypeOK, Copies

\* The queue after a request was answered, and after a snapshot was taken from it.
LEMMA DownlinkSteps ==
    ASSUME TypeOK
    PROVE  /\ LET q == Append(downlink, Current)
              IN  /\ q \in Seq(Snapshots) /\ Len(q) = Len(downlink) + 1
                  /\ \A i \in 1..Len(downlink) : q[i] = downlink[i]
                  /\ q[Len(downlink) + 1] = Current
           /\ downlink # <<>> =>
                  /\ 1 \in 1..Len(downlink) /\ Head(downlink) = downlink[1]
                  /\ Tail(downlink) \in Seq(Snapshots)
                  /\ Len(Tail(downlink)) = Len(downlink) - 1
                  /\ \A i \in 1..Len(Tail(downlink)) : Tail(downlink)[i] = downlink[i + 1]
<1>1. PICK d \in Seq(Snapshots), c \in Snapshots : d = downlink /\ c = Current
  BY CurrentType DEF TypeOK
<1>2. LET q == Append(d, c)
      IN  /\ q \in Seq(Snapshots) /\ Len(q) = Len(d) + 1
          /\ \A i \in 1..Len(d) : q[i] = d[i]
          /\ q[Len(d) + 1] = c
  BY AppendProperties
<1>3. ASSUME d # <<>>
      PROVE  /\ 1 \in 1..Len(d) /\ Head(d) = d[1]
             /\ Tail(d) \in Seq(Snapshots) /\ Len(Tail(d)) = Len(d) - 1
             /\ \A i \in 1..Len(Tail(d)) : Tail(d)[i] = d[i + 1]
  BY <1>3, HeadTailProperties, EmptySeq
<1> QED
  BY <1>1, <1>2, <1>3

\* A step makes no snapshot but of the server's present state.
LEMMA CopiesStep ==
    ASSUME TypeOK, [Next]_vars
    PROVE  Copies' \subseteq Copies \cup {Current}
<1> USE DEF Copies, serverVars, clientVars, browserVars
<1> DEFINE D == {downlink[i] : i \in 1..Len(downlink)}
<1>1. CASE ReceiveRequest
  <2>1. latest' = latest /\ answers' = answers
    BY <1>1 DEF ReceiveRequest
  <2>2. downlink' = IF Len(downlink) < MaxQueue THEN Append(downlink, Current) ELSE downlink
    BY <1>1 DEF ReceiveRequest, Current
  <2>3. D' \subseteq D \cup {Current}
    <3>1. CASE downlink' = downlink
      BY <3>1
    <3>2. CASE downlink' = Append(downlink, Current)
      <4>1. Len(downlink) \in Nat
        BY LenProperties DEF TypeOK
      <4>2. \A i \in 1..(Len(downlink) + 1) : i \in 1..Len(downlink) \/ i = Len(downlink) + 1
        BY <4>1
      <4> QED
        BY <3>2, <4>2, DownlinkSteps
    <3> QED
      BY <2>2, <3>1, <3>2
  <2> QED
    BY <2>1, <2>3
<1>2. CASE StoreSnapshot
  <2>1. /\ downlink # <<>> /\ latest' = Head(downlink)
        /\ downlink' = Tail(downlink) /\ answers' = answers
    BY <1>2 DEF StoreSnapshot
  <2>2. Len(downlink) \in Nat
    BY LenProperties DEF TypeOK
  <2>3. latest' \in D /\ D' \subseteq D
    <3>1. \A i \in 1..(Len(downlink) - 1) : i + 1 \in 1..Len(downlink)
      BY <2>2
    <3> QED
      BY <2>1, <3>1, DownlinkSteps
  <2> QED
    BY <2>1, <2>3
<1>3. CASE Quit
  <2>1. downlink' = <<>> /\ latest' = latest /\ answers' = answers
    BY <1>3 DEF Quit
  <2>2. D' = {}
    BY <2>1, EmptySeq
  <2> QED
    BY <2>1, <2>2
<1>4. CASE ApiStats \/ Render \/ Reload
  <2>1. UNCHANGED <<downlink, latest>> /\ answers' \subseteq answers \cup {latest}
    BY <1>4 DEF ApiStats, Render, Reload
  <2> QED
    BY <2>1
<1>5. CASE KeyPress \/ ApiFire \/ ApiSend
  BY <1>5 DEF KeyPress, ApiFire, ApiSend, Fire
<1>6. CASE Poll \/ Refresh \/ FetchFails \/ UNCHANGED vars
  BY <1>6 DEF Poll, Refresh, FetchFails, vars
<1>7. CASE \E s \in Senders : Connect(s) \/ ReceiveEvent(s)
  BY <1>7 DEF Connect, ReceiveEvent
<1> QED
  BY <1>1, <1>2, <1>3, <1>4, <1>5, <1>6, <1>7 DEF Next

-----------------------------------------------------------------------------
(* Types.                                                                  *)

LEMMA TypeInit == Init => TypeOK
<1> SUFFICES ASSUME Init PROVE TypeOK
  OBVIOUS
<1>1. /\ events \in Seq(Events) /\ Len(events) <= MaxEvents
      /\ downlink \in Seq(Snapshots) /\ Len(downlink) <= MaxQueue
      /\ rows \in Seq(Events) /\ Len(rows) <= MaxRows
  BY EmptySeq, ConstantsAssumption DEF Init
<1>2. uplink \in [Senders -> Seq({"event", "request"})]
  BY EmptySeq DEF Init
<1>3. stats \in Counts /\ latest \in Snapshots
  BY EmptySeq DEF Init, Counts, EmptySnapshot, Snapshots
<1>4. total \in Nat /\ connects \in [Senders -> Nat] /\ running \in BOOLEAN
  BY DEF Init
<1>5. fired \in 0..MaxFired /\ troubles \in 0..MaxTroubles
  BY ConstantsAssumption DEF Init
<1>6. /\ isRefreshing \in BOOLEAN /\ asked \in Nat
      /\ \A a \in answers : a \in Snapshots
      /\ lastTotal \in Nat \cup {-1}
  BY DEF Init
<1>7. shown \in [messages : Nat, events : Nat]
  BY DEF Init
<1> QED
  BY <1>1, <1>2, <1>3, <1>4, <1>5, <1>6, <1>7 DEF TypeOK

\* What has been put into and taken from the clients' streams.
LEMMA UplinkType == TypeOK /\ [Next]_vars => (uplink \in [Senders -> Seq({"event", "request"})])'
<1> DEFINE Names == {"event", "request"}
<1> SUFFICES ASSUME TypeOK, [Next]_vars
             PROVE  uplink' \in [Senders -> Seq(Names)]
  OBVIOUS
<1> USE DEF serverVars, clientVars, browserVars
<1>1. uplink \in [Senders -> Seq(Names)]
  BY DEF TypeOK
<1>2. \A q \in Seq(Names) : \A m \in Names : Append(q, m) \in Seq(Names)
  BY AppendProperties
<1>3. \A q \in Seq(Names) : q # <<>> => Tail(q) \in Seq(Names)
  BY HeadTailProperties
<1>4. <<>> \in Seq(Names)
  BY EmptySeq
<1>5. "event" \in Names /\ "request" \in Names /\ UI \in Senders
  BY DEF Senders
<1> HIDE DEF Names
<1>6. ASSUME NEW names, Fire(names) PROVE uplink' \in [Senders -> Seq(Names)]
  BY <1>1, <1>2, <1>5, <1>6 DEF Fire
<1>7. CASE KeyPress \/ ApiFire \/ ApiSend
  BY <1>6, <1>7 DEF KeyPress, ApiFire, ApiSend
<1>8. CASE Poll
  BY <1>1, <1>2, <1>5, <1>8 DEF Poll
<1>9. CASE Quit
  BY <1>4, <1>9 DEF Quit
<1>10. ASSUME NEW s \in Senders, NEW name, Handled(s, name) PROVE uplink' \in [Senders -> Seq(Names)]
  BY <1>1, <1>3, <1>10 DEF Handled
<1>11. CASE ReceiveRequest \/ \E s \in Senders : ReceiveEvent(s)
  BY <1>5, <1>10, <1>11 DEF ReceiveRequest, ReceiveEvent
<1>12. CASE \/ \E s \in Senders : Connect(s)
            \/ StoreSnapshot \/ Refresh \/ ApiStats \/ FetchFails \/ Render \/ Reload
            \/ UNCHANGED vars
  BY <1>1, <1>12 DEF Connect, StoreSnapshot, Refresh, ApiStats, FetchFails, Render, Reload, vars
<1> QED
  BY <1>7, <1>8, <1>9, <1>11, <1>12 DEF Next

\* The newest events of a sequence that an event was put to.
LEMMA RingType ==
    ASSUME TypeOK, NEW e \in Events
    PROVE  LET q == Append(events, e)
               r == Newest(MaxEvents, q)
               n == IF Len(events) + 1 > MaxEvents THEN MaxEvents ELSE Len(events) + 1
           IN  /\ r \in Seq(Events) /\ Len(r) = n
               /\ \A i \in 1..n : r[i] = IF i = n THEN e ELSE events[Len(events) + 1 - n + i]
<1>1. PICK s \in Seq(Events) : s = events
  BY DEF TypeOK
<1> DEFINE q == Append(s, e)
           r == Newest(MaxEvents, q)
           n == IF Len(s) + 1 > MaxEvents THEN MaxEvents ELSE Len(s) + 1
<1>2. Len(s) \in Nat /\ MaxEvents \in Nat \ {0}
  BY LenProperties, ConstantsAssumption
<1>3. /\ q \in Seq(Events) /\ Len(q) = Len(s) + 1
      /\ \A i \in 1..Len(s) : q[i] = s[i]
      /\ q[Len(s) + 1] = e
  BY AppendProperties
<1> HIDE DEF q
<1>4. /\ r \in Seq(Events) /\ Len(r) = IF Len(q) > MaxEvents THEN MaxEvents ELSE Len(q)
      /\ \A i \in 1..Len(r) : r[i] = q[Len(q) - Len(r) + i]
  BY <1>2, <1>3, NewestProperties
<1> HIDE DEF r
<1>5. Len(r) = n /\ n \in 1..(Len(s) + 1)
  BY <1>2, <1>3, <1>4
<1> HIDE DEF n
<1>6. ASSUME NEW i \in 1..n PROVE r[i] = IF i = n THEN e ELSE s[Len(s) + 1 - n + i]
  <2>1. r[i] = q[Len(s) + 1 - n + i]
    <3>1. i \in 1..Len(r) /\ Len(q) - Len(r) + i = Len(s) + 1 - n + i
      BY <1>2, <1>3, <1>5
    <3> QED
      BY <1>4, <3>1
  <2>2. CASE i = n
    BY <1>2, <1>3, <1>5, <2>1, <2>2
  <2>3. CASE i # n
    <3>1. Len(s) + 1 - n + i \in 1..Len(s)
      BY <1>2, <1>5, <2>3
    <3> QED
      BY <1>3, <2>1, <2>3, <3>1
  <2> QED
    BY <2>2, <2>3
<1> QED
  BY <1>1, <1>4, <1>5, <1>6 DEF q, r, n

\* What the server counts and keeps.
LEMMA ServerType ==
    TypeOK /\ [Next]_vars =>
        (stats \in Counts /\ events \in Seq(Events) /\ Len(events) <= MaxEvents /\ total \in Nat)'
<1> SUFFICES ASSUME TypeOK, [Next]_vars
             PROVE  /\ stats' \in Counts
                    /\ events' \in Seq(Events) /\ Len(events') <= MaxEvents /\ total' \in Nat
  OBVIOUS
<1> USE DEF serverVars, clientVars, browserVars
<1>1. CASE \E s \in Senders : Connect(s)
  <2>1. stats' \in Counts
    BY <1>1 DEF Connect, TypeOK, Counts
  <2>2. events' = events /\ total' = total
    BY <1>1 DEF Connect
  <2> QED
    BY <2>1, <2>2 DEF TypeOK
<1>2. CASE \E s \in Senders : ReceiveEvent(s)
  <2>1. PICK s \in Senders : ReceiveEvent(s)
    BY <1>2
  <2>2. total' \in Nat
    BY <2>1 DEF ReceiveEvent, TypeOK
  <2>3. stats' \in Counts
    <3>1. stats' = [stats EXCEPT ![s] = @ + 1]
      BY <2>1 DEF ReceiveEvent
    <3>2. stats \in Counts /\ stats[s] \in Nat \cup {-1}
      BY DEF TypeOK, Counts, Unknown
    <3>3. stats[s] + 1 \in Nat
      BY <3>2
    <3> QED
      BY <3>1, <3>2, <3>3 DEF Counts
  <2> DEFINE e == [id |-> total, sender |-> s]
  <2>4. e \in Events
    BY DEF TypeOK, Events
  <2>5. events' = Newest(MaxEvents, Append(events, e))
    BY <2>1 DEF ReceiveEvent
  <2> HIDE DEF e
  <2>6. Len(events) \in Nat /\ MaxEvents \in Nat
    BY LenProperties, ConstantsAssumption DEF TypeOK
  <2>7. events' \in Seq(Events) /\ Len(events') <= MaxEvents
    BY <2>4, <2>5, <2>6, RingType
  <2> QED
    BY <2>2, <2>3, <2>7
<1>3. CASE KeyPress \/ ApiFire \/ ApiSend
  BY <1>3 DEF KeyPress, ApiFire, ApiSend, Fire, TypeOK
<1>4. CASE Poll \/ Quit \/ ReceiveRequest \/ StoreSnapshot
  BY <1>4 DEF Poll, Quit, ReceiveRequest, StoreSnapshot, TypeOK
<1>5. CASE Refresh \/ ApiStats \/ FetchFails \/ Render \/ Reload \/ UNCHANGED vars
  BY <1>5 DEF Refresh, ApiStats, FetchFails, Render, Reload, vars, TypeOK
<1> QED
  BY <1>1, <1>2, <1>3, <1>4, <1>5 DEF Next

\* The clients and the poller.
LEMMA ClientType ==
    TypeOK /\ [Next]_vars =>
        /\ (downlink \in Seq(Snapshots) /\ Len(downlink) <= MaxQueue)'
        /\ (connects \in [Senders -> Nat] /\ fired \in 0..MaxFired /\ running \in BOOLEAN)'
        /\ (latest \in Snapshots /\ \A a \in answers : a \in Snapshots)'
<1> SUFFICES ASSUME TypeOK, [Next]_vars
             PROVE  /\ downlink' \in Seq(Snapshots) /\ Len(downlink') <= MaxQueue
                    /\ connects' \in [Senders -> Nat] /\ fired' \in 0..MaxFired
                    /\ running' \in BOOLEAN
                    /\ latest' \in Snapshots /\ \A a \in answers' : a \in Snapshots
  OBVIOUS
<1> USE DEF serverVars, clientVars, browserVars
<1>1. latest' \in Snapshots /\ \A a \in answers' : a \in Snapshots
  <2>1. Copies' \subseteq Snapshots
    BY CopiesStep, CopiesType, CurrentType
  <2> QED
    BY <2>1 DEF Copies
<1>2. Len(downlink) \in Nat /\ Len(downlink) <= MaxQueue /\ MaxQueue \in Nat
  BY LenProperties, ConstantsAssumption DEF TypeOK
<1>3. CASE ReceiveRequest
  <2>1. /\ UNCHANGED clientVars
        /\ downlink' = IF Len(downlink) < MaxQueue THEN Append(downlink, Current) ELSE downlink
    BY <1>3 DEF ReceiveRequest, Current
  <2>2. downlink' \in Seq(Snapshots) /\ Len(downlink') <= MaxQueue
    <3>1. CASE Len(downlink) < MaxQueue
      BY <1>2, <2>1, <3>1, DownlinkSteps
    <3>2. CASE ~(Len(downlink) < MaxQueue)
      BY <2>1, <3>2 DEF TypeOK
    <3> QED
      BY <3>1, <3>2
  <2> QED
    BY <1>1, <2>1, <2>2 DEF TypeOK
<1>4. CASE StoreSnapshot
  <2>1. UNCHANGED clientVars /\ downlink # <<>> /\ downlink' = Tail(downlink)
    BY <1>4 DEF StoreSnapshot
  <2>2. downlink' \in Seq(Snapshots) /\ Len(downlink') <= MaxQueue
    BY <1>2, <2>1, DownlinkSteps
  <2> QED
    BY <1>1, <2>1, <2>2 DEF TypeOK
<1>5. CASE Quit
  <2>1. UNCHANGED <<connects, fired>> /\ running' = FALSE /\ downlink' = <<>>
    BY <1>5 DEF Quit
  <2>2. downlink' \in Seq(Snapshots) /\ Len(downlink') <= MaxQueue
    BY <1>2, <2>1, EmptySeq
  <2> QED
    BY <1>1, <2>1, <2>2 DEF TypeOK
<1>6. CASE KeyPress \/ ApiFire \/ ApiSend
  <2>1. PICK names \in SUBSET Senders : IsFiniteSet(names) /\ Fire(names)
    BY <1>6, FiresSome
  <2>2. Cardinality(names) \in Nat
    BY <2>1, FS_CardinalityType
  <2>3. /\ UNCHANGED <<downlink, connects, running>>
        /\ fired' = fired + Cardinality(names) /\ fired' <= MaxFired
    BY <2>1 DEF Fire
  <2>4. fired' \in 0..MaxFired
    <3>1. PICK n \in Nat : n = Cardinality(names)
      BY <2>2
    <3>2. fired \in 0..MaxFired /\ MaxFired \in Nat
      BY ConstantsAssumption DEF TypeOK
    <3> QED
      BY <2>3, <3>1, <3>2
  <2> QED
    BY <1>1, <2>3, <2>4 DEF TypeOK
<1>7. CASE \E s \in Senders : Connect(s)
  <2>1. UNCHANGED <<downlink, fired, running>> /\ connects' \in [Senders -> Nat]
    BY <1>7 DEF Connect, TypeOK
  <2> QED
    BY <1>1, <2>1 DEF TypeOK
<1>8. CASE Poll \/ \E s \in Senders : ReceiveEvent(s)
  BY <1>1, <1>8 DEF Poll, ReceiveEvent, TypeOK
<1>9. CASE Refresh \/ ApiStats \/ FetchFails \/ Render \/ Reload \/ UNCHANGED vars
  BY <1>1, <1>9 DEF Refresh, ApiStats, FetchFails, Render, Reload, vars, TypeOK
<1> QED
  BY <1>3, <1>4, <1>5, <1>6, <1>7, <1>8, <1>9 DEF Next

-----------------------------------------------------------------------------
(* The feed of the page.                                                   *)

\* A feed that has reached the total t, with no gap but before an entire ring.
Exact(feed, t) ==
    /\ feed # <<>> => Last(feed).id = t - 1
    /\ \A i \in 1..(Len(feed) - 1) :
          LET next == feed[i + 1].id
          IN  \/ next = feed[i].id + 1
              \/ /\ next > feed[i].id
                 /\ Len(feed) - i >= MaxEvents
                 /\ \A k \in 1..MaxEvents : feed[i + k].id = next + k - 1

\* Events in sequence, the last of them the one before the total t.
Run(seq, t) == \A i \in 1..Len(seq) : seq[i].id = t - Len(seq) + i - 1

\* What renderEvents appends: as many as the total has grown, or the whole ring.
LEMMA NewEventsProperties ==
    ASSUME TypeOK, NEW a \in Snapshots, Ring(a.events, a.total), lastTotal <= a.total
    PROVE  LET n == NewEvents(a)
           IN  /\ n \in Seq(Events) /\ Run(n, a.total)
               /\ lastTotal < 0 => n = a.events
               /\ lastTotal >= 0 => \/ Len(n) = a.total - lastTotal
                                    \/ Len(n) = MaxEvents /\ Len(n) <= a.total - lastTotal
<1>1. PICK t \in Nat \cup {-1} : t = lastTotal
  BY DEF TypeOK
<1>2. PICK e \in Seq(Events), u \in Nat : e = a.events /\ u = a.total
  BY DEF Snapshots
<1>3. /\ Len(e) \in Nat /\ Len(e) = IF u > MaxEvents THEN MaxEvents ELSE u
      /\ Run(e, u) /\ MaxEvents \in Nat /\ t <= u
  BY <1>1, <1>2, LenProperties, ConstantsAssumption DEF Ring, Run
<1>4. CASE t < 0
  BY <1>1, <1>2, <1>3, <1>4 DEF NewEvents
<1>5. CASE t >= 0 /\ u = t
  <2>1. NewEvents(a) = <<>>
    BY <1>1, <1>2, <1>5 DEF NewEvents
  <2>2. <<>> \in Seq(Events) /\ Len(<<>>) = 0
    BY EmptySeq
  <2> QED
    BY <1>1, <1>2, <1>5, <2>1, <2>2 DEF Run
<1>6. CASE t >= 0 /\ u > t
  <2> DEFINE n == Newest(u - t, e)
  <2>1. NewEvents(a) = n
    BY <1>1, <1>2, <1>6 DEF NewEvents
  <2>2. u - t \in Nat
    BY <1>6
  <2>3. /\ n \in Seq(Events)
        /\ Len(n) = IF Len(e) > u - t THEN u - t ELSE Len(e)
        /\ \A i \in 1..Len(n) : n[i] = e[Len(e) - Len(n) + i]
    BY <2>2, NewestProperties
  <2> HIDE DEF n
  <2>4. Len(n) \in Nat /\ Len(n) <= Len(e)
    BY <1>3, <1>6, <2>3
  <2>5. ASSUME NEW i \in 1..Len(n) PROVE n[i].id = u - Len(n) + i - 1
    <3>1. Len(e) - Len(n) + i \in 1..Len(e)
      BY <1>3, <2>4
    <3>2. e[Len(e) - Len(n) + i].id = u - Len(e) + (Len(e) - Len(n) + i) - 1
      BY <1>3, <3>1 DEF Run
    <3> QED
      BY <1>3, <2>3, <2>4, <3>2
  <2>6. Len(n) = u - t \/ (Len(n) = MaxEvents /\ Len(n) <= u - t)
    BY <1>3, <1>6, <2>3
  <2> QED
    BY <1>1, <1>2, <1>6, <2>1, <2>3, <2>5, <2>6 DEF Run
<1> QED
  BY <1>1, <1>3, <1>4, <1>5, <1>6

\* Appending them keeps a feed exact.
LEMMA FeedAppended ==
    ASSUME NEW r \in Seq(Events), NEW n \in Seq(Events), NEW t \in Nat, NEW u \in Nat,
           Exact(r, t), Run(n, u),
           Len(n) = u - t \/ (Len(n) = MaxEvents /\ Len(n) <= u - t)
    PROVE  r \o n \in Seq(Events) /\ Exact(r \o n, u)
<1> DEFINE f == r \o n
<1>1. Len(r) \in Nat /\ Len(n) \in Nat /\ MaxEvents \in Nat \ {0}
  BY LenProperties, ConstantsAssumption
<1>2. /\ f \in Seq(Events) /\ Len(f) = Len(r) + Len(n)
      /\ \A i \in 1..(Len(r) + Len(n)) : f[i] = IF i <= Len(r) THEN r[i] ELSE n[i - Len(r)]
  BY ConcatProperties
<1> HIDE DEF f
<1>3. \A i \in 1..Len(r) : f[i] = r[i]
  BY <1>1, <1>2
<1>4. \A i \in 1..Len(n) : f[Len(r) + i] = n[i] /\ f[Len(r) + i].id = u - Len(n) + i - 1
  <2> SUFFICES ASSUME NEW i \in 1..Len(n)
               PROVE  f[Len(r) + i] = n[i] /\ f[Len(r) + i].id = u - Len(n) + i - 1
    OBVIOUS
  <2>1. PICK k \in Nat : k = Len(r) + i
    BY <1>1
  <2>2. k \in 1..(Len(r) + Len(n)) /\ ~(k <= Len(r)) /\ k - Len(r) = i
    BY <1>1, <2>1
  <2>3. f[k] = n[i]
    BY <1>2, <2>2
  <2>4. n[i].id = u - Len(n) + i - 1
    BY DEF Run
  <2> QED
    BY <2>1, <2>3, <2>4
<1>5. r # <<>> => r[Len(r)].id = t - 1 /\ Len(r) \in 1..Len(r)
  <2>1. r # <<>> => Len(r) \in 1..Len(r)
    BY <1>1, EmptySeq
  <2> QED
    BY <2>1 DEF Exact, Last
<1>6. f # <<>> => Last(f).id = u - 1
  <2>1. CASE Len(n) = 0
    <3>1. u = t /\ Len(f) = Len(r)
      BY <1>1, <1>2, <2>1
    <3>2. f # <<>> => r # <<>>
      BY <1>1, <1>2, <3>1, EmptySeq
    <3> QED
      BY <1>3, <1>5, <3>1, <3>2 DEF Last
  <2>2. CASE Len(n) # 0
    <3>1. Len(n) \in 1..Len(n)
      BY <1>1, <2>2
    <3> QED
      BY <1>2, <1>4, <3>1 DEF Last
  <2> QED
    BY <2>1, <2>2
<1>7. ASSUME NEW i \in 1..(Len(f) - 1)
      PROVE  LET next == f[i + 1].id
             IN  \/ next = f[i].id + 1
                 \/ /\ next > f[i].id
                    /\ Len(f) - i >= MaxEvents
                    /\ \A k \in 1..MaxEvents : f[i + k].id = next + k - 1
  <2>1. CASE i < Len(r)
    <3>1. i \in 1..(Len(r) - 1) /\ i \in 1..Len(r) /\ i + 1 \in 1..Len(r)
      BY <1>1, <1>2, <2>1
    <3>2. f[i] = r[i] /\ f[i + 1] = r[i + 1]
      BY <1>3, <3>1
    <3>3. \/ r[i + 1].id = r[i].id + 1
          \/ /\ r[i + 1].id > r[i].id
             /\ Len(r) - i >= MaxEvents
             /\ \A k \in 1..MaxEvents : r[i + k].id = r[i + 1].id + k - 1
      BY <3>1 DEF Exact
    <3>4. CASE r[i + 1].id = r[i].id + 1
      BY <3>2, <3>4
    <3>5. CASE /\ r[i + 1].id > r[i].id
               /\ Len(r) - i >= MaxEvents
               /\ \A k \in 1..MaxEvents : r[i + k].id = r[i + 1].id + k - 1
      <4>1. \A k \in 1..MaxEvents : i + k \in 1..Len(r)
        <5>1. Len(r) - i >= MaxEvents
          BY <3>5
        <5> QED
          BY <1>1, <3>1, <5>1
      <4>2. \A k \in 1..MaxEvents : f[i + k].id = f[i + 1].id + k - 1
        BY <1>3, <3>2, <3>5, <4>1
      <4>3. Len(f) - i >= MaxEvents
        BY <1>1, <1>2, <3>1, <3>5
      <4> QED
        BY <3>2, <3>5, <4>2, <4>3
    <3> QED
      BY <3>3, <3>4, <3>5
  <2>2. CASE i = Len(r)
    <3>1. 1 \in 1..Len(n) /\ r # <<>> /\ i \in 1..Len(r)
      BY <1>1, <1>2, <2>2, EmptySeq
    <3>2. f[i].id = t - 1
      BY <1>3, <1>5, <2>2, <3>1
    <3>3. f[i + 1].id = u - Len(n)
      BY <1>1, <1>4, <2>2, <3>1
    <3>4. CASE Len(n) = u - t
      BY <3>2, <3>3, <3>4
    <3>5. CASE Len(n) = MaxEvents /\ Len(n) <= u - t
      <4>1. \A k \in 1..MaxEvents : f[i + k].id = f[i + 1].id + k - 1
        BY <1>1, <1>4, <2>2, <3>3, <3>5
      <4>2. Len(f) - i >= MaxEvents /\ f[i + 1].id > f[i].id
        BY <1>1, <1>2, <2>2, <3>2, <3>3, <3>5
      <4> QED
        BY <4>1, <4>2
    <3> QED
      BY <3>4, <3>5
  <2>3. CASE i > Len(r)
    <3>1. PICK j \in Nat, k \in Nat, m \in Nat : j = i - Len(r) /\ k = Len(r) /\ m = Len(n)
      <4>1. Len(f) \in Nat
        BY <1>1, <1>2
      <4>2. i - Len(r) \in Nat
        BY <1>1, <2>3, <4>1
      <4> QED
        BY <1>1, <4>2
    <3>2. j >= 1 /\ i = k + j /\ i <= k + m - 1
      BY <1>1, <1>2, <2>3, <3>1
    <3>3. j \in 1..m /\ j + 1 \in 1..m /\ k + (j + 1) = i + 1
      BY <3>2
    <3>4. f[i].id = u - m + j - 1 /\ f[i + 1].id = u - m + (j + 1) - 1
      BY <1>4, <3>1, <3>2, <3>3
    <3> QED
      BY <3>4
  <2> QED
    BY <1>1, <1>2, <2>1, <2>2, <2>3
<1> QED
  BY <1>2, <1>6, <1>7 DEF Exact, f

\* Removing its oldest rows does so as well.
LEMMA FeedPruned ==
    ASSUME NEW f \in Seq(Events), NEW u \in Nat, Exact(f, u)
    PROVE  /\ Pruned(f) \in Seq(Events) /\ Len(Pruned(f)) <= MaxRows
           /\ Exact(Pruned(f), u)
<1> DEFINE p == Pruned(f)
<1>1. Len(f) \in Nat /\ MaxRows \in Nat \ {0} /\ MaxEvents \in Nat \ {0}
  BY LenProperties, ConstantsAssumption
<1>2. /\ p \in Seq(Events) /\ Len(p) = IF Len(f) > MaxRows THEN MaxRows ELSE Len(f)
      /\ \A i \in 1..Len(p) : p[i] = f[Len(f) - Len(p) + i]
  BY <1>1, NewestProperties DEF Pruned
<1> HIDE DEF p
<1>3. PICK d \in Nat : d = Len(f) - Len(p)
  <2>1. Len(p) = IF Len(f) > MaxRows THEN MaxRows ELSE Len(f)
    BY <1>2
  <2>2. Len(f) - Len(p) \in Nat
    BY <1>1, <2>1
  <2> QED
    BY <2>2
<1>4. Len(p) \in Nat /\ Len(p) <= MaxRows /\ Len(f) = d + Len(p)
  BY <1>1, <1>2, <1>3
<1>5. \A i \in 1..Len(p) : p[i] = f[d + i]
  BY <1>2, <1>3
<1>6. p # <<>> => Last(p).id = u - 1
  <2> SUFFICES ASSUME p # <<>> PROVE Last(p).id = u - 1
    OBVIOUS
  <2>1. Len(p) \in Nat \ {0}
    BY <1>2, EmptySeq
  <2>2. Len(f) # 0
    BY <1>3, <1>4, <2>1
  <2>3. Len(p) \in 1..Len(p) /\ f # <<>>
    BY <2>1, <2>2, EmptySeq
  <2> QED
    BY <1>4, <1>5, <2>3 DEF Exact, Last
<1>7. ASSUME NEW i \in 1..(Len(p) - 1)
      PROVE  LET next == p[i + 1].id
             IN  \/ next = p[i].id + 1
                 \/ /\ next > p[i].id
                    /\ Len(p) - i >= MaxEvents
                    /\ \A k \in 1..MaxEvents : p[i + k].id = next + k - 1
  <2>1. /\ d + i \in 1..(Len(f) - 1) /\ i \in 1..Len(p) /\ i + 1 \in 1..Len(p)
        /\ d + (i + 1) = (d + i) + 1
    BY <1>3, <1>4
  <2>2. p[i] = f[d + i] /\ p[i + 1] = f[(d + i) + 1]
    <3>1. p[i] = f[d + i] /\ p[i + 1] = f[d + (i + 1)]
      BY <1>5, <2>1
    <3> QED
      BY <2>1, <3>1
  <2>3. \/ f[(d + i) + 1].id = f[d + i].id + 1
        \/ /\ f[(d + i) + 1].id > f[d + i].id
           /\ Len(f) - (d + i) >= MaxEvents
           /\ \A k \in 1..MaxEvents : f[(d + i) + k].id = f[(d + i) + 1].id + k - 1
    BY <2>1 DEF Exact
  <2>4. CASE f[(d + i) + 1].id = f[d + i].id + 1
    BY <2>2, <2>4
  <2>5. CASE /\ f[(d + i) + 1].id > f[d + i].id
             /\ Len(f) - (d + i) >= MaxEvents
             /\ \A k \in 1..MaxEvents : f[(d + i) + k].id = f[(d + i) + 1].id + k - 1
    <3>1. Len(p) - i >= MaxEvents
      BY <1>1, <1>3, <1>4, <2>1, <2>5
    <3>2. \A k \in 1..MaxEvents : i + k \in 1..Len(p) /\ d + (i + k) = (d + i) + k
      BY <1>1, <1>3, <1>4, <2>1, <3>1
    <3>3. \A k \in 1..MaxEvents : p[i + k].id = p[i + 1].id + k - 1
      BY <1>5, <2>2, <2>5, <3>2
    <3> QED
      BY <2>2, <2>5, <3>1, <3>3
  <2> QED
    BY <2>3, <2>4, <2>5
<1> QED
  BY <1>2, <1>4, <1>6, <1>7 DEF Exact, p

\* Rendering an answer.
LEMMA RenderFeed ==
    ASSUME TypeOK, RingInv, OrderInv, FeedInv, Render
    PROVE  /\ rows' \in Seq(Events) /\ Len(rows') <= MaxRows
           /\ lastTotal' \in Nat \cup {-1}
           /\ FeedInv'
<1>1. PICK a \in answers :
          IF a.events = <<>> THEN UNCHANGED <<lastTotal, rows>>
          ELSE /\ lastTotal' = a.total
               /\ rows' = Pruned((IF lastTotal < 0 THEN <<>> ELSE rows) \o NewEvents(a))
  BY DEF Render
<1>2. a \in Snapshots /\ Ring(a.events, a.total) /\ lastTotal <= a.total
  BY DEF TypeOK, RingInv, OrderInv, Copies
<1>3. PICK t \in Nat \cup {-1}, r \in Seq(Events), u \in Nat :
          t = lastTotal /\ r = rows /\ u = a.total
  BY <1>2 DEF TypeOK, Snapshots
<1>4. t = -1 => r = <<>>
  BY <1>3 DEF FeedInv
<1>5. Exact(r, t)
  BY <1>3 DEF FeedInv, FeedExact, Exact
<1>6. CASE a.events = <<>>
  BY <1>1, <1>6 DEF TypeOK, FeedInv, FeedExact
<1>7. CASE a.events # <<>>
  <2>1. PICK n \in Seq(Events) : n = NewEvents(a)
    BY <1>2, NewEventsProperties
  <2>2. /\ Run(n, u)
        /\ t < 0 => n = a.events
        /\ t >= 0 => Len(n) = u - t \/ (Len(n) = MaxEvents /\ Len(n) <= u - t)
    BY <1>2, <1>3, <2>1, NewEventsProperties
  <2> DEFINE base == IF t < 0 THEN <<>> ELSE r
  <2>3. base \o n \in Seq(Events) /\ Exact(base \o n, u)
    <3>1. CASE t < 0
      <4>1. PICK e \in Seq(Events) : e = <<>>
        BY EmptySeq
      <4>2. /\ Len(e) = 0 /\ Len(n) \in Nat
            /\ Len(a.events) = IF u > MaxEvents THEN MaxEvents ELSE u
        BY <1>2, <1>3, <4>1, EmptySeq, LenProperties DEF Ring
      <4>3. PICK v \in Nat : v = u - Len(n)
        <5>1. Len(n) <= u
          BY <2>2, <3>1, <4>2
        <5> QED
          BY <4>2, <5>1
      <4>4. Exact(e, v)
        BY <4>1, <4>2 DEF Exact
      <4>5. Len(n) = u - v
        BY <4>2, <4>3
      <4>6. e \o n \in Seq(Events) /\ Exact(e \o n, u)
        BY <2>2, <4>4, <4>5, FeedAppended
      <4> QED
        BY <3>1, <4>1, <4>6
    <3>2. CASE t >= 0
      <4>1. t \in Nat /\ base = r
        BY <3>2
      <4> HIDE DEF base
      <4> QED
        BY <1>5, <2>2, <3>2, <4>1, FeedAppended
    <3> QED
      BY <3>1, <3>2
  <2>4. rows' = Pruned(base \o n) /\ lastTotal' = u
    BY <1>1, <1>3, <1>7, <2>1
  <2>5. PICK f \in Seq(Events) : f = base \o n /\ Exact(f, u)
    BY <2>3
  <2>6. rows' \in Seq(Events) /\ Len(rows') <= MaxRows /\ Exact(rows', u)
    BY <2>4, <2>5, FeedPruned
  <2>7. FeedExact'
    BY <2>4, <2>6 DEF Exact, FeedExact
  <2> QED
    BY <2>4, <2>6, <2>7 DEF FeedInv
<1> QED
  BY <1>6, <1>7

LEMMA FeedStep ==
    ASSUME TypeOK, RingInv, OrderInv, FeedInv, [Next]_vars
    PROVE  /\ rows' \in Seq(Events) /\ Len(rows') <= MaxRows
           /\ lastTotal' \in Nat \cup {-1}
           /\ FeedInv'
<1> USE DEF serverVars, clientVars, browserVars
<1>1. CASE Render
  BY <1>1, RenderFeed
<1>2. CASE Reload
  <2>1. rows' = <<>> /\ lastTotal' = -1
    BY <1>2 DEF Reload
  <2>2. rows' \in Seq(Events) /\ Len(rows') = 0 /\ MaxRows \in Nat
    BY <2>1, EmptySeq, ConstantsAssumption
  <2> QED
    BY <2>1, <2>2 DEF FeedInv, FeedExact
<1>3. ASSUME UNCHANGED <<rows, lastTotal>>
      PROVE  /\ rows' \in Seq(Events) /\ Len(rows') <= MaxRows
             /\ lastTotal' \in Nat \cup {-1}
             /\ FeedInv'
  BY <1>3 DEF TypeOK, FeedInv, FeedExact
<1>4. CASE \E s \in Senders : Connect(s) \/ ReceiveEvent(s)
  BY <1>3, <1>4 DEF Connect, ReceiveEvent
<1>5. CASE KeyPress \/ ApiFire \/ ApiSend
  BY <1>3, <1>5 DEF KeyPress, ApiFire, ApiSend, Fire
<1>6. CASE Poll \/ Quit \/ ReceiveRequest \/ StoreSnapshot
  BY <1>3, <1>6 DEF Poll, Quit, ReceiveRequest, StoreSnapshot
<1>7. CASE Refresh \/ ApiStats \/ FetchFails \/ UNCHANGED vars
  BY <1>3, <1>7 DEF Refresh, ApiStats, FetchFails, vars
<1> QED
  BY <1>1, <1>2, <1>4, <1>5, <1>6, <1>7 DEF Next

\* The flag, the fetches and the header.
LEMMA BrowserStep ==
    ASSUME TypeOK, RefreshInv, [Next]_vars
    PROVE  /\ isRefreshing' \in BOOLEAN /\ asked' \in Nat /\ troubles' \in 0..MaxTroubles
           /\ shown' \in [messages : Nat, events : Nat]
           /\ RefreshInv'
<1> USE DEF serverVars, clientVars, browserVars
<1>1. CASE Render
  <2>1. PICK a \in answers :
            /\ answers' = answers \ {a} /\ isRefreshing' = FALSE /\ UNCHANGED <<asked, troubles>>
            /\ shown' = [messages |-> IF Counted(a.counts) = {} THEN shown.messages
                                                                ELSE Messages(a.counts),
                         events |-> a.total]
    BY <1>1 DEF Render
  <2>2. a.counts \in Counts /\ a.total \in Nat
    BY DEF TypeOK, Snapshots
  <2>3. Messages(a.counts) \in Nat
    BY <2>2, MessagesType
  <2>4. shown' \in [messages : Nat, events : Nat]
    BY <2>1, <2>2, <2>3 DEF TypeOK
  <2>5. answers' = {}
    BY <2>1 DEF RefreshInv
  <2>6. RefreshInv'
    BY <2>1, <2>5 DEF RefreshInv
  <2> QED
    BY <2>1, <2>4, <2>6 DEF TypeOK
<1>2. CASE Reload
  <2>1. shown' \in [messages : Nat, events : Nat]
    BY <1>2 DEF Reload
  <2>2. troubles' \in 0..MaxTroubles
    BY <1>2, ConstantsAssumption DEF Reload, TypeOK
  <2>3. isRefreshing' = FALSE /\ asked' = 0 /\ answers' = {}
    BY <1>2 DEF Reload
  <2>4. RefreshInv'
    BY <2>3 DEF RefreshInv
  <2> QED
    BY <2>1, <2>2, <2>3, <2>4
<1>3. CASE FetchFails
  <2>1. troubles' \in 0..MaxTroubles
    BY <1>3, ConstantsAssumption DEF FetchFails, TypeOK
  <2>2. isRefreshing' = FALSE /\ asked' = 0 /\ answers' = {} /\ shown' = shown
    BY <1>3 DEF FetchFails, RefreshInv
  <2>3. RefreshInv'
    BY <2>2 DEF RefreshInv
  <2> QED
    BY <2>1, <2>2, <2>3 DEF TypeOK
<1>4. CASE ApiStats
  BY <1>4 DEF ApiStats, RefreshInv, TypeOK
<1>5. CASE Refresh
  BY <1>5 DEF Refresh, RefreshInv, TypeOK
<1>6. ASSUME UNCHANGED browserVars
      PROVE  /\ isRefreshing' \in BOOLEAN /\ asked' \in Nat /\ troubles' \in 0..MaxTroubles
             /\ shown' \in [messages : Nat, events : Nat]
             /\ RefreshInv'
  BY <1>6 DEF TypeOK, RefreshInv
<1>7. CASE \E s \in Senders : Connect(s) \/ ReceiveEvent(s)
  BY <1>6, <1>7 DEF Connect, ReceiveEvent
<1>8. CASE KeyPress \/ ApiFire \/ ApiSend
  BY <1>6, <1>8 DEF KeyPress, ApiFire, ApiSend, Fire
<1>9. CASE Poll \/ Quit \/ ReceiveRequest \/ StoreSnapshot \/ UNCHANGED vars
  BY <1>6, <1>9 DEF Poll, Quit, ReceiveRequest, StoreSnapshot, vars
<1> QED
  BY <1>1, <1>2, <1>3, <1>4, <1>5, <1>7, <1>8, <1>9 DEF Next

LEMMA TypeStep ==
    ASSUME TypeOK, RingInv, OrderInv, FeedInv, RefreshInv, [Next]_vars
    PROVE  TypeOK'
  BY UplinkType, ServerType, ClientType, FeedStep, BrowserStep DEF TypeOK

\* A name is known before it sends and from then on.
LEMMA KnownStep ==
    ASSUME TypeOK, KnownInv, [Next]_vars
    PROVE  KnownInv'
<1> USE DEF serverVars, clientVars, browserVars
<1>1. CASE \E s \in Senders : Connect(s)
  BY <1>1 DEF Connect, KnownInv, TypeOK, Counts, Unknown
<1>2. CASE \E s \in Senders : ReceiveEvent(s)
  <2>1. PICK s \in Senders : ReceiveEvent(s)
    BY <1>2
  <2>2. UNCHANGED connects /\ stats' = [stats EXCEPT ![s] = @ + 1]
    BY <2>1 DEF ReceiveEvent
  <2>3. uplink[s] # <<>> /\ \A r \in Senders : uplink'[r] # <<>> => uplink[r] # <<>>
    BY <2>1 DEF ReceiveEvent, Handled, TypeOK
  <2>4. stats'[s] # Unknown
    BY <2>2, <2>3 DEF KnownInv, TypeOK, Counts, Unknown
  <2>5. \A r \in Senders : r # s => stats'[r] = stats[r]
    BY <2>2 DEF TypeOK, Counts
  <2> QED
    BY <2>2, <2>3, <2>4, <2>5 DEF KnownInv
<1>3. CASE KeyPress \/ ApiFire \/ ApiSend
  <2>1. PICK names \in SUBSET Senders : Fire(names) /\ \A s \in names : connects[s] > 0
    BY <1>3, FiresSome
  <2>2. UNCHANGED <<connects, stats>>
    BY <2>1 DEF Fire
  <2>3. \A s \in Senders : s \notin names => uplink'[s] = uplink[s]
    BY <2>1 DEF Fire
  <2> QED
    BY <2>1, <2>2, <2>3 DEF KnownInv
<1>4. CASE Poll
  <2>1. UNCHANGED <<connects, stats>> /\ connects[UI] > 0
    BY <1>4 DEF Poll
  <2>2. \A s \in Senders : s # UI => uplink'[s] = uplink[s]
    BY <1>4 DEF Poll, TypeOK
  <2> QED
    BY <2>1, <2>2 DEF KnownInv
<1>5. CASE Quit
  BY <1>5 DEF Quit, KnownInv
<1>6. CASE ReceiveRequest
  <2>1. UNCHANGED <<connects, stats>>
    BY <1>6 DEF ReceiveRequest
  <2>2. \A r \in Senders : uplink'[r] # <<>> => uplink[r] # <<>>
    BY <1>6 DEF ReceiveRequest, Handled, TypeOK
  <2> QED
    BY <2>1, <2>2 DEF KnownInv
<1>7. CASE \/ StoreSnapshot \/ Refresh \/ ApiStats \/ FetchFails \/ Render \/ Reload
           \/ UNCHANGED vars
  BY <1>7 DEF StoreSnapshot, Refresh, ApiStats, FetchFails, Render, Reload, vars, KnownInv
<1> QED
  BY <1>1, <1>2, <1>3, <1>4, <1>5, <1>6, <1>7 DEF Next

-----------------------------------------------------------------------------
(* Copies of one moment, in the order of the moments.                      *)

LEMMA RingStep ==
    ASSUME TypeOK, RingInv, [Next]_vars
    PROVE  RingInv'
<1> USE DEF serverVars, clientVars, browserVars
<1>1. Ring(events, total) /\ \A x \in Copies \cup {Current} : Ring(x.events, x.total)
  <2>1. Current.events = events /\ Current.total = total
    BY DEF Current
  <2>2. Ring(Current.events, Current.total)
    BY DEF RingInv
  <2> QED
    BY <2>1, <2>2 DEF RingInv
<1>2. ASSUME NEW s \in Senders, ReceiveEvent(s) PROVE Ring(events', total')
  <2> DEFINE e == [id |-> total, sender |-> s]
  <2>1. e \in Events /\ e.id = total
    BY DEF TypeOK, Events
  <2>2. total' = total + 1 /\ events' = Newest(MaxEvents, Append(events, e))
    BY <1>2 DEF ReceiveEvent
  <2> HIDE DEF e
  <2>3. PICK t \in Nat, k \in Nat : t = total /\ k = Len(events)
    BY LenProperties DEF TypeOK
  <2> DEFINE n == IF k + 1 > MaxEvents THEN MaxEvents ELSE k + 1
  <2>4. /\ Len(events') = n
        /\ \A i \in 1..n : events'[i] = IF i = n THEN e ELSE events[k + 1 - n + i]
    BY <2>1, <2>2, <2>3, RingType
  <2>5. MaxEvents \in Nat \ {0} /\ k = IF t > MaxEvents THEN MaxEvents ELSE t
    BY <1>1, <2>3, ConstantsAssumption DEF Ring
  <2>6. n = IF t + 1 > MaxEvents THEN MaxEvents ELSE t + 1
    BY <2>5
  <2>7. n \in 1..(k + 1)
    BY <2>5
  <2> HIDE DEF n
  <2>8. ASSUME NEW i \in 1..n PROVE events'[i].id = (t + 1) - n + i - 1
    <3>1. CASE i = n
      BY <2>1, <2>3, <2>4, <2>7, <3>1
    <3>2. CASE i # n
      <4>1. k + 1 - n + i \in 1..k
        BY <2>7, <3>2
      <4>2. events[k + 1 - n + i].id = t - k + (k + 1 - n + i) - 1
        BY <1>1, <2>3, <4>1 DEF Ring
      <4> QED
        BY <2>3, <2>4, <2>7, <3>2, <4>2
    <3> QED
      BY <3>1, <3>2
  <2> QED
    BY <2>2, <2>3, <2>4, <2>6, <2>8 DEF Ring
<1>3. Ring(events', total')
  <2>1. ASSUME UNCHANGED <<events, total>> PROVE Ring(events', total')
    BY <1>1, <2>1
  <2>2. CASE \E s \in Senders : ReceiveEvent(s)
    BY <1>2, <2>2
  <2>3. CASE \E s \in Senders : Connect(s)
    BY <2>1, <2>3 DEF Connect
  <2>4. CASE KeyPress \/ ApiFire \/ ApiSend
    BY <2>1, <2>4 DEF KeyPress, ApiFire, ApiSend, Fire
  <2>5. CASE Poll \/ Quit \/ ReceiveRequest \/ StoreSnapshot
    BY <2>1, <2>5 DEF Poll, Quit, ReceiveRequest, StoreSnapshot
  <2>6. CASE Refresh \/ ApiStats \/ FetchFails \/ Render \/ Reload \/ UNCHANGED vars
    BY <2>1, <2>6 DEF Refresh, ApiStats, FetchFails, Render, Reload, vars
  <2> QED
    BY <2>2, <2>3, <2>4, <2>5, <2>6 DEF Next
<1>4. \A x \in Copies' : Ring(x.events, x.total)
  BY <1>1, CopiesStep
<1>5. \A x \in {Current'} : Ring(x.events, x.total)
  BY <1>3 DEF Current
<1> QED
  BY <1>4, <1>5 DEF RingInv

LEMMA OrderStep ==
    ASSUME TypeOK, RefreshInv, OrderInv, [Next]_vars
    PROVE  OrderInv'
<1> USE DEF serverVars, clientVars, browserVars
<1>1. /\ total \in Nat /\ latest.total \in Nat /\ shown.events \in Nat
      /\ lastTotal \in Nat \cup {-1} /\ Len(downlink) \in Nat
      /\ \A a \in answers : a.total \in Nat
      /\ \A i \in 1..Len(downlink) : downlink[i].total \in Nat
  <2>1. \A x \in Copies : x.total \in Nat
    BY CopiesType DEF Snapshots
  <2> QED
    BY <2>1, LenProperties DEF TypeOK, Copies
<1>2. CASE \E s \in Senders : Connect(s)
  BY <1>2 DEF Connect, OrderInv
<1>3. CASE \E s \in Senders : ReceiveEvent(s)
  <2>1. /\ UNCHANGED <<lastTotal, shown, latest, answers, downlink>>
        /\ total' = total + 1
    BY <1>3 DEF ReceiveEvent
  <2> QED
    BY <1>1, <2>1 DEF OrderInv
<1>4. CASE KeyPress \/ ApiFire \/ ApiSend
  BY <1>4 DEF KeyPress, ApiFire, ApiSend, Fire, OrderInv
<1>5. CASE Quit
  <2>1. UNCHANGED <<lastTotal, shown, latest, answers, total>> /\ downlink' = <<>>
    BY <1>5 DEF Quit
  <2>2. Len(downlink') = 0
    BY <2>1, EmptySeq
  <2> QED
    BY <2>1, <2>2 DEF OrderInv
<1>6. CASE ReceiveRequest
  <2>1. /\ UNCHANGED <<lastTotal, shown, latest, answers, total>>
        /\ downlink' = IF Len(downlink) < MaxQueue THEN Append(downlink, Current) ELSE downlink
    BY <1>6 DEF ReceiveRequest, Current
  <2>2. CASE downlink' = downlink
    BY <2>1, <2>2 DEF OrderInv
  <2>3. CASE downlink' = Append(downlink, Current)
    <3> DEFINE n == Len(downlink) + 1
    <3>1. /\ Len(downlink') = n
          /\ \A i \in 1..Len(downlink) : downlink'[i] = downlink[i]
          /\ downlink'[n] = Current
      BY <2>3, DownlinkSteps
    <3>2. Current.total = total
      BY DEF Current
    <3>3. \A i \in 1..n : i \in 1..Len(downlink) \/ i = n
      BY <1>1
    <3>4. \A i \in 1..n : downlink'[i].total \in Nat /\ latest.total <= downlink'[i].total
                          /\ downlink'[i].total <= total
      BY <1>1, <3>1, <3>2, <3>3 DEF OrderInv
    <3>5. ASSUME NEW i \in 1..n, NEW j \in 1..i PROVE downlink'[j].total <= downlink'[i].total
      <4>1. CASE i = n
        <5>1. j \in 1..n
          BY <1>1, <4>1
        <5> QED
          BY <3>1, <3>2, <3>4, <4>1, <5>1
      <4>2. CASE i # n
        <5>1. i \in 1..Len(downlink) /\ j \in 1..Len(downlink)
          BY <1>1, <3>3, <4>2
        <5> QED
          BY <3>1, <5>1 DEF OrderInv
      <4> QED
        BY <4>1, <4>2
    <3> HIDE DEF n
    <3> QED
      BY <2>1, <3>1, <3>4, <3>5 DEF OrderInv
  <2> QED
    BY <2>1, <2>2, <2>3
<1>7. CASE StoreSnapshot
  <2>1. /\ UNCHANGED <<lastTotal, shown, answers, total>>
        /\ downlink # <<>> /\ latest' = Head(downlink) /\ downlink' = Tail(downlink)
    BY <1>7 DEF StoreSnapshot
  <2>2. /\ 1 \in 1..Len(downlink) /\ latest' = downlink[1]
        /\ Len(downlink') = Len(downlink) - 1
        /\ \A i \in 1..Len(downlink') : downlink'[i] = downlink[i + 1]
    BY <2>1, DownlinkSteps
  <2>3. /\ latest.total <= latest'.total /\ latest'.total <= total /\ latest'.total \in Nat
    BY <1>1, <2>2 DEF OrderInv
  <2>4. \A i \in 1..Len(downlink') : /\ i + 1 \in 1..Len(downlink) /\ 1 \in 1..(i + 1)
                                     /\ \A j \in 1..i : j + 1 \in 1..(i + 1) /\ j \in 1..Len(downlink')
    BY <1>1, <2>2
  <2>5. \A i \in 1..Len(downlink') :
            /\ latest'.total <= downlink'[i].total /\ downlink'[i].total <= total
            /\ \A j \in 1..i : downlink'[j].total <= downlink'[i].total
    BY <2>2, <2>4 DEF OrderInv
  <2>6. lastTotal <= latest'.total /\ shown.events <= latest'.total
    BY <1>1, <2>3 DEF OrderInv
  <2>7. \A a \in answers : /\ lastTotal <= a.total /\ shown.events <= a.total
                           /\ a.total <= latest'.total
    BY <1>1, <2>3 DEF OrderInv
  <2> QED
    BY <2>1, <2>3, <2>5, <2>6, <2>7 DEF OrderInv
<1>8. CASE ApiStats
  <2>1. UNCHANGED <<lastTotal, shown, latest, downlink, total>> /\ answers' = answers \cup {latest}
    BY <1>8 DEF ApiStats
  <2> QED
    BY <1>1, <2>1 DEF OrderInv
<1>9. CASE Render
  <2>1. PICK a \in answers :
            /\ answers' = answers \ {a} /\ shown'.events = a.total
            /\ lastTotal' = lastTotal \/ lastTotal' = a.total
            /\ UNCHANGED <<latest, downlink, total>>
    BY <1>9 DEF Render
  <2>2. answers' = {}
    BY <2>1 DEF RefreshInv
  <2>3. lastTotal' <= latest.total /\ shown'.events <= latest.total
    BY <2>1 DEF OrderInv
  <2> QED
    BY <2>1, <2>2, <2>3 DEF OrderInv
<1>10. CASE Reload
  <2>1. /\ UNCHANGED <<latest, downlink, total>> /\ answers' = {}
        /\ lastTotal' = -1 /\ shown'.events = 0
    BY <1>10 DEF Reload
  <2>2. lastTotal' <= latest.total /\ shown'.events <= latest.total
    BY <1>1, <2>1
  <2> QED
    BY <2>1, <2>2 DEF OrderInv
<1>11. CASE Poll \/ Refresh \/ FetchFails \/ UNCHANGED vars
  BY <1>11 DEF Poll, Refresh, FetchFails, vars, OrderInv
<1> QED
  BY <1>2, <1>3, <1>4, <1>5, <1>6, <1>7, <1>8, <1>9, <1>10, <1>11 DEF Next

\* Connections are never taken back.
LEMMA OnceStep == TypeOK /\ [Next]_vars => (ConnectedOnce' => ConnectedOnce)
<1> SUFFICES ASSUME TypeOK, [Next]_vars PROVE ConnectedOnce' => ConnectedOnce
  OBVIOUS
<1> USE DEF serverVars, clientVars, browserVars
<1>1. CASE \E s \in Senders : Connect(s)
  <2>1. PICK s \in Senders : connects' = [connects EXCEPT ![s] = @ + 1]
    BY <1>1 DEF Connect
  <2>2. \A r \in Senders : connects[r] \in Nat /\ connects'[r] \in Nat /\ connects[r] <= connects'[r]
    BY <2>1 DEF TypeOK
  <2> QED
    BY <2>2 DEF ConnectedOnce
<1>2. ASSUME UNCHANGED connects PROVE ConnectedOnce' => ConnectedOnce
  BY <1>2 DEF ConnectedOnce
<1>3. CASE \E s \in Senders : ReceiveEvent(s)
  BY <1>2, <1>3 DEF ReceiveEvent
<1>4. CASE KeyPress \/ ApiFire \/ ApiSend
  BY <1>2, <1>4 DEF KeyPress, ApiFire, ApiSend, Fire
<1>5. CASE Poll \/ Quit \/ ReceiveRequest \/ StoreSnapshot
  BY <1>2, <1>5 DEF Poll, Quit, ReceiveRequest, StoreSnapshot
<1>6. CASE Refresh \/ ApiStats \/ FetchFails \/ Render \/ Reload \/ UNCHANGED vars
  BY <1>2, <1>6 DEF Refresh, ApiStats, FetchFails, Render, Reload, vars
<1> QED
  BY <1>1, <1>3, <1>4, <1>5, <1>6 DEF Next

\* The server's own counts.
LEMMA CurrentAgrees ==
    ASSUME TypeOK, KnownInv, Agree(stats, total, ConnectedOnce), [Next]_vars
    PROVE  Agree(stats', total', ConnectedOnce')
<1> USE DEF serverVars, clientVars, browserVars
<1>1. PICK c \in Counts, t \in Nat : c = stats /\ t = total
  BY DEF TypeOK
<1>2. Messages(c) \in Nat /\ Messages(c) <= t /\ (ConnectedOnce => Messages(c) = t)
  BY <1>1, MessagesType DEF Agree
<1>3. ConnectedOnce' => ConnectedOnce
  BY OnceStep
<1>4. CASE \E s \in Senders : Connect(s)
  <2>1. PICK s \in Senders : /\ connects' = [connects EXCEPT ![s] = @ + 1]
                             /\ stats' = [stats EXCEPT ![s] = 0] /\ total' = total
    BY <1>4 DEF Connect
  <2>2. PICK d \in Counts : d = [c EXCEPT ![s] = 0]
    BY MessagesReset
  <2>3. Messages(d) <= Messages(c) /\ (c[s] = Unknown => Messages(d) = Messages(c))
    BY <2>2, MessagesReset
  <2>4. Messages(d) \in Nat
    BY MessagesType
  <2>5. ConnectedOnce' => c[s] = Unknown
    <3>1. connects[s] \in Nat /\ connects'[s] = connects[s] + 1
      BY <2>1 DEF TypeOK
    <3>2. ConnectedOnce' => connects[s] = 0
      BY <3>1 DEF ConnectedOnce
    <3> QED
      BY <1>1, <3>2 DEF KnownInv
  <2>6. stats' = d /\ total' = t
    BY <1>1, <2>1, <2>2
  <2> QED
    BY <1>2, <1>3, <2>3, <2>4, <2>5, <2>6 DEF Agree
<1>5. CASE \E s \in Senders : ReceiveEvent(s)
  <2>1. PICK s \in Senders : /\ uplink[s] # <<>> /\ total' = total + 1
                             /\ stats' = [stats EXCEPT ![s] = @ + 1]
    BY <1>5 DEF ReceiveEvent, Handled
  <2>2. c[s] # Unknown
    BY <1>1, <2>1 DEF KnownInv
  <2>3. PICK d \in Counts : d = [c EXCEPT ![s] = @ + 1]
    BY <2>2, MessagesCounted
  <2>4. Messages(d) = Messages(c) + 1
    BY <2>2, <2>3, MessagesCounted
  <2>5. stats' = d /\ total' = t + 1
    BY <1>1, <2>1, <2>3
  <2> QED
    BY <1>2, <1>3, <2>4, <2>5 DEF Agree
<1>6. ASSUME UNCHANGED <<stats, total>> PROVE Agree(stats', total', ConnectedOnce')
  BY <1>1, <1>2, <1>3, <1>6 DEF Agree
<1>7. CASE KeyPress \/ ApiFire \/ ApiSend
  BY <1>6, <1>7 DEF KeyPress, ApiFire, ApiSend, Fire
<1>8. CASE Poll \/ Quit \/ ReceiveRequest \/ StoreSnapshot
  BY <1>6, <1>8 DEF Poll, Quit, ReceiveRequest, StoreSnapshot
<1>9. CASE Refresh \/ ApiStats \/ FetchFails \/ Render \/ Reload \/ UNCHANGED vars
  BY <1>6, <1>9 DEF Refresh, ApiStats, FetchFails, Render, Reload, vars
<1> QED
  BY <1>4, <1>5, <1>7, <1>8, <1>9 DEF Next

\* The header.
LEMMA HeaderAgrees ==
    ASSUME TypeOK, OrderInv, AgreeInv, [Next]_vars
    PROVE  CountsAgree'
<1> USE DEF serverVars, clientVars, browserVars
<1>1. ConnectedOnce' => ConnectedOnce
  BY OnceStep
<1>2. CASE Render
  <2>1. PICK a \in answers :
            /\ shown' = [messages |-> IF Counted(a.counts) = {} THEN shown.messages
                                                                ELSE Messages(a.counts),
                         events |-> a.total]
            /\ UNCHANGED connects
    BY <1>2 DEF Render
  <2>2. a.counts \in Counts /\ a.total \in Nat /\ shown.messages \in Nat /\ shown.events \in Nat
    BY DEF TypeOK, Snapshots
  <2>3. Agree(a.counts, a.total, ConnectedOnce) /\ shown.events <= a.total
    BY DEF AgreeInv, OrderInv, Copies
  <2>4. Messages(a.counts) \in Nat /\ (Counted(a.counts) = {} => Messages(a.counts) = 0)
    BY <2>2, MessagesType
  <2>5. shown.messages <= shown.events /\ (ConnectedOnce => shown.messages = shown.events)
    BY DEF AgreeInv, CountsAgree, ConnectedOnce
  <2>6. CASE Counted(a.counts) = {}
    <3>1. shown'.messages = shown.messages /\ shown'.events = a.total
      BY <2>1, <2>6
    <3>2. shown'.messages <= shown'.events
      BY <2>2, <2>3, <2>5, <3>1
    <3>3. ConnectedOnce => shown'.messages = shown'.events
      BY <2>2, <2>3, <2>4, <2>5, <2>6, <3>1 DEF Agree
    <3> QED
      BY <1>1, <3>2, <3>3 DEF CountsAgree, ConnectedOnce
  <2>7. CASE Counted(a.counts) # {}
    <3>1. shown'.messages = Messages(a.counts) /\ shown'.events = a.total
      BY <2>1, <2>7
    <3> QED
      BY <1>1, <2>3, <3>1 DEF Agree, CountsAgree, ConnectedOnce
  <2> QED
    BY <2>6, <2>7
<1>3. CASE Reload
  BY <1>3 DEF Reload, CountsAgree
<1>4. ASSUME UNCHANGED shown PROVE CountsAgree'
  BY <1>1, <1>4 DEF AgreeInv, CountsAgree, ConnectedOnce
<1>5. CASE \E s \in Senders : Connect(s) \/ ReceiveEvent(s)
  BY <1>4, <1>5 DEF Connect, ReceiveEvent
<1>6. CASE KeyPress \/ ApiFire \/ ApiSend
  BY <1>4, <1>6 DEF KeyPress, ApiFire, ApiSend, Fire
<1>7. CASE Poll \/ Quit \/ ReceiveRequest \/ StoreSnapshot
  BY <1>4, <1>7 DEF Poll, Quit, ReceiveRequest, StoreSnapshot
<1>8. CASE Refresh \/ ApiStats \/ FetchFails \/ UNCHANGED vars
  BY <1>4, <1>8 DEF Refresh, ApiStats, FetchFails, vars
<1> QED
  BY <1>2, <1>3, <1>5, <1>6, <1>7, <1>8 DEF Next

LEMMA AgreeStep ==
    ASSUME TypeOK, KnownInv, OrderInv, AgreeInv, [Next]_vars
    PROVE  AgreeInv'
<1>1. Agree(stats', total', ConnectedOnce')
  <2>1. Current.counts = stats /\ Current.total = total
    BY DEF Current
  <2>2. Agree(Current.counts, Current.total, ConnectedOnce)
    BY DEF AgreeInv
  <2> QED
    BY <2>1, <2>2, CurrentAgrees
<1>2. \A x \in Copies' : Agree(x.counts, x.total, ConnectedOnce')
  <2>1. \A x \in Copies' : Agree(x.counts, x.total, ConnectedOnce)
    BY CopiesStep DEF AgreeInv
  <2> QED
    BY <2>1, OnceStep DEF Agree
<1>3. \A x \in {Current'} : Agree(x.counts, x.total, ConnectedOnce')
  BY <1>1 DEF Current
<1> QED
  BY <1>2, <1>3, HeaderAgrees DEF AgreeInv

-----------------------------------------------------------------------------
(* The theorems.                                                           *)

LEMMA WatchdogInit == Init => TypeOK /\ WatchdogInv
<1> SUFFICES ASSUME Init PROVE TypeOK /\ WatchdogInv
  OBVIOUS
<1>1. TypeOK
  BY TypeInit
<1>2. Len(<<>>) = 0 /\ MaxEvents \in Nat
  BY EmptySeq, ConstantsAssumption
<1>3. Copies = {EmptySnapshot} /\ Current = EmptySnapshot
  BY <1>2 DEF Init, Copies, Current, EmptySnapshot
<1>4. RingInv
  <2>1. Ring(EmptySnapshot.events, EmptySnapshot.total)
    BY <1>2 DEF EmptySnapshot, Ring
  <2> QED
    BY <1>3, <2>1 DEF RingInv
<1>5. OrderInv
  BY <1>2 DEF Init, OrderInv, EmptySnapshot
<1>6. RefreshInv
  BY DEF Init, RefreshInv
<1>7. FeedInv
  BY <1>2 DEF Init, FeedInv, FeedExact
<1>8. KnownInv
  BY DEF Init, KnownInv, Unknown
<1>9. AgreeInv
  <2>1. PICK c \in Counts : c = EmptySnapshot.counts
    BY DEF EmptySnapshot, Counts
  <2>2. Counted(c) = {} /\ EmptySnapshot.total = 0
    BY <2>1 DEF EmptySnapshot, Counted
  <2>3. Messages(c) = 0
    BY <2>2, MessagesType
  <2>4. Agree(EmptySnapshot.counts, EmptySnapshot.total, ConnectedOnce)
    BY <2>1, <2>2, <2>3 DEF Agree
  <2>5. CountsAgree
    BY DEF Init, CountsAgree
  <2> QED
    BY <1>3, <2>4, <2>5 DEF AgreeInv
<1> QED
  BY <1>1, <1>4, <1>5, <1>6, <1>7, <1>8, <1>9 DEF WatchdogInv

LEMMA WatchdogStep == TypeOK /\ WatchdogInv /\ [Next]_vars => TypeOK' /\ WatchdogInv'
<1> SUFFICES ASSUME TypeOK, WatchdogInv, [Next]_vars PROVE TypeOK' /\ WatchdogInv'
  OBVIOUS
<1>1. RingInv /\ OrderInv /\ RefreshInv /\ FeedInv /\ KnownInv /\ AgreeInv
  BY DEF WatchdogInv
<1>2. TypeOK'
  BY <1>1, TypeStep
<1>3. RingInv' /\ OrderInv' /\ RefreshInv'
  BY <1>1, RingStep, OrderStep, BrowserStep
<1>4. FeedInv' /\ KnownInv' /\ AgreeInv'
  BY <1>1, FeedStep, KnownStep, AgreeStep
<1> QED
  BY <1>2, <1>3, <1>4 DEF WatchdogInv

\* The invariant of the dashboard, for every number of letters and every bound.
THEOREM WatchdogInvariant == Spec => [](TypeOK /\ WatchdogInv)
<1>1. Init => TypeOK /\ WatchdogInv
  BY WatchdogInit
<1>2. TypeOK /\ WatchdogInv /\ [Next]_vars => TypeOK' /\ WatchdogInv'
  BY WatchdogStep
<1> QED
  BY <1>1, <1>2, PTL DEF Spec

\* Every variable ranges over what its counterpart can hold; ring, queue and feed keep their limits.
THEOREM TypeCorrect == Spec => []TypeOK
  BY WatchdogInvariant, PTL

\* The feed shows events once, in the server's order, and skips some only before a whole ring.
THEOREM FeedExactHolds == Spec => []FeedExact
<1>1. WatchdogInv => FeedExact
  BY DEF WatchdogInv, FeedInv
<1> QED
  BY <1>1, WatchdogInvariant, PTL

\* The header's counts of messages and of events are of one moment of the server.
THEOREM CountsAgreeHolds == Spec => []CountsAgree
<1>1. WatchdogInv => CountsAgree
  BY DEF WatchdogInv, AgreeInv
<1> QED
  BY <1>1, WatchdogInvariant, PTL
=============================================================================
