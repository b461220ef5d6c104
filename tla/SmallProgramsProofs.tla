------------------------ MODULE SmallProgramsProofs -------------------------
(***************************************************************************)
(* The programs whose processes or threads meet in pairs, one section a    *)
(* module: Transfer (files and half-close), SemHandoff, SharedCounter,     *)
(* Reap, Pipes and SplitClient, for every value of their constants.        *)
(***************************************************************************)
EXTENDS MCPairs, FiniteSetTheorems, WellFoundedInduction, TLAPS

-----------------------------------------------------------------------------
(* Transfer. *)

\* The programs that end their direction and keep the other.
Half == {"file_server", "sep_serv2"}

\* How far both ends are, and what each can know of the other.
Pieces ==
  /\ sent <= Planned /\ (spc = "open" => sent = 0)
  /\ OnePiece /\ spc \notin {"open", "dead"} => file = 1
  /\ client # "up" => cpc \in {"done", "dead"}
  /\ serv # "up" => spc \in {"hear", "close", "done", "dead"}
  /\ spc \in {"end", "hear", "close", "done"} /\ cpc # "dead" => sent = Planned
  /\ cpc \in {"thank", "close", "done"} /\ spc # "dead" =>
       spc # "open" /\ sent = Planned /\ got = Planned

\* Where the farewell can be: after shutdown() the server leaves only when it
\* has it or the client is past sending one.
Farewell ==
  /\ cpc = "thank" => serv # "up"
  /\ cpc \in {"read", "thank"} => thanks = "none"
  /\ program \in Half /\ spc \in {"open", "send", "end"} =>
       thanks = "none" /\ sfds > 0 /\ serv = "up"
  /\ program \in Half /\ spc = "hear" =>
       thanks \in {"none", "flight"} /\ sfds > 0 /\ serv = "fin"
  /\ program \in Half /\ spc \in {"close", "done"} =>
       thanks \in {"none", "heard"} /\ cpc \in {"close", "done", "dead"}
  /\ program \notin Half => thanks # "heard" /\ (spc = "hear" => sfds = 0)

\* How each end sees the other leave: never a reset while the client reads.
Partings ==
  /\ client \in {"up", "gone", "rst", "broken"}
  /\ cpc \in {"done", "dead"} => client # "up"
  /\ cpc = "read" => serv \in {"up", "fin", "gone"}
  /\ cpc = "read" /\ spc \in {"hear", "close", "done", "dead"} => serv # "up"

XferInv == program \in XferPrograms /\ XferTypeOK /\ Pieces /\ Farewell /\ Partings
-----------------------------------------------------------------------------
\* Nothing is sent when accept() returns (file_server.c:17-59).
LEMMA XferStart == XferInit => XferInv
  BY TransferAssumption DEF XferInit, XferFresh, XferPrograms, XferInv, XferTypeOK,
     Pieces, Farewell, Partings, Half, Planned, OnePiece, PeerStates

\* Each call keeps them (file_server.c:52-85, sep_client.c:45-62).
LEMMA XferStep == XferInv /\ XferNext /\ UNCHANGED program => XferInv'
<1> SUFFICES ASSUME XferInv, XferNext, UNCHANGED program PROVE XferInv'
  OBVIOUS
<1> USE TransferAssumption DEF XferInv, XferTypeOK, Pieces, Farewell, Partings, Half, XferPrograms,
     Planned, OnePiece, PeerStates
<1>1. CASE Open
  BY <1>1 DEF Open
<1>2. CASE OpenFails
  BY <1>2 DEF OpenFails, ServerLeaves, CloseBy
<1>3. CASE SendPiece
  BY <1>3 DEF SendPiece, IsReset, AfterWrite, Reads, RaisesSigpipe
<1>4. CASE SendDies
  BY <1>4 DEF SendDies, ServerLeaves, CloseBy
<1>5. CASE SendEnd
  BY <1>5 DEF SendEnd
<1>6. CASE HalfClose
  BY <1>6 DEF HalfClose, ServerLeaves, CloseBy, IsReset
<1>7. CASE FullClose
  BY <1>7 DEF FullClose, ServerLeaves, CloseBy
<1>8. CASE Hear
  BY <1>8 DEF Hear, AtEof, IsReset
<1>9. CASE CloseServer
  BY <1>9 DEF CloseServer, ServerLeaves, CloseBy
<1>10. CASE KillServer
  BY <1>10 DEF KillServer, ServerLeaves, CloseBy
<1>11. CASE ReadPiece
  BY <1>11 DEF ReadPiece
<1>12. CASE ReadPiecesEnd
  BY <1>12 DEF ReadPiecesEnd, AtEof
<1>13. CASE Thank
  BY <1>13 DEF Thank, Reads, AfterWrite
<1>14. CASE CloseClient
  BY <1>14 DEF CloseClient, CloseBy
<1>15. CASE KillClient
  BY <1>15 DEF KillClient, CloseBy
<1> QED BY <1>1, <1>2, <1>3, <1>4, <1>5, <1>6, <1>7, <1>8, <1>9, <1>10, <1>11, <1>12, <1>13, <1>14, <1>15 DEF XferNext, Sender, Receiver

-----------------------------------------------------------------------------
\* The invariant holds of every transfer.
THEOREM XferSafe == XferSpec => []XferInv
<1>1. XferInv /\ UNCHANGED <<xfer, program>> => XferInv'
  BY DEF XferInv, XferTypeOK, Pieces, Farewell, Partings, Half, XferPrograms, Planned, OnePiece, xfer
<1> QED BY XferStart, XferStep, <1>1, PTL DEF XferSpec

\* A receiver at the end of its input has everything, a farewell after
\* shutdown() is heard, and neither end waits for one that has ended or waits
\* itself (file_client.c:49, file_server.c:61-77).
THEOREM Transferred == XferSpec => []TransferSound
<1>1. XferInv => WholeAndHeard
  BY DEF XferInv, Pieces, Farewell, Half, WholeAndHeard
<1>2. XferInv => NeitherStuck
  <2> SUFFICES ASSUME XferInv PROVE NeitherStuck
    OBVIOUS
  <2> USE DEF XferInv, XferTypeOK, Partings
  <2>1. ServerWaits => cpc \notin {"done", "dead"}
    BY DEF ServerWaits, Reads, AtEof, IsReset
  <2>2. ClientWaits => spc \notin {"done", "dead"}
    BY DEF ClientWaits, AtEof
  <2>3. ~(ServerWaits /\ ClientWaits)
    BY TransferAssumption
    DEF ServerWaits, ClientWaits, Farewell, Half, Planned, OnePiece, AtEof
  <2> QED BY <2>1, <2>2, <2>3 DEF NeitherStuck
<1> QED BY XferSafe, <1>1, <1>2, PTL DEF TransferSound

-----------------------------------------------------------------------------
(* SemHandoff. *)

\* One token goes round: it is in t2, with the first thread, in t1 or with
\* the second thread, and never in two of these places.
Token ==
  \/ t2 = 1 /\ t1 = 0 /\ putpc \in {"read", "wait"} /\ addpc = "wait"
  \/ t2 = 0 /\ t1 = 0 /\ putpc \in {"store", "post"} /\ addpc = "wait"
  \/ t2 = 0 /\ t1 = 1 /\ putpc \in {"read", "wait"} /\ addpc = "wait"
  \/ t2 = 0 /\ t1 = 0 /\ putpc \in {"read", "wait"} /\ addpc \in {"add", "post"}

\* A number is in the slot: stored and not added yet.
Full == putpc = "post" \/ t1 = 1 \/ addpc = "add"

\* The history of the additions is that of the stores, less the number that
\* is in the slot; that number is the one in var.
Slot ==
  /\ Len(given) = Len(taken) + (IF Full THEN 1 ELSE 0)
  /\ \A k \in 1..Len(taken) : taken[k] = given[k]
  /\ Full => var = given[Len(given)]

Types ==
  /\ var \in Int /\ sum \in Int /\ t1 \in {0, 1} /\ t2 \in {0, 1}
  /\ putpc \in {"read", "wait", "store", "post"} /\ puti \in 0..Rounds
  /\ var \in Values \cup {0} /\ number \in Values \cup {0}
  /\ (putpc # "read" => puti < Rounds /\ number \in Values)
  /\ addpc \in {"wait", "add", "post"} /\ addi \in 0..Rounds
  /\ (addpc # "wait" => addi < Rounds)
  /\ ended \in BOOLEAN /\ given \in Seq(Values) /\ taken \in Seq(Values)

SemInv == Types /\ Token /\ Slot

-----------------------------------------------------------------------------
\* No number is stored and none was added when the threads start (:27-31).
LEMMA SemInit == HandoffFresh => SemInv
<1> SUFFICES ASSUME HandoffFresh PROVE SemInv
  OBVIOUS
<1>1. Types
  <2>1. given \in Seq(Values) /\ taken \in Seq(Values)
    BY DEF HandoffFresh
  <2>2. 0 \in 0..Rounds
    BY HandoffAssumption
  <2>3. ended \in BOOLEAN
    BY DEF HandoffFresh
  <2> QED BY <2>1, <2>2, <2>3 DEF HandoffFresh, Types
<1>2. Token
  BY DEF HandoffFresh, Token
<1>3. Slot
  <2>1. ~Full
    BY DEF HandoffFresh, Full
  <2>2. given = <<>> /\ taken = <<>>
    BY DEF HandoffFresh
  <2> QED BY <2>1, <2>2 DEF Slot
<1> QED BY <1>1, <1>2, <1>3 DEF SemInv

\* What the first thread does keeps the token and the slot (:44-57).
LEMMA SemPutter == SemInv /\ Putter => SemInv'
<1> SUFFICES ASSUME SemInv, Putter PROVE SemInv'
  OBVIOUS
<1> USE HandoffAssumption
<1>1. CASE Read
  <2>1. Types'
    BY <1>1 DEF Read, SemInv, Types
  <2>2. Token'
    BY <1>1 DEF Read, SemInv, Types, Token
  <2>3. Slot'
    BY <1>1 DEF Read, SemInv, Slot, Full
  <2> QED BY <2>1, <2>2, <2>3 DEF SemInv
<1>2. CASE NoInput
  <2>1. Types'
    BY <1>2 DEF NoInput, SemInv, Types
  <2>2. Token' /\ Slot'
    BY <1>2 DEF NoInput, SemInv, Token, Slot, Full
  <2> QED BY <2>1, <2>2 DEF SemInv
<1>3. CASE WaitT2
  <2>1. Types' /\ Token'
    BY <1>3 DEF WaitT2, SemInv, Types, Token
  <2>2. Slot'
    BY <1>3 DEF WaitT2, SemInv, Types, Token, Slot, Full
  <2> QED BY <2>1, <2>2 DEF SemInv
<1>4. CASE Store
  <2>1. number \in Values /\ given' = Append(given, number)
    BY <1>4 DEF Store, SemInv, Types
  <2>2. Types'
    BY <1>4, <2>1 DEF Store, SemInv, Types
  <2>3. Token'
    BY <1>4 DEF Store, SemInv, Types, Token
  <2>4. ~Full /\ Full'
    BY <1>4 DEF Store, SemInv, Types, Token, Full
  <2>5. Slot'
    BY <1>4, <2>1, <2>4 DEF Store, SemInv, Types, Slot
  <2> QED BY <2>2, <2>3, <2>5 DEF SemInv
<1>5. CASE PostT1
  <2>1. Types' /\ Token'
    BY <1>5 DEF PostT1, SemInv, Types, Token
  <2>2. Slot'
    BY <1>5 DEF PostT1, SemInv, Types, Token, Slot, Full
  <2> QED BY <2>1, <2>2 DEF SemInv
<1> QED BY <1>1, <1>2, <1>3, <1>4, <1>5 DEF Putter

\* What the second thread does keeps the token and the slot (:63-69).
LEMMA SemAdder == SemInv /\ Adder => SemInv'
<1> SUFFICES ASSUME SemInv, Adder PROVE SemInv'
  OBVIOUS
<1> USE HandoffAssumption
<1>1. CASE WaitT1
  <2>1. Types' /\ Token'
    BY <1>1 DEF WaitT1, SemInv, Types, Token
  <2>2. Slot'
    BY <1>1 DEF WaitT1, SemInv, Types, Token, Slot, Full
  <2> QED BY <2>1, <2>2 DEF SemInv
<1>2. CASE Add
  <2>1. Full /\ ~Full'
    BY <1>2 DEF Add, SemInv, Types, Token, Full
  <2>2. /\ Len(given) = Len(taken) + 1
        /\ var = given[Len(given)] /\ var \in Values
    BY <2>1 DEF SemInv, Types, Slot
  <2>3. Types'
    BY <1>2, <2>2 DEF Add, SemInv, Types
  <2>4. Token'
    BY <1>2 DEF Add, SemInv, Types, Token
  <2>5. Slot'
    BY <1>2, <2>1, <2>2 DEF Add, SemInv, Types, Slot
  <2> QED BY <2>3, <2>4, <2>5 DEF SemInv
<1>3. CASE PostT2
  <2>1. Types' /\ Token'
    BY <1>3 DEF PostT2, SemInv, Types, Token
  <2>2. Slot'
    BY <1>3 DEF PostT2, SemInv, Types, Token, Slot, Full
  <2> QED BY <2>1, <2>2 DEF SemInv
<1> QED BY <1>1, <1>2, <1>3 DEF Adder

LEMMA SemNext == SemInv /\ [HandoffNext]_handoff => SemInv'
<1> SUFFICES ASSUME SemInv, [HandoffNext]_handoff PROVE SemInv'
  OBVIOUS
<1>1. CASE UNCHANGED handoff
  BY <1>1 DEF handoff, SemInv, Types, Token, Slot, Full
<1> QED BY <1>1, SemPutter, SemAdder DEF HandoffNext

LEMMA HandoffSteps == [HandoffNext /\ UNCHANGED program]_<<handoff, program>> => [HandoffNext]_handoff
OBVIOUS

\* The strengthened invariant, from which the rest follows.
THEOREM SemSafe == HandoffSpec => []SemInv
BY SemInit, SemNext, HandoffSteps, PTL DEF HandoffSpec, HandoffInit

\* The semaphores and the counters stay in their ranges (:27-28, :44, :63).
THEOREM TypeSafe == HandoffSpec => []HandoffTypeOK
<1>1. SemInv => HandoffTypeOK
  BY DEF SemInv, Types, HandoffTypeOK
<1> QED BY <1>1, SemSafe, PTL

\* One thread never writes var while the other reads it (:18-20).
THEOREM NoRace == HandoffSpec => []NoRaceOnVar
<1>1. SemInv => NoRaceOnVar
  BY DEF SemInv, Token, NoRaceOnVar
<1> QED BY <1>1, SemSafe, PTL

\* The program implements the slot: every number is added exactly once, in
\* the order it was typed, before the next one is stored (:18-20).
THEOREM SlotRefined == HandoffSpec => SlotSpec
<1>1. HandoffFresh => Handoff!HInit
  BY DEF HandoffFresh, Handoff!HInit
<1>2. ASSUME SemInv, [HandoffNext]_handoff
      PROVE  [Handoff!Take \/ \E v \in Values : Handoff!Give(v)]_<<given, taken>>
  <2>1. CASE Store
    <3>1. number \in Values /\ Len(taken) = Len(given)
      BY <1>2, <2>1 DEF Store, SemInv, Types, Token, Slot, Full
    <3>2. Handoff!Give(number)
      BY <2>1, <3>1 DEF Store, Handoff!Give
    <3> QED BY <3>1, <3>2
  <2>2. CASE Add
    <3>1. /\ Len(given) = Len(taken) + 1 /\ var = given[Len(given)]
          /\ Len(taken) \in Nat
      BY <1>2, <2>2 DEF Add, SemInv, Types, Slot, Full
    <3>2. Handoff!Take
      BY <2>2, <3>1 DEF Add, Handoff!Take
    <3> QED BY <3>2
  <2>3. CASE ~Store /\ ~Add
    BY <1>2, <2>3 DEF HandoffNext, Putter, Adder, Read, NoInput, WaitT2, PostT1,
                      WaitT1, PostT2, handoff
  <2> QED BY <2>1, <2>2, <2>3
<1> QED BY <1>1, <1>2, SemSafe, HandoffSteps, PTL DEF HandoffSpec, HandoffInit, SlotSpec, Handoff!HSpec

\* Induction over the numbers, on a set of them (the least one outside it).
LEMMA AllNumbers ==
  ASSUME NEW S, S \subseteq Nat, 0 \in S, \A n \in S : n + 1 \in S
  PROVE  S = Nat
<1>. DEFINE T == Nat \ S
<1>1. ASSUME T # {} PROVE FALSE
  <2>1. PICK x \in T : \A y \in T : ~(<<y, x>> \in OpToRel(<, Nat))
    BY <1>1, WFMin, NatLessThanWellFounded DEF OpToRel
  <2>2. x \in Nat /\ x # 0 /\ x - 1 \in Nat /\ x - 1 \notin S
    OBVIOUS
  <2>3. <<x - 1, x>> \in OpToRel(<, Nat)
    BY <2>2 DEF OpToRel
  <2> QED BY <2>1, <2>2, <2>3
<1> QED BY <1>1

-----------------------------------------------------------------------------
(* What FoldSeq(+, 0, s) adds up: the sum of a part of s is that of the    *)
(* part without one element of it, plus that element.                      *)

Some(t) == CHOOSE e \in t : TRUE
Plus(s, iter, t) == IF t = {} THEN 0 ELSE s[Some(t)] + iter[t \ {Some(t)}]
SumOver(s) == CHOOSE iter : iter = [t \in SUBSET DOMAIN s |-> Plus(s, iter, t)]
Small(D, n) == {t \in SUBSET D : Cardinality(t) <= n}
Solves(g, s, n) == g = [t \in Small(DOMAIN s, n) |-> Plus(s, g, t)]

\* That is what the fold computes.
LEMMA FoldIs == ASSUME NEW s PROVE Seqs!FoldSeq(+, 0, s) = SumOver(s)[DOMAIN s]
BY DEF Seqs!FoldSeq, Seqs!FoldFunction, Seqs!FoldFunctionOnSet, Seqs!MapThenFoldSet, SumOver, Plus, Some

\* A set without one element of it is one smaller.
LEMMA Without ==
  ASSUME NEW D, IsFiniteSet(D), NEW t \in SUBSET D, NEW e \in t
  PROVE  /\ Cardinality(t) \in Nat /\ Cardinality(t) > 0
         /\ t \ {e} \in SUBSET D /\ Cardinality(t \ {e}) = Cardinality(t) - 1
BY FS_Subset, FS_RemoveElement, FS_EmptySet, FS_CardinalityType

\* The recursion has a solution on the small parts, however many are small.
LEMMA SomeSums ==
  ASSUME NEW s, IsFiniteSet(DOMAIN s), NEW n \in Nat
  PROVE  \E g : Solves(g, s, n)
<1>. DEFINE D == DOMAIN s
            S == {k \in Nat : \E g : Solves(g, s, k)}
<1>1. 0 \in S
  <2>. DEFINE g == [t \in Small(D, 0) |-> 0]
  <2>1. \A t \in Small(D, 0) : t = {}
    BY FS_Subset, FS_EmptySet, FS_CardinalityType DEF Small
  <2>2. Solves(g, s, 0)
    BY <2>1 DEF Plus, Solves
  <2> QED BY <2>2
<1>2. ASSUME NEW k \in S PROVE k + 1 \in S
  <2>1. PICK h : Solves(h, s, k)
    OBVIOUS
  <2>. DEFINE g == [t \in Small(D, k + 1) |-> Plus(s, h, t)]
  <2>2. ASSUME NEW t \in Small(D, k + 1) PROVE Plus(s, h, t) = Plus(s, g, t)
    <3>1. CASE t = {}
      BY <3>1 DEF Plus
    <3>2. CASE t # {}
      <4>. DEFINE u == t \ {Some(t)}
      <4>1. Some(t) \in t
        BY <3>2 DEF Some
      <4>2. u \in Small(D, k) /\ u \in Small(D, k + 1)
        BY <4>1, Without DEF Small
      <4>3. h[u] = Plus(s, h, u) /\ g[u] = Plus(s, h, u)
        BY <4>2, <2>1 DEF Solves
      <4> QED BY <3>2, <4>3 DEF Plus
    <3> QED BY <3>1, <3>2
  <2>3. Solves(g, s, k + 1)
    BY <2>2 DEF Solves
  <2>4. \E f : Solves(f, s, k + 1)
    BY <2>3
  <2> QED BY <2>4
<1>3. S = Nat
  BY <1>1, <1>2, AllNumbers
<1> QED BY <1>3

\* What the sums are, part for part.
LEMMA SumsAre ==
  ASSUME NEW s, IsFiniteSet(DOMAIN s), NEW t \in SUBSET DOMAIN s
  PROVE  SumOver(s)[t] = Plus(s, SumOver(s), t)
<1>. DEFINE D == DOMAIN s
<1>1. \A u \in SUBSET D : Cardinality(u) \in Nat /\ Cardinality(u) <= Cardinality(D)
  BY FS_Subset, FS_CardinalityType
<1>2. Small(D, Cardinality(D)) = SUBSET D
  BY <1>1 DEF Small
<1>3. \E g : g = [u \in SUBSET D |-> Plus(s, g, u)]
  <2>1. PICK g : Solves(g, s, Cardinality(D))
    BY SomeSums, FS_CardinalityType
  <2> QED BY <2>1, <1>2 DEF Solves
<1>4. SumOver(s) = [u \in SUBSET D |-> Plus(s, SumOver(s), u)]
  BY <1>3 DEF SumOver
<1> QED BY <1>4

\* Whichever element is taken out, the sum is that of the others and it.
LEMMA AnyLast ==
  ASSUME NEW s, IsFiniteSet(DOMAIN s), \A e \in DOMAIN s : s[e] \in Int
  PROVE  \A t \in SUBSET DOMAIN s :
           SumOver(s)[t] \in Int /\ \A e \in t : SumOver(s)[t] = s[e] + SumOver(s)[t \ {e}]
<1>. DEFINE D == DOMAIN s
            Good(t) == SumOver(s)[t] \in Int
                       /\ \A e \in t : SumOver(s)[t] = s[e] + SumOver(s)[t \ {e}]
            S == {k \in Nat : \A t \in Small(D, k) : Good(t)}
<1>0. \A t \in SUBSET D : Cardinality(t) \in Nat
  BY FS_Subset, FS_CardinalityType
<1>1. 0 \in S
  <2>1. \A t \in Small(D, 0) : t = {}
    BY FS_Subset, FS_EmptySet, FS_CardinalityType DEF Small
  <2>2. SumOver(s)[{}] = 0
    BY SumsAre DEF Plus
  <2>3. Good({})
    BY <2>2
  <2>4. \A t \in Small(D, 0) : Good(t)
    <3>. HIDE DEF Good
    <3> QED BY <2>1, <2>3
  <2> QED BY <2>4
<1>2. ASSUME NEW k \in S PROVE k + 1 \in S
  <2>1. SUFFICES ASSUME NEW t \in Small(D, k + 1), t # {} PROVE Good(t)
    <3>1. SumOver(s)[{}] = 0
      BY SumsAre DEF Plus
    <3>2. Good({})
      BY <3>1
    <3>3. k + 1 \in Nat
      OBVIOUS
    <3>. HIDE DEF Good
    <3> QED BY <3>2, <3>3
  <2>. DEFINE j == Some(t)
              u == t \ {j}
  <2>2. t \in SUBSET D /\ j \in t
    BY <2>1 DEF Small, Some
  <2>3. SumOver(s)[t] = s[j] + SumOver(s)[u]
    BY <2>1, <2>2, SumsAre DEF Plus
  <2>4. u \in Small(D, k)
    BY <2>2, Without DEF Small
  <2>5. SumOver(s)[t] \in Int
    BY <2>2, <2>3, <2>4
  <2>6. ASSUME NEW e \in t, e # j PROVE SumOver(s)[t] = s[e] + SumOver(s)[t \ {e}]
    <3>. DEFINE v == t \ {e}
                w == v \ {j}
    <3>1. v \in Small(D, k) /\ j \in v
      BY <2>2, <2>6, Without DEF Small
    <3>2. u \ {e} = w /\ e \in u
      BY <2>6
    <3>3. SumOver(s)[u] = s[e] + SumOver(s)[w]
      BY <2>4, <3>2
    <3>4. SumOver(s)[v] = s[j] + SumOver(s)[w]
      BY <3>1
    <3>5. SumOver(s)[w] \in Int
      <4>1. w \in SUBSET D /\ Cardinality(w) <= k
        BY <2>2, <2>4, <3>2, Without, <1>0 DEF Small
      <4> QED BY <4>1 DEF Small
    <3>6. s[e] \in Int /\ s[j] \in Int
      BY <2>2
    <3> QED BY <2>3, <3>3, <3>4, <3>5, <3>6
  <2> QED BY <2>3, <2>5, <2>6
<1>3. S = Nat
  BY <1>1, <1>2, AllNumbers
<1> QED BY <1>0, <1>3 DEF Small

\* Sums of the same elements are the same.
LEMMA SameSums ==
  ASSUME NEW r, NEW s, IsFiniteSet(DOMAIN s), DOMAIN r \subseteq DOMAIN s,
         \A e \in DOMAIN r : r[e] = s[e]
  PROVE  \A t \in SUBSET DOMAIN r : SumOver(r)[t] = SumOver(s)[t]
<1>. DEFINE D == DOMAIN r
            S == {k \in Nat : \A t \in Small(D, k) : SumOver(r)[t] = SumOver(s)[t]}
<1>0. IsFiniteSet(D) /\ \A t \in SUBSET D : Cardinality(t) \in Nat
  BY FS_Subset, FS_CardinalityType
<1>1. 0 \in S
  <2>1. \A t \in Small(D, 0) : t = {}
    BY <1>0, FS_Subset, FS_EmptySet DEF Small
  <2>2. SumOver(r)[{}] = 0 /\ SumOver(s)[{}] = 0
    BY <1>0, SumsAre DEF Plus
  <2> QED BY <2>1, <2>2
<1>2. ASSUME NEW k \in S PROVE k + 1 \in S
  <2>1. SUFFICES ASSUME NEW t \in Small(D, k + 1) PROVE SumOver(r)[t] = SumOver(s)[t]
    OBVIOUS
  <2>2. SumOver(r)[t] = Plus(r, SumOver(r), t) /\ SumOver(s)[t] = Plus(s, SumOver(s), t)
    BY <1>0, SumsAre DEF Small
  <2>3. CASE t = {}
    BY <2>2, <2>3 DEF Plus
  <2>4. CASE t # {}
    <3>1. Some(t) \in t /\ t \in SUBSET D
      BY <2>4 DEF Some, Small
    <3>2. t \ {Some(t)} \in Small(D, k)
      BY <1>0, <3>1, Without DEF Small
    <3> QED BY <2>2, <2>4, <3>1, <3>2 DEF Plus
  <2> QED BY <2>3, <2>4
<1>3. S = Nat
  BY <1>1, <1>2, AllNumbers
<1> QED BY <1>0, <1>3 DEF Small

\* The sum of a sequence.
SumOf(s) == Seqs!FoldSeq(+, 0, s)

\* Nothing adds up to nothing.
LEMMA TotalOfNone == SumOf(<<>>) = 0
<1>1. DOMAIN <<>> = {}
  OBVIOUS
<1> QED BY <1>1, FoldIs, SumsAre, FS_EmptySet DEF Plus, SumOf

\* One number more at the end of the sequence is that number more.
LEMMA TotalOfMore ==
  ASSUME NEW s \in Seq(Int), NEW x \in Int
  PROVE  SumOf(s) \in Int /\ SumOf(Append(s, x)) = SumOf(s) + x
<1>. DEFINE r == Append(s, x)
            n == Len(s) + 1
<1>1. /\ DOMAIN s = 1..Len(s) /\ DOMAIN r = 1..n /\ Len(s) \in Nat
      /\ n \in DOMAIN r /\ r[n] = x /\ DOMAIN r \ {n} = DOMAIN s
      /\ \A e \in DOMAIN s : s[e] = r[e] /\ s[e] \in Int
      /\ \A e \in DOMAIN r : r[e] \in Int
  <2>1. /\ DOMAIN s = 1..Len(s) /\ DOMAIN r = 1..n /\ Len(s) \in Nat
        /\ r[n] = x /\ r \in Seq(Int)
    OBVIOUS
  <2>2. \A e \in DOMAIN s : s[e] = r[e] /\ s[e] \in Int
    OBVIOUS
  <2>3. n \in DOMAIN r /\ DOMAIN r \ {n} = DOMAIN s
    BY <2>1
  <2>4. \A e \in DOMAIN r : r[e] \in Int
    BY <2>1
  <2> QED BY <2>1, <2>2, <2>3, <2>4
<1>2. IsFiniteSet(DOMAIN s) /\ IsFiniteSet(DOMAIN r)
  BY <1>1, FS_Interval
<1>. HIDE DEF r
<1>3. SumOver(r)[DOMAIN r] = x + SumOver(r)[DOMAIN s]
  <2>1. \A e \in DOMAIN r : SumOver(r)[DOMAIN r] = r[e] + SumOver(r)[DOMAIN r \ {e}]
    <3>1. \A t \in SUBSET DOMAIN r : \A e \in t : SumOver(r)[t] = r[e] + SumOver(r)[t \ {e}]
      BY <1>1, <1>2, AnyLast
    <3>2. DOMAIN r \in SUBSET DOMAIN r
      OBVIOUS
    <3> QED BY <3>1, <3>2
  <2> QED BY <1>1, <2>1
<1>4. SumOver(s)[DOMAIN s] = SumOver(r)[DOMAIN s]
  BY <1>1, <1>2, SameSums
<1>5. SumOver(s)[DOMAIN s] \in Int
  BY <1>1, <1>2, AnyLast
<1>6. SumOf(s) = SumOver(s)[DOMAIN s] /\ SumOf(r) = SumOver(r)[DOMAIN r]
  BY FoldIs DEF SumOf
<1>7. SumOf(r) = SumOf(s) + x
  BY <1>3, <1>4, <1>5, <1>6
<1> QED BY <1>5, <1>6, <1>7 DEF r

-----------------------------------------------------------------------------
\* How far the threads are in their rounds: a round of the second adds one
\* number, a round of the first stores one unless the input ended.
Rounded ==
  /\ Len(taken) = addi + (IF addpc = "post" THEN 1 ELSE 0)
  /\ Len(given) <= puti + (IF putpc = "post" THEN 1 ELSE 0)
  /\ ended \/ Len(given) = puti + (IF putpc = "post" THEN 1 ELSE 0)

SumInv == SemInv /\ Rounded /\ sum = SumOf(taken)

\* Every step keeps the count of the rounds, and the sum that of the numbers
\* added (:44-57, :63-69).
LEMMA SumNext == SumInv /\ [HandoffNext]_handoff => SumInv'
<1> SUFFICES ASSUME SumInv, [HandoffNext]_handoff PROVE SumInv'
  OBVIOUS
<1>1. SemInv'
  BY SemNext DEF SumInv
<1>2. Rounded'
  <2>1. CASE Store \/ PostT1
    BY <2>1, HandoffAssumption DEF Store, PostT1, SumInv, SemInv, Types, Rounded
  <2>2. CASE Add \/ PostT2
    BY <2>2, HandoffAssumption DEF Add, PostT2, SumInv, SemInv, Types, Rounded
  <2>3. CASE NoInput
    BY <2>3, HandoffAssumption DEF NoInput, SumInv, SemInv, Types, Rounded
  <2>4. CASE Read \/ WaitT2 \/ WaitT1 \/ UNCHANGED handoff
    BY <2>4 DEF Read, WaitT2, WaitT1, handoff, SumInv, Rounded
  <2> QED BY <2>1, <2>2, <2>3, <2>4 DEF HandoffNext, Putter, Adder
<1>3. sum' = SumOf(taken')
  <2>1. CASE Add
    <3>1. taken \in Seq(Int) /\ var \in Int
      <4>1. taken \in Seq(Values) /\ var \in Int /\ Values \subseteq Int
        BY HandoffAssumption DEF SumInv, SemInv, Types
      <4>2. taken = [e \in 1..Len(taken) |-> taken[e]] /\ Len(taken) \in Nat
        BY <4>1
      <4>3. \A e \in 1..Len(taken) : taken[e] \in Values
        BY <4>1
      <4>4. \A e \in 1..Len(taken) : taken[e] \in Int
        BY <4>1, <4>3
      <4>5. taken \in [1..Len(taken) -> Int]
        BY <4>2, <4>4
      <4> QED BY <4>1, <4>2, <4>5
    <3>2. SumOf(Append(taken, var)) = SumOf(taken) + var
      BY <3>1, TotalOfMore
    <3> QED BY <2>1, <3>2 DEF Add, SumInv
  <2>2. CASE ~Add
    BY <2>2 DEF HandoffNext, Putter, Adder, Read, NoInput, WaitT2, Store, PostT1,
                WaitT1, PostT2, handoff, SumInv
  <2> QED BY <2>1, <2>2
<1> QED BY <1>1, <1>2, <1>3 DEF SumInv

\* What main prints is the sum of the numbers typed, however many rounds there
\* are and whatever is typed; and no thread holds up the other in vain (:36,
\* :44-57, :63-69).
THEOREM HandoffIsSound == HandoffSpec => []HandoffSound
<1>1. HandoffFresh => SumInv
  <2>1. HandoffFresh => Rounded
    BY DEF HandoffFresh, Rounded
  <2>2. HandoffFresh => sum = SumOf(taken)
    BY TotalOfNone DEF HandoffFresh
  <2> QED BY SemInit, <2>1, <2>2 DEF SumInv
<1>2. SumInv => HandoffSound
  <2> SUFFICES ASSUME SumInv PROVE HandoffSound
    OBVIOUS
  <2>1. HandoffTypeOK
    BY DEF SumInv, SemInv, Types, HandoffTypeOK
  <2>2. ASSUME Joined PROVE sum = SumOf(given)
    <3>1. putpc = "read" /\ addpc = "wait"
      BY <2>2, HandoffAssumption DEF Joined, SumInv, SemInv, Types
    <3>2. Len(given) = Len(taken)
      BY <2>2, <3>1, HandoffAssumption DEF Joined, SumInv, SemInv, Types, Rounded, Slot
    <3>3. given = taken
      BY <3>2 DEF SumInv, SemInv, Types, Slot
    <3> QED BY <3>3 DEF SumInv
  <2>3. NeitherInVain
    BY HandoffAssumption DEF NeitherInVain, SumInv, SemInv, Types, Token, Slot, Full, Rounded
  <2> QED BY <2>1, <2>2, <2>3 DEF HandoffSound, SumExact, SumOf
<1> QED BY <1>1, <1>2, SumNext, HandoffSteps, PTL DEF HandoffSpec, HandoffInit

-----------------------------------------------------------------------------
(* SharedCounter. *)

\* What the threads stored is counted with sets: thread t owns an interval of
\* numbers, as long as what its whole loop adds, and has used up the part of
\* it that belongs to the rounds it stored.
Sums  == program = "multi_thread"
G(x)  == IF Sums THEN (x * (x + 1)) \div 2 ELSE x
Rank(t) == IF Sums THEN t ELSE t \div 2
Ranks == IF Sums THEN Used ELSE Used \div 2
Stored(t) == (G(Rank(t) * Turns) + 1)..G(Rank(t) * Turns + cnt[t])

\* The threads that add, TRUE, and those that subtract; what each side stored.
Side(adds)  == {t \in 0..(Used - 1) : adds <=> Sums \/ t % 2 = 0}
Total(adds) == UNION {Stored(t) : t \in Side(adds)}
Size(adds)  == Cardinality(Total(adds))
Risen  == Size(TRUE)
Fallen == Size(FALSE)

Places ==
  /\ mpc # "create" => \A t \in Tids : tpc[t] = "none" <=> t >= Used
  /\ mpc = "join" => \A t \in Tids : t < i => tpc[t] = "ended"
  /\ mpc = "done" => \A t \in Tids : t < Used => tpc[t] = "ended"
  /\ \A t \in Tids :
       /\ tpc[t] = "none" => cnt[t] = 0
       /\ tpc[t] = "ended" => cnt[t] = Turns
       /\ tpc[t] = "load" => cnt[t] < Turns
       /\ tpc[t] = "store" => times[t] \in 1..(Turns - cnt[t])
       /\ Locked => (mutex = t <=> tpc[t] \in {"load", "store", "unlock"})

\* Lost updates cost a side some of what it stored, never more than all of it;
\* the mutex loses none.
Between(n) == -Fallen <= n /\ n <= Risen
Bounded ==
  /\ Between(num) /\ \A t \in Tids : tpc[t] = "store" => Between(reg[t])
  /\ Locked => /\ num = Risen - Fallen
               /\ \A t \in Tids : tpc[t] = "store" => reg[t] = num

CountInv == program \in CounterPrograms /\ CounterTypeOK /\ Places /\ Bounded

\* Arithmetic.
LEMMA Times ==
  ASSUME NEW a \in Nat, NEW b \in Nat, NEW n \in Nat, a <= b
  PROVE  a * n \in Nat /\ b * n \in Nat /\ a * n <= b * n
<1>1. PICK d \in Nat : b = a + d  BY b - a \in Nat
<1>2. a * n \in Nat /\ d * n \in Nat  OBVIOUS
<1>3. b * n = a * n + d * n  BY <1>1
<1>. QED  BY <1>2, <1>3

LEMMA Halved == ASSUME NEW x \in Nat PROVE 2 * ((x * (x + 1)) \div 2) = x * (x + 1)
<1>1. PICK m \in Nat : x = 2 * m \/ x = 2 * m + 1
  <2>1. x \div 2 \in Nat /\ (x = 2 * (x \div 2) \/ x = 2 * (x \div 2) + 1)  OBVIOUS
  <2>. QED  BY <2>1
<1>2. \E k \in Nat : x * (x + 1) = 2 * k
  <2>1. CASE x = 2 * m
    <3>1. x * (x + 1) = 2 * (m * (x + 1)) /\ m * (x + 1) \in Nat  BY <2>1
    <3>. QED  BY <3>1
  <2>2. CASE x = 2 * m + 1
    <3>1. x * (x + 1) = x * (2 * (m + 1))  BY <2>2
    <3>2. x * (2 * (m + 1)) = 2 * (x * (m + 1)) /\ x * (m + 1) \in Nat  OBVIOUS
    <3>. QED  BY <3>1, <3>2
  <2>. QED  BY <1>1, <2>1, <2>2
<1>3. PICK k \in Nat : x * (x + 1) = 2 * k  BY <1>2
<1>4. (2 * k) \div 2 = k  OBVIOUS
<1>. QED  BY <1>3, <1>4

\* n rounds after the x-th add the next n numbers, or n.
LEMMA Grows ==
  ASSUME NEW x \in Nat, NEW n \in Nat
  PROVE  /\ G(x) \in Nat /\ G(x + n) \in Nat /\ G(x) <= G(x + n)
         /\ G(x + n) - G(x) = IF Sums THEN (n * (2 * x + n + 1)) \div 2 ELSE n
<1>1. CASE ~Sums  BY <1>1 DEF G
<1>2. CASE Sums
  <2>1. /\ G(x) = (x * (x + 1)) \div 2
        /\ G(x + n) = ((x + n) * ((x + n) + 1)) \div 2
    BY <1>2 DEF G
  <2>2. x * (x + 1) \in Nat /\ (x + n) * ((x + n) + 1) \in Nat /\ n * (2 * x + n + 1) \in Nat
    OBVIOUS
  <2>3. 2 * G(x) = x * (x + 1) /\ 2 * G(x + n) = (x + n) * ((x + n) + 1)
    <3>1. x + n \in Nat  OBVIOUS
    <3>. QED  BY <2>1, <3>1, Halved
  <2>4. G(x) \in Nat /\ G(x + n) \in Nat  BY <2>1, <2>2
  <2>5. (x + n) * ((x + n) + 1) = x * (x + 1) + n * (2 * x + n + 1)  OBVIOUS
  <2>6. 2 * (G(x + n) - G(x)) = n * (2 * x + n + 1)
    BY <2>2, <2>3, <2>4, <2>5
  <2>7. (2 * (G(x + n) - G(x))) \div 2 = G(x + n) - G(x)  BY <2>4
  <2>8. G(x) <= G(x + n)  BY <2>2, <2>4, <2>6
  <2>. QED  BY <1>2, <2>4, <2>6, <2>7, <2>8
<1>. QED  BY <1>1, <1>2

LEMMA UsedIsEven ==
  ASSUME program \in CounterPrograms
  PROVE  /\ Used \in Nat /\ Turns \in Nat /\ Used % 2 = 0 /\ Ranks \in Nat
         /\ 0..(Used - 1) \subseteq Tids
         /\ Tids \subseteq Nat
         /\ Used = NumThread[program] /\ Turns = Loops[program]
<1>1. /\ NumThread[program] \in Nat /\ Loops[program] \in Nat /\ NumThread[program] % 2 = 0
  BY CounterAssumption
<1>2. Used = NumThread[program] /\ Turns = Loops[program]  BY DEF Used, Turns
<1>3. 0..(Used - 1) \subseteq Tids  BY <1>2 DEF Tids
<1>4. Tids \subseteq Nat
  BY CounterAssumption DEF Tids
<1>. QED  BY <1>1, <1>2, <1>3, <1>4 DEF Ranks

\* The intervals of one side lie apart, and below Ranks whole ones.
LEMMA Apart ==
  ASSUME program \in CounterPrograms, CounterTypeOK, NEW adds \in BOOLEAN,
         NEW t \in Side(adds)
  PROVE  /\ t \in Tids /\ t \in Nat /\ Rank(t) \in Nat /\ cnt[t] \in 0..Turns
         /\ Rank(t) * Turns \in Nat /\ Rank(t) * Turns + Turns <= Ranks * Turns
         /\ Ranks * Turns \in Nat
         /\ \A u \in Side(adds) : t < u =>
              Rank(t) * Turns + Turns <= Rank(u) * Turns
<1>1. t \in Tids /\ t \in Nat /\ t < Used /\ cnt[t] \in 0..Turns
  BY UsedIsEven DEF Side, CounterTypeOK
<1>2. Rank(t) \in Nat /\ Rank(t) + 1 <= Ranks
  BY <1>1, UsedIsEven DEF Rank, Ranks
<1>3. \A r \in Nat : Rank(t) + 1 <= r =>
        r * Turns \in Nat /\ Rank(t) * Turns \in Nat /\ Rank(t) * Turns + Turns <= r * Turns
  <2>1. SUFFICES ASSUME NEW r \in Nat, Rank(t) + 1 <= r
                 PROVE  /\ r * Turns \in Nat /\ Rank(t) * Turns \in Nat
                        /\ Rank(t) * Turns + Turns <= r * Turns
    OBVIOUS
  <2>2. Rank(t) + 1 \in Nat /\ Turns \in Nat  BY <1>2, UsedIsEven
  <2>3. (Rank(t) + 1) * Turns \in Nat /\ r * Turns \in Nat /\ (Rank(t) + 1) * Turns <= r * Turns
    BY <2>1, <2>2, Times
  <2>4. (Rank(t) + 1) * Turns = Rank(t) * Turns + Turns /\ Rank(t) * Turns \in Nat
    BY <1>2, <2>2
  <2>. QED  BY <2>3, <2>4
<1>4. ASSUME NEW u \in Side(adds), t < u
      PROVE  Rank(u) \in Nat /\ Rank(t) + 1 <= Rank(u)
  <2>1. u \in Nat /\ (Sums \/ t % 2 = u % 2)
    BY UsedIsEven DEF Side
  <2>. QED  BY <1>1, <1>4, <2>1 DEF Rank
<1>. QED  BY <1>1, <1>2, <1>3, <1>4, UsedIsEven

\* A side never stored more than all of its loops.
LEMMA SizeBound ==
  ASSUME program \in CounterPrograms, CounterTypeOK, NEW adds \in BOOLEAN
  PROVE  /\ IsFiniteSet(Total(adds)) /\ Size(adds) \in Nat
         /\ Size(adds) <= G(Ranks * Turns) /\ G(Ranks * Turns) \in Nat
<1>1. Ranks * Turns \in Nat  BY UsedIsEven
<1>2. G(Ranks * Turns) \in Nat  BY <1>1, Grows
<1>3. ASSUME NEW t \in Side(adds) PROVE Stored(t) \subseteq 1..G(Ranks * Turns)
  <2>1. /\ Rank(t) * Turns \in Nat /\ cnt[t] \in 0..Turns /\ Turns \in Nat
        /\ Rank(t) * Turns + Turns <= Ranks * Turns
    BY Apart, UsedIsEven
  <2>2. PICK x \in Nat : x = Rank(t) * Turns  BY <2>1
  <2>3. PICK n \in Nat : n = cnt[t]  BY <2>1
  <2>4. PICK m \in Nat : Ranks * Turns = (x + n) + m
    BY <1>1, <2>1, <2>2, <2>3, Ranks * Turns - (x + n) \in Nat
  <2>5. x + n \in Nat  OBVIOUS
  <2>6. G(x) \in Nat /\ G(x + n) \in Nat /\ G(x + n) <= G((x + n) + m)
    BY <2>5, Grows
  <2>. QED  BY <1>2, <2>2, <2>3, <2>4, <2>6 DEF Stored
<1>4. Total(adds) \in SUBSET (1..G(Ranks * Turns))  BY <1>3 DEF Total
<1>5. IsFiniteSet(1..G(Ranks * Turns)) /\ Cardinality(1..G(Ranks * Turns)) = G(Ranks * Turns)
  BY <1>2, FS_Interval
<1>6. IsFiniteSet(Total(adds)) /\ Size(adds) <= G(Ranks * Turns)
  BY <1>4, <1>5, FS_Subset DEF Size
<1>. QED  BY <1>2, <1>6, FS_CardinalityType DEF Size

\* A store adds to its side what it adds to num, and nothing to the other.
LEMMA StoreGrows ==
  ASSUME program \in CounterPrograms, CounterTypeOK, CounterTypeOK', UNCHANGED program,
         NEW adds \in BOOLEAN, NEW t \in Side(adds), NEW n \in 1..(Turns - cnt[t]),
         cnt' = [cnt EXCEPT ![t] = @ + n], times[t] = n
  PROVE  /\ Size(adds)' = Size(adds) + (IF adds THEN Added(t) ELSE -Added(t))
         /\ Size(~adds)' = Size(~adds)
         /\ IF adds THEN Added(t) \in Nat ELSE -Added(t) \in Nat
<1>1. /\ t \in Tids /\ t \in Nat /\ Rank(t) \in Nat /\ cnt[t] \in 0..Turns /\ Rank(t) * Turns \in Nat
      /\ Turns \in Nat /\ cnt \in [Tids -> 0..Turns] /\ Used \in Nat
  BY Apart, UsedIsEven DEF CounterTypeOK
<1>2. PICK x \in Nat : x = Rank(t) * Turns + cnt[t]  BY <1>1
<1>3. Side(adds)' = Side(adds) /\ Side(~adds)' = Side(~adds)
  BY DEF Side, Sums, Used
<1>4. cnt'[t] = cnt[t] + n /\ \A u \in Tids \ {t} : cnt'[u] = cnt[u]  BY <1>1
<1>5. \A u \in Tids \ {t} : Stored(u)' = Stored(u)
  BY <1>4 DEF Stored, G, Rank, Sums, Turns
<1>6. \A b \in BOOLEAN : Side(b) \subseteq Tids  BY UsedIsEven DEF Side
<1>7. t \notin Side(~adds)  BY DEF Side
<1>8. Size(~adds)' = Size(~adds)
  <2>1. \A u \in Side(~adds) : Stored(u)' = Stored(u)  BY <1>5, <1>6, <1>7
  <2>2. Total(~adds)' = Total(~adds)  BY <1>3, <2>1 DEF Total
  <2>. QED  BY <2>2 DEF Size
<1>9. Added(t) = IF adds THEN G(x + n) - G(x) ELSE -(G(x + n) - G(x))
  <2>1. adds <=> Sums \/ t % 2 = 0  BY DEF Side
  <2>2. Sums => G(x + n) - G(x) = (n * (2 * x + n + 1)) \div 2  BY Grows
  <2>3. ~Sums => G(x + n) - G(x) = n  BY Grows
  <2>4. Sums => Added(t) = (n * (2 * x + n + 1)) \div 2
    <3>1. Sums => Added(t) = (n * (2 * (t * Turns + cnt[t]) + n + 1)) \div 2
      BY DEF Added, Sums
    <3>. QED  BY <1>2, <3>1 DEF Rank
  <2>5. ~Sums => Added(t) = IF t % 2 = 0 THEN n ELSE -n
    BY DEF Added, Sums
  <2>. QED  BY <2>1, <2>2, <2>3, <2>4, <2>5
<1>10. Size(adds)' = Size(adds) + (G(x + n) - G(x))
  <2>1. PICK y \in Nat : y = Rank(t) * Turns  BY <1>1
  <2>2. PICK k \in Nat : k = cnt[t]  BY <1>1
  <2>3. x = y + k  BY <1>2, <2>1, <2>2
  <2>4. G(y) \in Nat /\ G(x) \in Nat /\ G(x + n) \in Nat /\ G(y) <= G(x) /\ G(x) <= G(x + n)
    BY <2>3, n \in Nat, Grows
  <2>5. Stored(t) = (G(y) + 1)..G(x)  BY <2>1, <2>2, <2>3 DEF Stored
  <2>6. Stored(t)' = (G(y) + 1)..G(x + n)
    <3>1. cnt'[t] = k + n /\ y + (k + n) = x + n  BY <1>4, <2>2, <2>3
    <3>2. Stored(t)' = (G(Rank(t) * Turns) + 1)..G(Rank(t) * Turns + cnt'[t])
      BY DEF Stored, G, Rank, Sums, Turns
    <3>. QED  BY <2>1, <3>1, <3>2
  <2>7. Stored(t)' = Stored(t) \cup ((G(x) + 1)..G(x + n))  BY <2>4, <2>5, <2>6
  <2>8. Total(adds)' = Total(adds) \cup ((G(x) + 1)..G(x + n))
    <3>1. \A u \in Side(adds) \ {t} : Stored(u)' = Stored(u)  BY <1>5, <1>6
    <3>. QED  BY <1>3, <2>7, <3>1 DEF Total
  <2>9. ASSUME NEW u \in Side(adds), NEW w \in Stored(u), w \in (G(x) + 1)..G(x + n)
        PROVE  FALSE
    <3>1. /\ Rank(u) * Turns \in Nat /\ cnt[u] \in 0..Turns /\ u \in Nat
          /\ (u < t => Rank(u) * Turns + Turns <= y)
          /\ (t < u => y + Turns <= Rank(u) * Turns)
      BY <2>1, Apart
    <3>2. PICK v \in Nat : v = Rank(u) * Turns  BY <3>1
    <3>3. PICK m \in Nat : m = cnt[u]  BY <3>1
    <3>4. w \in (G(v) + 1)..G(v + m) /\ m <= Turns /\ v + m \in Nat
      BY <3>1, <3>2, <3>3 DEF Stored
    <3>5. CASE u = t  BY <2>4, <2>5, <2>9, <3>5
    <3>6. CASE u < t
      <4>1. PICK d \in Nat : x = (v + m) + d
        BY <1>1, <2>1, <2>3, <3>1, <3>2, <3>4, <3>6, x - (v + m) \in Nat
      <4>2. G(v + m) \in Nat /\ G(v + m) <= G(x)  BY <3>4, <4>1, Grows
      <4>. QED  BY <2>4, <2>9, <3>2, <3>4, <4>2, Grows
    <3>7. CASE t < u
      <4>1. x + n <= v  BY <1>1, <2>1, <2>2, <2>3, <3>1, <3>2, <3>7
      <4>2. PICK d \in Nat : v = (x + n) + d  BY <4>1, v - (x + n) \in Nat
      <4>3. x + n \in Nat  OBVIOUS
      <4>4. G(v) \in Nat /\ G(x + n) <= G(v)  BY <4>2, <4>3, Grows
      <4>. QED  BY <2>4, <2>9, <3>4, <4>4, Grows
    <3>. QED  BY <1>1, <3>1, <3>5, <3>6, <3>7
  <2>10. Total(adds) \cap ((G(x) + 1)..G(x + n)) = {}  BY <2>9 DEF Total
  <2>11. /\ IsFiniteSet((G(x) + 1)..G(x + n))
         /\ Cardinality((G(x) + 1)..G(x + n)) = G(x + n) - G(x)
    <3>1. G(x) + 1 \in Int /\ G(x + n) \in Int  BY <2>4
    <3>2. /\ IsFiniteSet((G(x) + 1)..G(x + n))
          /\ Cardinality((G(x) + 1)..G(x + n))
               = IF G(x) + 1 > G(x + n) THEN 0 ELSE G(x + n) - (G(x) + 1) + 1
      BY <3>1, FS_Interval
    <3>. QED  BY <2>4, <3>2
  <2>12. IsFiniteSet(Total(adds)) /\ Cardinality(Total(adds)) \in Nat
    BY SizeBound DEF Size
  <2>13. Cardinality(Total(adds) \cup ((G(x) + 1)..G(x + n)))
           = Cardinality(Total(adds)) + (G(x + n) - G(x))
    <3>1. Cardinality(Total(adds) \cup ((G(x) + 1)..G(x + n)))
            = Cardinality(Total(adds)) + Cardinality((G(x) + 1)..G(x + n))
                - Cardinality(Total(adds) \cap ((G(x) + 1)..G(x + n)))
      BY <2>11, <2>12, FS_Union
    <3>2. Cardinality(Total(adds) \cap ((G(x) + 1)..G(x + n))) = 0  BY <2>10, FS_EmptySet
    <3>. QED  BY <2>4, <2>11, <2>12, <3>1, <3>2
  <2>. QED  BY <2>8, <2>13 DEF Size
<1>11. G(x + n) - G(x) \in Nat
  <2>1. n \in Nat  BY <1>1
  <2>2. G(x) \in Nat /\ G(x + n) \in Nat /\ G(x) <= G(x + n)  BY <2>1, Grows
  <2>. QED  BY <2>2
<1>. QED  BY <1>8, <1>9, <1>10, <1>11

\* The same, of the side that thread t is on.
LEMMA StoreMoves ==
  ASSUME program \in CounterPrograms, CounterTypeOK, CounterTypeOK', UNCHANGED program,
         NEW t \in Tids, t < Used, NEW n \in 1..(Turns - cnt[t]),
         cnt' = [cnt EXCEPT ![t] = @ + n], times[t] = n
  PROVE  /\ Risen \in Nat /\ Fallen \in Nat
         /\ \/ Added(t) \in Nat /\ Risen' = Risen + Added(t) /\ Fallen' = Fallen
            \/ -Added(t) \in Nat /\ Risen' = Risen /\ Fallen' = Fallen - Added(t)
<1>1. \A b \in BOOLEAN : Size(b) \in Nat  BY SizeBound
<1>2. Risen \in Nat /\ Fallen \in Nat  BY <1>1, Zenon DEF Risen, Fallen
<1>3. t \in 0..(Used - 1)  BY UsedIsEven
<1>4. CASE Sums \/ t % 2 = 0
  <2>1. t \in Side(TRUE)  BY <1>3, <1>4 DEF Side
  <2>2. /\ Added(t) \in Nat
        /\ Size(TRUE)' = Size(TRUE) + (IF TRUE THEN Added(t) ELSE -Added(t))
        /\ Size(~TRUE)' = Size(~TRUE)
    BY <2>1, StoreGrows
  <2>3. Risen' = Risen + Added(t)  BY <2>2, Zenon DEF Risen
  <2>4. Fallen' = Fallen
    <3>1. (~TRUE) = FALSE  OBVIOUS
    <3>. QED  BY <2>2, <3>1, Zenon DEF Fallen
  <2>. QED  BY <1>2, <2>2, <2>3, <2>4
<1>5. CASE ~(Sums \/ t % 2 = 0)
  <2>1. t \in Side(FALSE)  BY <1>3, <1>5 DEF Side
  <2>2. /\ -Added(t) \in Nat
        /\ Size(FALSE)' = Size(FALSE) + (IF FALSE THEN Added(t) ELSE -Added(t))
        /\ Size(~FALSE)' = Size(~FALSE)
    BY <2>1, StoreGrows
  <2>3. Fallen' = Fallen + (-Added(t))  BY <2>2, Zenon DEF Fallen
  <2>4. Risen' = Risen
    <3>1. (~FALSE) = TRUE  OBVIOUS
    <3>. QED  BY <2>2, <3>1, Zenon DEF Risen
  <2>5. PICK x \in Int : x = Added(t)
    BY <2>2, <1>5 DEF Added, Sums
  <2>. QED  BY <1>2, <2>2, <2>3, <2>4, <2>5
<1>. QED  BY <1>4, <1>5

LEMMA CounterStart == CounterInit => CountInv
<1>. SUFFICES ASSUME CounterInit PROVE CountInv  OBVIOUS
<1>. USE DEF CounterInit, CounterFresh
<1>1. Used \in Nat /\ Turns \in Nat /\ Tids \subseteq Nat  BY UsedIsEven
<1>2. CounterTypeOK  BY <1>1 DEF CounterTypeOK, Free
<1>3. Places
  <2>1. \A t \in Tids : mutex # t  BY <1>1 DEF Free
  <2>. QED  BY <2>1 DEF Places
<1>4. ASSUME NEW adds \in BOOLEAN PROVE Size(adds) = 0
  <2>1. ASSUME NEW t \in Side(adds) PROVE Stored(t) = {}
    <3>1. t \in Tids /\ Rank(t) * Turns \in Nat  BY <1>2, Apart
    <3>2. PICK x \in Nat : x = Rank(t) * Turns  BY <3>1
    <3>3. Stored(t) = (G(x) + 1)..G(x)  BY <3>1, <3>2 DEF Stored
    <3>4. G(x) \in Nat  BY Grows
    <3>. QED  BY <3>3, <3>4
  <2>2. Total(adds) = {}  BY <2>1 DEF Total
  <2>. QED  BY <2>2, FS_EmptySet DEF Size
<1>5. Bounded
  <2>1. Risen = 0 /\ Fallen = 0  BY <1>4, Zenon DEF Risen, Fallen
  <2>. QED  BY <2>1 DEF Bounded, Between
<1>. QED  BY <1>2, <1>3, <1>5 DEF CountInv

\* Steps that store nothing.
LEMMA SameSize ==
  ASSUME UNCHANGED <<cnt, program>>
  PROVE  \A adds \in BOOLEAN : Size(adds)' = Size(adds)
BY DEF Size, Total, Side, Stored, G, Rank, Sums, Used, Turns

LEMMA SameBounds ==
  ASSUME CountInv, UNCHANGED <<cnt, program, num>>,
         \A t \in Tids : tpc'[t] = "store" => reg'[t] = num \/ (tpc[t] = "store" /\ reg'[t] = reg[t])
  PROVE  Bounded'
<1>1. Risen' = Risen /\ Fallen' = Fallen  BY SameSize, Zenon DEF Risen, Fallen
<1>. QED  BY <1>1 DEF CountInv, Bounded, Between, Locked

LEMMA MainKeeps ==
  ASSUME CountInv, Main, UNCHANGED program
  PROVE  CountInv'
<1>. USE DEF CountInv
<1>1. /\ Used \in Nat /\ Turns \in Nat /\ Tids \subseteq Nat /\ 0..(Used - 1) \subseteq Tids
      /\ Used' = Used /\ Turns' = Turns /\ (Locked' <=> Locked)
  BY UsedIsEven DEF Used, Turns, Locked
<1>2. \A t \in Tids : tpc'[t] = tpc[t] \/ (tpc[t] = "none" /\ tpc'[t] = "loop")
  BY DEF Main, Create, AllCreated, Join, PrintNum, CounterTypeOK
<1>3. UNCHANGED <<num, mutex, cnt, reg, times>>
  BY DEF Main, Create, AllCreated, Join, PrintNum
<1>4. Bounded'  BY <1>2, <1>3, SameBounds
<1>5. CASE Create
  <2>1. i \in 0..(Used - 1) /\ i \in Tids  BY <1>1, <1>5 DEF Create, CounterTypeOK
  <2>2. tpc' = [tpc EXCEPT ![i] = "loop"] /\ i' = i + 1 /\ mpc' = mpc /\ mpc = "create"
    BY <1>5 DEF Create
  <2>3. CounterTypeOK'  BY <1>1, <1>3, <2>1, <2>2 DEF CounterTypeOK
  <2>4. tpc[i] = "none"  BY <1>1, <2>1, <2>2 DEF CounterTypeOK
  <2>5. Places'
    BY <1>1, <1>3, <2>1, <2>2, <2>4 DEF Places, CounterTypeOK
  <2>. QED  BY <1>4, <2>3, <2>5
<1>6. CASE AllCreated
  <2>1. UNCHANGED tpc /\ mpc = "create" /\ i = Used /\ mpc' = "join" /\ i' = 0
    BY <1>6 DEF AllCreated
  <2>2. CounterTypeOK'  BY <1>1, <1>3, <2>1 DEF CounterTypeOK
  <2>3. Places'  BY <1>1, <1>3, <2>1 DEF Places, CounterTypeOK
  <2>. QED  BY <1>4, <2>2, <2>3
<1>7. CASE Join
  <2>1. UNCHANGED <<tpc, mpc>> /\ mpc = "join" /\ i < Used /\ tpc[i] = "ended" /\ i' = i + 1
    BY <1>7 DEF Join
  <2>2. CounterTypeOK'  BY <1>1, <1>3, <2>1 DEF CounterTypeOK
  <2>3. Places'  BY <1>1, <1>3, <2>1 DEF Places, CounterTypeOK
  <2>. QED  BY <1>4, <2>2, <2>3
<1>8. CASE PrintNum
  <2>1. UNCHANGED <<tpc, i>> /\ mpc = "join" /\ i = Used /\ mpc' = "done"
    BY <1>8 DEF PrintNum
  <2>2. CounterTypeOK'  BY <1>1, <1>3, <2>1 DEF CounterTypeOK
  <2>3. Places'  BY <1>1, <1>3, <2>1 DEF Places, CounterTypeOK
  <2>. QED  BY <1>4, <2>2, <2>3
<1>. QED  BY <1>5, <1>6, <1>7, <1>8 DEF Main

LEMMA ThreadKeeps ==
  ASSUME CountInv, NEW t \in Tids, Thread(t), UNCHANGED program
  PROVE  CountInv'
<1>. USE DEF CountInv
<1>1. /\ Used \in Nat /\ Turns \in Nat /\ Tids \subseteq Nat /\ 0..(Used - 1) \subseteq Tids
      /\ Used' = Used /\ Turns' = Turns /\ (Locked' <=> Locked)
  BY UsedIsEven DEF Used, Turns, Locked
<1>2. UNCHANGED <<mpc, i>> /\ tpc[t] # "none" /\ tpc[t] # "ended"
      /\ \E p \in {"loop", "load", "store", "unlock", "ended"} : tpc' = [tpc EXCEPT ![t] = p]
  BY DEF Thread, LockNum, LoadNum, StoreNum, Unlock, End, Step
<1>3. PICK p \in {"loop", "load", "store", "unlock", "ended"} : tpc' = [tpc EXCEPT ![t] = p]
  BY <1>2
<1>4. /\ tpc'[t] = p /\ \A u \in Tids \ {t} : tpc'[u] = tpc[u]
      /\ tpc' \in [Tids -> {"none", "loop", "load", "store", "unlock", "ended"}]
  BY <1>3 DEF CounterTypeOK
<1>5. t < Used
  BY <1>1, <1>2 DEF CounterTypeOK, Places
<1>6. /\ mpc' # "create" => \A u \in Tids : tpc'[u] = "none" <=> u >= Used
      /\ mpc' = "create" => \A u \in Tids : tpc'[u] = "none" <=> u >= i
      /\ mpc' = "join" => \A u \in Tids : u < i => tpc'[u] = "ended"
      /\ mpc' = "done" => \A u \in Tids : u < Used => tpc'[u] = "ended"
  BY <1>2, <1>4, <1>5 DEF CounterTypeOK, Places
<1>7. CASE LockNum(t)
  <2>1. /\ tpc[t] = "loop" /\ p = "load" /\ cnt[t] < Turns
        /\ UNCHANGED <<num, cnt, reg, times>>
        /\ IF Locked THEN mutex = Free /\ mutex' = t ELSE mutex' = mutex
    BY <1>3, <1>4, <1>7 DEF LockNum, Step, CounterTypeOK
  <2>2. CounterTypeOK'  BY <1>1, <1>2, <1>4, <1>6, <2>1 DEF CounterTypeOK
  <2>3. Places'
    <3>1. \A u \in Tids : Locked => (mutex' = u <=> tpc'[u] \in {"load", "store", "unlock"})
      BY <1>1, <1>4, <2>1 DEF Places, Free
    <3>. QED  BY <1>1, <1>2, <1>4, <1>6, <2>1, <3>1 DEF Places
  <2>4. Bounded'  BY <1>4, <2>1, SameBounds
  <2>. QED  BY <2>2, <2>3, <2>4
<1>8. CASE LoadNum(t)
  <2>1. /\ tpc[t] = "load" /\ p = "store"
        /\ reg' = [reg EXCEPT ![t] = num]
        /\ UNCHANGED <<num, mutex, cnt>>
    BY <1>3, <1>4, <1>8 DEF LoadNum, Step, CounterTypeOK
  <2>2. PICK n \in 1..(IF Locked THEN 1 ELSE Turns - cnt[t]) : times' = [times EXCEPT ![t] = n]
    BY <1>8 DEF LoadNum
  <2>3. cnt[t] < Turns /\ cnt[t] \in 0..Turns  BY <2>1 DEF Places, CounterTypeOK
  <2>4. n \in 1..(Turns - cnt[t]) /\ n \in Int  BY <1>1, <2>2, <2>3
  <2>5. times'[t] = n /\ \A u \in Tids \ {t} : times'[u] = times[u]
    BY <2>2 DEF CounterTypeOK
  <2>6. CounterTypeOK'  BY <1>1, <1>2, <1>4, <1>6, <2>1, <2>2, <2>4 DEF CounterTypeOK
  <2>7. Places'
    <3>1. \A u \in Tids : Locked => (mutex' = u <=> tpc'[u] \in {"load", "store", "unlock"})
      BY <1>4, <2>1 DEF Places
    <3>. QED  BY <1>1, <1>2, <1>4, <1>6, <2>1, <2>4, <2>5, <3>1 DEF Places
  <2>8. Bounded'  BY <1>4, <2>1, SameBounds DEF CounterTypeOK
  <2>. QED  BY <2>6, <2>7, <2>8
<1>9. CASE StoreNum(t)
  <2>1. /\ tpc[t] = "store" /\ p = "unlock" /\ num' = reg[t] + Added(t)
        /\ cnt' = [cnt EXCEPT ![t] = @ + times[t]]
        /\ reg' = [reg EXCEPT ![t] = 0] /\ times' = [times EXCEPT ![t] = 1]
        /\ UNCHANGED mutex
    BY <1>3, <1>4, <1>9 DEF StoreNum, Step, CounterTypeOK
  <2>2. PICK n \in 1..(Turns - cnt[t]) : times[t] = n  BY <2>1 DEF Places
  <2>3. cnt[t] \in 0..Turns /\ cnt[t] + n \in 0..Turns  BY <1>1, <2>2 DEF CounterTypeOK
  <2>. PICK x \in Int : x = Added(t)
    <3>1. PICK y \in Nat : y = n * (2 * (t * Turns + cnt[t]) + n + 1)
      BY <1>1, <2>3
    <3>. QED  BY <2>2, <3>1 DEF Added
  <2>4. CounterTypeOK'
    <3>1. num' \in Int  BY <2>1 DEF CounterTypeOK
    <3>2. cnt' \in [Tids -> 0..Turns]  BY <2>1, <2>2, <2>3 DEF CounterTypeOK
    <3>. QED  BY <1>1, <1>2, <1>4, <1>6, <2>1, <3>1, <3>2 DEF CounterTypeOK
  <2>5. cnt'[t] = cnt[t] + n /\ \A u \in Tids \ {t} : cnt'[u] = cnt[u] /\ times'[u] = times[u] /\ reg'[u] = reg[u]
    BY <2>1, <2>2 DEF CounterTypeOK
  <2>6. Places'
    <3>1. \A u \in Tids : Locked => (mutex' = u <=> tpc'[u] \in {"load", "store", "unlock"})
      BY <1>4, <2>1 DEF Places
    <3>. QED  BY <1>1, <1>2, <1>4, <1>6, <2>1, <2>5, <3>1 DEF Places
  <2>7. /\ Risen \in Nat /\ Fallen \in Nat
        /\ \/ Added(t) \in Nat /\ Risen' = Risen + Added(t) /\ Fallen' = Fallen
           \/ -Added(t) \in Nat /\ Risen' = Risen /\ Fallen' = Fallen - Added(t)
    BY <1>1, <1>5, <2>1, <2>2, <2>4, StoreMoves
  <2>8. num' = reg[t] + Added(t) /\ Between(reg[t]) /\ reg[t] \in Int
    BY <2>1 DEF Bounded, CounterTypeOK
  <2>9. \A m \in Int : Between(m) => Between(m)'
    <3>1. SUFFICES ASSUME NEW m \in Int, -Fallen <= m, m <= Risen
                   PROVE  -(Fallen') <= m /\ m <= Risen'
      BY DEF Between
    <3>. QED  BY <2>7, <3>1
  <2>10. Bounded'
    <3>1. -(Fallen') <= num' /\ num' <= Risen'  BY <2>7, <2>8 DEF Between
    <3>2. \A u \in Tids : tpc'[u] = "store" => u # t /\ tpc[u] = "store" /\ reg'[u] = reg[u]
      BY <1>4, <2>1, <2>5
    <3>3. \A u \in Tids : tpc'[u] = "store" => Between(reg[u])'
      <4>1. SUFFICES ASSUME NEW u \in Tids, tpc[u] = "store", reg'[u] = reg[u]
                     PROVE  -(Fallen') <= reg'[u] /\ reg'[u] <= Risen'
        BY <3>2 DEF Between
      <4>2. Between(reg[u]) /\ reg[u] \in Int  BY <4>1 DEF Bounded, CounterTypeOK
      <4>3. PICK m \in Int : m = reg[u]  BY <4>2
      <4>4. Between(m)'  BY <2>9, <4>2, <4>3
      <4>. QED  BY <4>1, <4>3, <4>4 DEF Between
    <3>4. Locked => \A u \in Tids : tpc'[u] # "store"
      BY <1>4, <2>1 DEF Places
    <3>5. Locked => num' = Risen' - Fallen'  BY <2>1, <2>7, <2>8 DEF Bounded
    <3>. QED  BY <1>1, <3>1, <3>3, <3>4, <3>5 DEF Bounded, Between
  <2>. QED  BY <2>4, <2>6, <2>10
<1>10. CASE Unlock(t)
  <2>1. /\ tpc[t] = "unlock" /\ p = "loop" /\ mutex' = Free
        /\ UNCHANGED <<num, cnt, reg, times>>
    BY <1>3, <1>4, <1>10 DEF Unlock, Step, CounterTypeOK
  <2>2. CounterTypeOK'  BY <1>1, <1>2, <1>4, <1>6, <2>1 DEF CounterTypeOK
  <2>3. Places'
    <3>1. \A u \in Tids : Locked => (mutex' = u <=> tpc'[u] \in {"load", "store", "unlock"})
      BY <1>1, <1>4, <2>1 DEF Places, Free
    <3>. QED  BY <1>1, <1>2, <1>4, <1>6, <2>1, <3>1 DEF Places
  <2>4. Bounded'  BY <1>4, <2>1, SameBounds
  <2>. QED  BY <2>2, <2>3, <2>4
<1>11. CASE End(t)
  <2>1. /\ tpc[t] = "loop" /\ p = "ended" /\ cnt[t] = Turns
        /\ UNCHANGED <<num, mutex, cnt, reg, times>>
    BY <1>3, <1>4, <1>11 DEF End, Step, CounterTypeOK
  <2>2. CounterTypeOK'  BY <1>1, <1>2, <1>4, <1>6, <2>1 DEF CounterTypeOK
  <2>3. Places'
    <3>1. \A u \in Tids : Locked => (mutex' = u <=> tpc'[u] \in {"load", "store", "unlock"})
      BY <1>4, <2>1 DEF Places
    <3>. QED  BY <1>1, <1>2, <1>4, <1>6, <2>1, <3>1 DEF Places
  <2>4. Bounded'  BY <1>4, <2>1, SameBounds
  <2>. QED  BY <2>2, <2>3, <2>4
<1>. QED  BY <1>7, <1>8, <1>9, <1>10, <1>11 DEF Thread

\* The inductive invariant of the counter.
THEOREM CounterSafe == CounterSpec => []CountInv
<1>1. CounterInit => CountInv  BY CounterStart
<1>2. CountInv /\ [CounterNext /\ UNCHANGED program]_<<counter, program>> => CountInv'
  <2>. SUFFICES ASSUME CountInv, [CounterNext /\ UNCHANGED program]_<<counter, program>>
                PROVE  CountInv'
    OBVIOUS
  <2>1. CASE Main /\ UNCHANGED program  BY <2>1, MainKeeps
  <2>2. ASSUME NEW t \in Tids, Thread(t), UNCHANGED program PROVE CountInv'
    BY <2>2, ThreadKeeps
  <2>3. CASE UNCHANGED <<counter, program>>
    <3>1. UNCHANGED <<num, mutex, mpc, i, tpc, cnt, reg, times, program>>  BY <2>3 DEF counter
    <3>2. CounterTypeOK' /\ Places'
      BY <3>1 DEF CountInv, CounterTypeOK, Places, Used, Turns, Locked
    <3>3. Bounded'  BY <3>1, SameBounds
    <3>. QED  BY <3>1, <3>2, <3>3 DEF CountInv
  <2>. QED  BY <2>1, <2>2, <2>3 DEF CounterNext
<1>. QED  BY <1>1, <1>2, PTL DEF CounterSpec

LEMMA CountEnds == CountInv => CountSound
<1>. SUFFICES ASSUME CountInv PROVE CountSound  OBVIOUS
<1>. USE DEF CountInv
<1>1. /\ Used \in Nat /\ Turns \in Nat /\ Used % 2 = 0 /\ Ranks \in Nat
      /\ Ranks * Turns \in Nat /\ num \in Int /\ Used * Turns \in Nat
  BY UsedIsEven DEF CounterTypeOK
<1>2. \A b \in BOOLEAN : Size(b) \in Nat /\ Size(b) <= G(Ranks * Turns) /\ G(Ranks * Turns) \in Nat
  BY SizeBound
<1>3. /\ Risen \in Nat /\ Risen <= G(Ranks * Turns)
      /\ Fallen \in Nat /\ Fallen <= G(Ranks * Turns) /\ G(Ranks * Turns) \in Nat
  BY <1>2, Zenon DEF Risen, Fallen
<1>4. Between(num)  BY DEF Bounded
<1>5. ZeroAtEnd
  <2>1. SUFFICES ASSUME Locked, mpc = "done" PROVE num = 0  BY DEF ZeroAtEnd
  <2>2. ~Sums /\ num = Risen - Fallen  BY <2>1 DEF Sums, Locked, Bounded
  <2>3. \A t \in 0..(Used - 1) : t \in Tids /\ t \in Nat /\ t < Used /\ cnt[t] = Turns
    BY <2>1, UsedIsEven DEF Places
  <2>4. \A t \in 0..(Used - 1) : Stored(t) = (t \div 2) * Turns + 1 .. (t \div 2) * Turns + Turns
    BY <2>2, <2>3 DEF Stored, G, Rank
  <2>5. Total(TRUE) = Total(FALSE)
    <3>1. ASSUME NEW t \in Side(TRUE) PROVE \E u \in Side(FALSE) : Stored(u) = Stored(t)
      <4>1. t \in 0..(Used - 1) /\ t % 2 = 0  BY <2>2 DEF Side
      <4>2. t + 1 \in 0..(Used - 1) /\ (t + 1) % 2 = 1 /\ (t + 1) \div 2 = t \div 2
        BY <1>1, <4>1
      <4>3. t + 1 \in Side(FALSE)  BY <2>2, <4>2 DEF Side
      <4>. QED  BY <2>4, <4>1, <4>2, <4>3
    <3>2. ASSUME NEW t \in Side(FALSE) PROVE \E u \in Side(TRUE) : Stored(u) = Stored(t)
      <4>1. t \in 0..(Used - 1) /\ t % 2 # 0  BY <2>2 DEF Side
      <4>2. t - 1 \in 0..(Used - 1) /\ (t - 1) % 2 = 0 /\ (t - 1) \div 2 = t \div 2
        BY <1>1, <4>1
      <4>3. t - 1 \in Side(TRUE)  BY <2>2, <4>2 DEF Side
      <4>. QED  BY <2>4, <4>1, <4>2, <4>3
    <3>. QED  BY <3>1, <3>2, Zenon DEF Total
  <2>6. Risen = Fallen  BY <2>5, Zenon DEF Risen, Fallen, Size
  <2>. QED  BY <1>3, <2>2, <2>6
<1>6. InRange
  <2>1. CASE Sums
    <3>1. Side(FALSE) = {}  BY <2>1 DEF Side
    <3>2. Fallen = 0
      <4>1. Total(FALSE) = {}  BY <3>1 DEF Total
      <4>. QED  BY <4>1, FS_EmptySet, Zenon DEF Fallen, Size
    <3>3. G(Ranks * Turns) = (Used * Turns * (Used * Turns + 1)) \div 2
      BY <2>1 DEF G, Ranks
    <3>4. num \in 0..((Used * Turns * (Used * Turns + 1)) \div 2)
      BY <1>1, <1>3, <1>4, <3>2, <3>3 DEF Between
    <3>. QED  BY <2>1, <3>4 DEF InRange, Sums
  <2>2. CASE ~Sums
    <3>1. G(Ranks * Turns) = (Used \div 2) * Turns  BY <2>2 DEF G, Ranks
    <3>. QED  BY <1>1, <1>3, <1>4, <2>2, <3>1 DEF Between, InRange, Sums
  <2>. QED  BY <2>1, <2>2
<1>. QED  BY <1>5, <1>6 DEF CountSound

\* For any even number of threads and any length of their loops: under the
\* mutex main prints zero (mutex.c:45, 71-75); without it the counter stays
\* within what one side alone could make of it, and multi_thread.c's sum
\* within that of all the ranges (multi_thread2.c:44, 53, multi_thread.c:34).
THEOREM CounterSound == CounterSpec => []CountSound
BY CounterSafe, CountEnds, PTL


-----------------------------------------------------------------------------
(* Reap. *)

\* How many of the two children are in state s.
Num(s) == (IF kids[1] = s THEN 1 ELSE 0) + (IF kids[2] = s THEN 1 ELSE 0)
Forks  == IF program = "waitpid" THEN 1 ELSE 2

\* The calls of fork() and wait(), against the children they were for.
Family ==
  /\ parent = "fork" => forks < Forks
  /\ parent \notin {"fork", "done"} => forks = Forks
  /\ \A k \in 1..2 : k > forks => kids[k] = "none"
  /\ program = "waitpid" => kids[2] = "none"
  /\ parent = "nap" => program = "remove_zombie" /\ naps < MaxNaps
  /\ parent \in {"wait", "report"} => program # "remove_zombie"
  /\ parent = "wait" => calls < Forks
  /\ calls <= Forks /\ (parent = "fork" => calls = 0 /\ naps = 0)
  /\ program # "remove_zombie" =>
       /\ ~pending /\ merged = 0 /\ Num("reaped") <= calls
       /\ parent = "fork" => reports = <<>> /\ status = 0
       /\ Num("reaped") = calls \/ Num("runs") + Num("zombie") = 0
       /\ parent = "done" => calls = Forks
  /\ program = "remove_zombie" /\ parent # "done" =>
       Num("zombie") = merged + (IF pending THEN 1 ELSE 0)

\* What was reported, against what was collected.
Told ==
  /\ status # 0 => kids[status] = "reaped"
  /\ \A n \in DOMAIN reports : reports[n] # 0 => kids[reports[n]] = "reaped"
  /\ program = "remove_zombie" \/ In("none") = {} =>
       /\ \A n, m \in DOMAIN reports : reports[n] = reports[m] => n = m
       /\ \A n \in DOMAIN reports : reports[n] # 0
  /\ parent = "report" /\ In("none") = {} =>
       status # 0 /\ \A n \in DOMAIN reports : reports[n] # status

ReapInv == ReapTypeOK /\ Family /\ Told

LEMMA Kin ==
  ASSUME ReapTypeOK, program = "waitpid" => kids[2] = "none"
  PROVE  /\ Cardinality(Children) = Forks
         /\ Children = 1..Forks
         /\ \A s \in {"runs", "zombie", "reaped"} : Cardinality(In(s)) = Num(s)
         /\ \A s \in {"runs", "zombie", "reaped"} : Num(s) \in 0..2
<1>1. Forks \in Nat /\ Children = 1..Forks  BY DEF Children, Forks
<1>2. Cardinality(Children) = Forks  BY <1>1, FS_Interval DEF Forks
<1>3. ASSUME NEW s \in {"runs", "zombie", "reaped"} PROVE Cardinality(In(s)) = Num(s)
  <2>1. /\ Cardinality({}) = 0 /\ Cardinality({1}) = 1 /\ Cardinality({2}) = 1
        /\ Cardinality({1, 2}) = 2
    <3>1. Cardinality({}) = 0 /\ Cardinality({1}) = 1 /\ Cardinality({2}) = 1
      BY FS_EmptySet, FS_Singleton
    <3>2. Cardinality({1} \cup {2}) = 2
      <4>1. IsFiniteSet({1})  BY FS_Singleton
      <4>2. 2 \notin {1}  OBVIOUS
      <4>3. Cardinality({1} \cup {2}) = Cardinality({1}) + 1
        BY <4>1, <4>2, FS_AddElement, Zenon
      <4>. QED  BY <3>1, <4>3
    <3>3. {1} \cup {2} = {1, 2}  OBVIOUS
    <3>. QED  BY <3>1, <3>2, <3>3
  <2>2. In(s) = {k \in 1..2 : kids[k] = s}  BY <1>1 DEF In, Forks
  <2>3. In(s) = IF kids[1] = s THEN (IF kids[2] = s THEN {1, 2} ELSE {1})
                ELSE (IF kids[2] = s THEN {2} ELSE {})
    BY <2>2
  <2>. QED  BY <2>1, <2>3 DEF Num
<1>. QED  BY <1>1, <1>2, <1>3 DEF Num

LEMMA ReapStart == ReapFresh => ReapInv
<1>. SUFFICES ASSUME ReapFresh PROVE ReapInv  OBVIOUS
<1>1. ReapTypeOK
  <2>1. kids \in [1..2 -> {"none", "runs", "zombie", "reaped"}]  BY DEF ReapFresh
  <2>2. reports \in Seq(0..2)  BY DEF ReapFresh
  <2>3. /\ parent = "fork" /\ forks \in 0..2 /\ status \in 0..2 /\ calls \in 0..2
        /\ merged \in 0..1
    BY DEF ReapFresh
  <2>4. naps \in 0..MaxNaps  BY ReapAssumption DEF ReapFresh
  <2>5. pending \in BOOLEAN  BY DEF ReapFresh
  <2>. QED  BY <2>1, <2>2, <2>3, <2>4, <2>5 DEF ReapTypeOK
<1>2. Family  BY ReapAssumption DEF ReapFresh, Family, Num, Forks
<1>3. Told  BY DEF ReapFresh, Told
<1>. QED  BY <1>1, <1>2, <1>3 DEF ReapInv

LEMMA Forking ==
  ASSUME ReapInv, Fork \/ ForkFails, UNCHANGED program
  PROVE  ReapInv'
<1>. USE DEF ReapInv
<1>1. /\ parent = "fork" /\ forks' = forks + 1 /\ parent' = AfterFork
      /\ UNCHANGED <<status, reports, calls, naps, pending, merged>>
      /\ kids' = [kids EXCEPT ![forks + 1] = "runs"] \/ kids' = kids
  BY DEF Fork, ForkFails
<1>2. /\ Cardinality(Children) = Forks /\ forks \in 0..1 /\ forks + 1 <= Forks /\ Forks \in 1..2
      /\ kids \in [1..2 -> {"none", "runs", "zombie", "reaped"}]
  BY <1>1, Kin DEF Family, ReapTypeOK, Forks
<1>3. \A k \in 1..2 : kids'[k] = kids[k] \/ (k = forks + 1 /\ kids[k] = "none" /\ kids'[k] = "runs")
  BY <1>1, <1>2 DEF Family
<1>4. parent' = IF forks + 1 < Forks THEN "fork" ELSE IF program = "remove_zombie" THEN "nap" ELSE "wait"
  <2>1. CASE forks + 1 < Forks  BY <1>1, <1>2, <2>1 DEF AfterFork
  <2>2. CASE ~(forks + 1 < Forks)  BY <1>1, <1>2, <2>2 DEF AfterFork
  <2>. QED  BY <2>1, <2>2
<1>5. ReapTypeOK'  BY <1>1, <1>2, <1>4 DEF ReapTypeOK
<1>6. Forks' = Forks /\ Num("reaped")' = Num("reaped") /\ Num("zombie")' = Num("zombie")
      /\ Num("reaped") \in 0..2
  BY <1>3, Kin DEF Forks, Num, Family
<1>8. Family'
  <2>1. /\ parent' = "fork" => forks' < Forks /\ calls' = 0 /\ naps' = 0
        /\ parent' # "fork" => forks' = Forks
        /\ parent' = "nap" => program = "remove_zombie" /\ naps < MaxNaps
        /\ parent' \in {"wait", "report"} => program # "remove_zombie"
        /\ calls = 0 /\ parent' # "done"
    BY <1>1, <1>2, <1>4, ReapAssumption DEF Family
  <2>2. (program = "waitpid" => kids'[2] = "none") /\ \A k \in 1..2 : k > forks' => kids'[k] = "none"
    BY <1>1, <1>2, <1>3 DEF Family, Forks
  <2>3. program # "remove_zombie" => Num("reaped")' = calls'
    BY <1>1, <1>6, <2>1 DEF Family
  <2>. QED  BY <1>1, <1>2, <1>6, <2>1, <2>2, <2>3 DEF Family
<1>9. Told'
  <2>1. Children' = Children /\ Children \subseteq 1..2  BY DEF Children
  <2>2. In("none")' = {} => In("none") = {} \/ (status = 0 /\ reports = <<>>) \/ program = "remove_zombie"
    BY <1>1 DEF Family
  <2>3. parent' # "report"  BY <1>4
  <2>. QED  BY <1>1, <1>3, <2>2, <2>3 DEF Told, ReapTypeOK
<1>. QED  BY <1>5, <1>8, <1>9

LEMMA Exiting ==
  ASSUME ReapInv, NEW k \in Children, Exit(k), UNCHANGED program
  PROVE  ReapInv'
<1>. USE DEF ReapInv
<1>1. /\ k \in 1..2 /\ kids[k] = "runs" /\ kids' = [kids EXCEPT ![k] = "zombie"]
      /\ UNCHANGED <<parent, forks, status, reports, calls, naps>>
      /\ kids'[k] = "zombie" /\ \A c \in 1..2 \ {k} : kids'[c] = kids[c]
      /\ Children' = Children /\ Children \subseteq 1..2
  BY DEF Exit, Children, ReapTypeOK
<1>2. /\ Forks' = Forks /\ Num("reaped")' = Num("reaped")
      /\ Num("zombie")' = Num("zombie") + 1 /\ Num("zombie") \in 0..1 /\ Num("runs") > 0
  BY <1>1 DEF Forks, Num
<1>3. /\ program = "remove_zombie" /\ parent # "done" =>
           pending' = TRUE /\ merged' = merged + (IF pending THEN 1 ELSE 0)
      /\ ~(program = "remove_zombie" /\ parent # "done") => UNCHANGED <<pending, merged>>
  BY DEF Exit
<1>4. ReapTypeOK'
  <2>1. pending' \in BOOLEAN /\ merged' \in 0..1
    BY <1>2, <1>3 DEF ReapTypeOK, Family
  <2>2. kids' \in [1..2 -> {"none", "runs", "zombie", "reaped"}]  BY <1>1 DEF ReapTypeOK
  <2>. QED  BY <1>1, <2>1, <2>2 DEF ReapTypeOK
<1>5. Family'
  <2>1. Num("reaped") \in 0..2 /\ Num("runs") \in 0..2 /\ Num("zombie") \in 0..2
    BY Kin DEF Family
  <2>2. /\ program = "remove_zombie" /\ parent # "done" =>
             Num("zombie") + 1 = merged' + (IF pending' THEN 1 ELSE 0)
    BY <1>2, <1>3 DEF Family, ReapTypeOK
  <2>3. program # "remove_zombie" => Num("reaped") = calls
    BY <1>2, <2>1 DEF Family
  <2>. QED  BY <1>1, <1>2, <1>3, <2>1, <2>2, <2>3 DEF Family
<1>6. Told'
  <2>1. In("none")' = {} => In("none") = {}  BY <1>1 DEF In
  <2>. QED  BY <1>1, <2>1 DEF Told, ReapTypeOK
<1>. QED  BY <1>4, <1>5, <1>6

\* What a collected child changes.
LEMMA Collecting ==
  ASSUME ReapTypeOK, Family, NEW k \in Children, Collect(k), UNCHANGED program
  PROVE  /\ k \in 1..2 /\ kids[k] = "zombie" /\ status' = k
         /\ kids'[k] = "reaped" /\ \A c \in 1..2 \ {k} : kids'[c] = kids[c]
         /\ kids' \in [1..2 -> {"none", "runs", "zombie", "reaped"}]
         /\ Forks' = Forks /\ Num("reaped")' = Num("reaped") + 1
         /\ Num("zombie")' = Num("zombie") - 1 /\ Num("zombie") > 0
         /\ Num("runs")' = Num("runs")
         /\ In("none")' = In("none")
<1>1. k \in 1..2 /\ kids[k] = "zombie" /\ status' = k /\ kids' = [kids EXCEPT ![k] = "reaped"]
      /\ Children' = Children /\ Children \subseteq 1..2
  BY DEF Collect, Children, In
<1>2. /\ kids'[k] = "reaped" /\ \A c \in 1..2 \ {k} : kids'[c] = kids[c]
      /\ kids' \in [1..2 -> {"none", "runs", "zombie", "reaped"}]
  BY <1>1 DEF ReapTypeOK
<1>3. In("none")' = In("none")  BY <1>1, <1>2 DEF In
<1>. QED  BY <1>1, <1>2, <1>3 DEF Num, Forks

LEMMA Waiting ==
  ASSUME ReapInv, WaitReturns, UNCHANGED program
  PROVE  ReapInv'
<1>. USE DEF ReapInv
<1>1. /\ parent = "wait" /\ calls' = calls + 1 /\ parent' = "report" /\ calls < Forks
      /\ UNCHANGED <<forks, reports, naps, pending, merged>> /\ program # "remove_zombie"
      /\ Forks \in 1..2 /\ Forks' = Forks
      /\ calls \in 0..2
  BY DEF WaitReturns, Family, Forks, ReapTypeOK
<1>2. Num("reaped") \in 0..2 /\ Num("runs") \in 0..2 /\ Num("zombie") \in 0..2
  BY Kin DEF Family
<1>3. ASSUME NEW k \in Children, Collect(k) PROVE ReapInv'
  <2>1. ReapTypeOK'  BY <1>1, <1>3, Collecting DEF ReapTypeOK
  <2>2. Num("reaped") = calls  BY <1>1, <1>2, <1>3, Collecting DEF Family
  <2>3. Family'  BY <1>1, <1>2, <1>3, <2>2, Collecting DEF Family
  <2>4. Told'
    <3>1. \A n \in DOMAIN reports : reports[n] # k
      BY <1>3, Collecting DEF Told
    <3>. QED  BY <1>1, <1>3, <3>1, Collecting DEF Told, ReapTypeOK
  <2>. QED  BY <2>1, <2>3, <2>4
<1>4. CASE In("zombie") \cup In("runs") = {} /\ UNCHANGED <<kids, status>>
  <2>1. /\ \A k \in 1..2 : k \in Children => kids[k] \in {"none", "reaped"}
        /\ Children = 1..Forks
    BY <1>4, Kin DEF In, ReapTypeOK, Family
  <2>2. Num("runs") + Num("zombie") = 0
    BY <1>1, <2>1 DEF Num, Family, Forks
  <2>3. In("none") # {}
    <3>1. SUFFICES ASSUME In("none") = {} PROVE FALSE  OBVIOUS
    <3>2. \A k \in Children : kids[k] = "reaped"  BY <2>1, <3>1, <1>1 DEF In
    <3>3. Num("reaped") = Forks  BY <1>1, <2>1, <3>2 DEF Num, Forks, Family
    <3>. QED  BY <1>1, <3>3 DEF Family
  <2>4. Num("runs")' = Num("runs") /\ Num("zombie")' = Num("zombie") /\ Num("reaped")' = Num("reaped")
        /\ In("none")' = In("none")
    BY <1>4 DEF Num, In, Children
  <2>5. ReapTypeOK'  BY <1>1, <1>4 DEF ReapTypeOK
  <2>6. Family'  BY <1>1, <1>2, <1>4, <2>2, <2>4 DEF Family
  <2>7. Told'  BY <1>1, <1>4, <2>3, <2>4 DEF Told
  <2>. QED  BY <2>5, <2>6, <2>7
<1>. QED  BY <1>3, <1>4 DEF WaitReturns

LEMMA Reporting ==
  ASSUME ReapInv, Report, UNCHANGED program
  PROVE  ReapInv'
<1>. USE DEF ReapInv
<1>1. /\ parent = "report" /\ UNCHANGED <<kids, forks, status, calls, naps, pending, merged>>
      /\ parent' = IF calls < Forks THEN "wait" ELSE "done"
      /\ reports' = Append(reports, status) \/ (status = 0 /\ reports' = reports)
      /\ program # "remove_zombie" /\ Forks' = Forks
      /\ Num("reaped")' = Num("reaped") /\ Num("runs")' = Num("runs") /\ Num("zombie")' = Num("zombie")
      /\ In("none")' = In("none")
  <2>1. Cardinality(Children) = Forks  BY Kin DEF Family
  <2>2. parent' = IF calls < Forks THEN "wait" ELSE "done"  BY <2>1 DEF Report
  <2>. QED  BY <2>2 DEF Report, Family, Forks, Num, In, Children
<1>2. reports \in Seq(0..2) /\ status \in 0..2 /\ calls \in 0..2 /\ Forks \in 1..2
  BY DEF ReapTypeOK, Forks
<1>3. /\ Append(reports, status) \in Seq(0..2)
      /\ \A n \in DOMAIN Append(reports, status) :
           \/ n = Len(reports) + 1 /\ Append(reports, status)[n] = status
           \/ n \in DOMAIN reports /\ Append(reports, status)[n] = reports[n]
  BY <1>2
<1>4. ReapTypeOK'  BY <1>1, <1>2, <1>3 DEF ReapTypeOK
<1>5. Family'  BY <1>1, <1>2 DEF Family
<1>6. Told'
  <2>1. parent' # "report"  BY <1>1
  <2>2. CASE reports' = Append(reports, status)
    BY <1>1, <1>3, <2>1, <2>2 DEF Told
  <2>3. CASE status = 0 /\ reports' = reports
    BY <1>1, <2>1, <2>3 DEF Told
  <2>. QED  BY <1>1, <2>2, <2>3
<1>. QED  BY <1>4, <1>5, <1>6

LEMMA Handling ==
  ASSUME ReapInv, ReadProc, UNCHANGED program
  PROVE  ReapInv'
<1>. USE DEF ReapInv
<1>1. PICK k \in Children : Collect(k) /\ reports' = Append(reports, k)  BY DEF ReadProc
<1>2. /\ pending /\ parent # "done" /\ pending' = FALSE
      /\ naps' \in (IF parent = "nap" THEN {naps, naps + 1} ELSE {naps})
      /\ parent' = IF parent = "nap" /\ naps' >= MaxNaps THEN "done" ELSE parent
      /\ UNCHANGED <<forks, calls, merged>> /\ program = "remove_zombie"
  BY DEF ReadProc, Family
<1>3. naps \in 0..MaxNaps /\ naps' \in 0..MaxNaps /\ reports \in Seq(0..2)
  BY <1>2, ReapAssumption DEF Family, ReapTypeOK
<1>4. k \in 1..2 /\ status' = k /\ kids' \in [1..2 -> {"none", "runs", "zombie", "reaped"}]
  BY <1>1, Collecting
<1>5. /\ Append(reports, k) \in Seq(0..2)
      /\ \A n \in DOMAIN Append(reports, k) :
           \/ n = Len(reports) + 1 /\ Append(reports, k)[n] = k
           \/ n \in DOMAIN reports /\ Append(reports, k)[n] = reports[n]
  BY <1>3, <1>4
<1>6. ReapTypeOK'
  <2>1. reports' \in Seq(0..2) /\ status' \in 0..2  BY <1>1, <1>4, <1>5
  <2>. QED  BY <1>2, <1>3, <1>4, <2>1 DEF ReapTypeOK
<1>7. Num("zombie") \in 0..2 /\ merged \in 0..1  BY Kin DEF Family, ReapTypeOK
<1>8. Family'  BY <1>1, <1>2, <1>3, <1>7, Collecting, ReapAssumption DEF Family
<1>9. Told'
  <2>1. \A n \in DOMAIN reports : reports[n] # k  BY <1>1, <1>4, Collecting DEF Told
  <2>2. parent' # "report"  BY <1>2 DEF Family
  <2>. QED  BY <1>1, <1>2, <1>3, <1>4, <1>5, <2>1, <2>2, Collecting DEF Told, ReapTypeOK
<1>. QED  BY <1>6, <1>8, <1>9

LEMMA Napping ==
  ASSUME ReapInv, NapOver, UNCHANGED program
  PROVE  ReapInv'
<1>. USE DEF ReapInv
<1>1. /\ parent = "nap" /\ naps' = naps + 1 /\ naps < MaxNaps /\ naps \in 0..MaxNaps
      /\ parent' = IF naps + 1 >= MaxNaps THEN "done" ELSE parent
      /\ UNCHANGED <<kids, forks, status, reports, calls, pending, merged>>
      /\ program = "remove_zombie" /\ Forks' = Forks
      /\ Num("reaped")' = Num("reaped") /\ Num("runs")' = Num("runs") /\ Num("zombie")' = Num("zombie")
      /\ In("none")' = In("none")
  BY DEF NapOver, Family, ReapTypeOK, Forks, Num, In, Children
<1>2. ReapTypeOK'  BY <1>1, ReapAssumption DEF ReapTypeOK
<1>3. Family'  BY <1>1, ReapAssumption DEF Family
<1>4. Told'  BY <1>1 DEF Told
<1>. QED  BY <1>2, <1>3, <1>4

LEMMA ReapStep == ReapInv /\ ReapNext /\ UNCHANGED program => ReapInv'
BY Forking, Exiting, Waiting, Reporting, Handling, Napping DEF ReapNext, Parent

LEMMA ReapStutter == ReapInv /\ UNCHANGED <<reap, program>> => ReapInv'
<1>. SUFFICES ASSUME ReapInv, UNCHANGED <<reap, program>> PROVE ReapInv'  OBVIOUS
<1>1. UNCHANGED <<parent, kids, forks, status, reports, calls, naps, pending, merged, program>>
  BY DEF reap
<1>. QED
  BY <1>1 DEF ReapInv, ReapTypeOK, Family, Told, Num, Forks, In, Children

LEMMA ReapEnds == ReapInv => Reaped
<1>. SUFFICES ASSUME ReapInv PROVE Reaped  OBVIOUS
<1>. USE DEF ReapInv
<1>1. /\ Children = 1..Forks /\ Forks \in 1..2
      /\ Cardinality(In("zombie")) = Num("zombie")
      /\ Num("runs") \in 0..2 /\ Num("zombie") \in 0..2 /\ Num("reaped") \in 0..2
  BY Kin DEF Family, Forks
<1>2. ASSUME NEW n \in DOMAIN reports, reports[n] # 0 PROVE reports[n] \in In("reaped")
  <2>1. kids[reports[n]] = "reaped"  BY <1>2 DEF Told
  <2>2. reports[n] \in 1..2  BY <1>2 DEF ReapTypeOK
  <2>3. reports[n] \in Children  BY <1>1, <2>1, <2>2 DEF Family, Forks
  <2>. QED  BY <2>1, <2>3 DEF In
<1>3. \A n, m \in DOMAIN reports : reports[n] = reports[m] => n = m \/ In("none") # {}
  BY DEF Told
<1>4. program = "remove_zombie" =>
        Cardinality(In("zombie")) <= merged + (IF pending THEN 1 ELSE 0) \/ parent = "done"
  BY <1>1 DEF Family, ReapTypeOK
<1>5. parent = "done" /\ program # "remove_zombie" => In("zombie") \cup In("runs") = {}
  <2>1. SUFFICES ASSUME parent = "done", program # "remove_zombie"
                 PROVE  \A k \in Children : kids[k] # "zombie" /\ kids[k] # "runs"
    BY DEF In
  <2>2. Num("reaped") = Forks \/ Num("runs") + Num("zombie") = 0
    BY <2>1 DEF Family
  <2>. QED  BY <1>1, <2>2 DEF Num, Forks, Family
<1>. QED  BY <1>2, <1>3, <1>4, <1>5 DEF Reaped

-----------------------------------------------------------------------------
(* Pipes. *)

\* One message at most is in the pipe, and whose it is tells where both are.
PipesInv ==
  /\ PipesTypeOK
  /\ kpc = "none" <=> ppc = "fork"
  /\ inpipe \in {<<>>, <<"child">>, <<"parent">>}
  /\ inpipe = <<"child">> => ppc = "read" /\ kpc \in {"read", "done", "dead"} /\ kread = "nothing"
  /\ inpipe = <<"parent">> =>
       ppc = "done" /\ pread = "child" /\ kpc \in {"read", "dead"} /\ kread = "nothing"
  /\ kpc = "read" => program = "pipe_2" /\ kread = "nothing"
  /\ kpc = "write" => ppc = "read" /\ inpipe = <<>> /\ kread = "nothing"
  /\ kpc = "done" /\ program = "pipe_2" => kread # "nothing"
  /\ ppc \in {"fork", "read"} => pread = "nothing"
  /\ ppc = "reply" => pread = "child" /\ program = "pipe_2" /\ inpipe = <<>>
       /\ kread = "nothing" /\ kpc \in {"read", "dead"}
  /\ ppc = "read" /\ inpipe = <<>> => kpc # "read" /\ (kpc = "done" => kread = "child")
  /\ kread = "child" => program = "pipe_2" /\ pread = "nothing" /\ ppc = "read" /\ inpipe = <<>>
  /\ kread = "parent" => pread = "child"
  /\ pread = "eof" => program = "socketpair" /\ kpc = "dead"

\* What is written to an empty pipe, and read from it.
LEMMA OneMessage ==
  /\ \A m \in {"child", "parent"} :
       Append(<<>>, m) = <<m>> /\ Head(<<m>>) = m /\ Tail(<<m>>) = <<>> /\ <<m>> # <<>>
  /\ <<"child">> # <<"parent">>
OBVIOUS

LEMMA PipesStart == PipesFresh => PipesInv
BY OneMessage DEF PipesFresh, PipesInv, PipesTypeOK, Ends

LEMMA PipesStep == PipesInv /\ PipesNext /\ UNCHANGED program => PipesInv'
<1>. SUFFICES ASSUME PipesInv, PipesNext, UNCHANGED program PROVE PipesInv'  OBVIOUS
<1>. USE DEF PipesInv, PipesTypeOK, Ends
<1>1. CASE ForkKid  BY <1>1, OneMessage DEF ForkKid
<1>2. CASE KidWrites  BY <1>2, OneMessage DEF KidWrites
<1>3. CASE KidReads  BY <1>3, OneMessage DEF KidReads
<1>4. CASE KidDies  BY <1>4, OneMessage DEF KidDies
<1>5. CASE ParentReads
  <2>1. ppc = "read" /\ ppc' = AfterRead /\ UNCHANGED <<kpc, kread>>  BY <1>5 DEF ParentReads
  <2>2. /\ program = "pipe_1" => ppc' = "done"
        /\ program = "pipe_2" => ppc' = "reply"
        /\ ppc' \in {"done", "reply", "reap"} /\ (ppc' = "reply" => program = "pipe_2")
    BY <2>1 DEF AfterRead
  <2>3. CASE inpipe # <<>> /\ pread' = Head(inpipe) /\ inpipe' = Tail(inpipe)
    BY <2>1, <2>2, <2>3, OneMessage
  <2>4. CASE inpipe = <<>> /\ program = "socketpair" /\ kpc \in Ends /\ pread' = "eof" /\ UNCHANGED inpipe
    BY <2>1, <2>2, <2>4, OneMessage
  <2>. QED  BY <1>5, <2>3, <2>4 DEF ParentReads
<1>6. CASE ParentReplies  BY <1>6, OneMessage DEF ParentReplies
<1>7. CASE ParentReaps  BY <1>7, OneMessage DEF ParentReaps
<1>. QED  BY <1>1, <1>2, <1>3, <1>4, <1>5, <1>6, <1>7 DEF PipesNext

LEMMA PipesStutter == PipesInv /\ UNCHANGED <<pipes, program>> => PipesInv'
BY DEF pipes, PipesInv, PipesTypeOK, Ends

LEMMA PipesEnds == PipesInv => Exchanged
BY OneMessage DEF PipesInv, Exchanged

-----------------------------------------------------------------------------
(* Families, in the run that has the programs of both modules. *)

\* For any number of naps: no child is reported twice or left behind but for
\* the signals that merged and the forks that failed, and each side of a pipe
\* reads what the other wrote, but for the cases the code leaves open
\* (wait.c:31-41, remove_zombie.c:11, pipe_2.c:20-29).
THEOREM FamilySafe == PairsSpec => []FamilySound
<1>1. PairsInit => ReapInv /\ PipesInv  BY ReapStart, PipesStart DEF PairsInit
<1>2. ReapInv /\ PipesInv /\ [PairsNext]_<<xfer, split, reap, pipes, counter, handoff, program>>
        => (ReapInv /\ PipesInv)'
  <2>. SUFFICES ASSUME ReapInv, PipesInv, [PairsNext]_<<xfer, split, reap, pipes, counter, handoff, program>>
                PROVE  ReapInv' /\ PipesInv'
    OBVIOUS
  <2>1. UNCHANGED program  BY DEF PairsNext
  <2>2. (ReapNext /\ UNCHANGED pipes) \/ (PipesNext /\ UNCHANGED reap) \/ UNCHANGED <<reap, pipes>>
    BY DEF PairsNext
  <2>. QED  BY <2>1, <2>2, ReapStep, ReapStutter, PipesStep, PipesStutter
<1>3. ReapInv /\ PipesInv => FamilySound  BY ReapEnds, PipesEnds DEF FamilySound
<1>. QED  BY <1>1, <1>2, <1>3, PTL DEF PairsSpec

-----------------------------------------------------------------------------
(* SplitClient. *)

\* Every message printed is the one before or the next.
OneMore(s) == \A n \in DOMAIN s :
  LET prev == IF n = 1 THEN 0 ELSE s[n - 1] IN s[n] \in {prev, prev + 1}

\* The repetitions that can have happened: the reset that was reported, and
\* the SIGCHLD that was delivered.
Again ==
  (IF svr = "broken" THEN 1 ELSE 0)
    + (IF wpc \in {"done", "dead"} /\ ~sigchld THEN 1 ELSE 0)

Printed ==
  /\ OneMore(shown)
  /\ Len(shown) - Buffer(shown) >= 0
  /\ Len(shown) - Buffer(shown) <= IF Multi THEN Again ELSE 0
  /\ rpc = "blocked" => Unshown = 0

\* Who has the socket open, and what the reader that left had seen.
Holding ==
  /\ sigchld => Multi /\ wpc \in {"done", "dead"}
  /\ Multi =>
       /\ rpc # "dead"
       /\ holds = (IF wpc \in {"type", "close"} THEN 1 ELSE 0) + (IF rpc = "done" THEN 0 ELSE 1)
  /\ ~Multi /\ wpc \in {"type", "close"} /\ rpc \notin {"done", "dead"} => holds = 1
  /\ rpc \in {"close", "done"} /\ (Multi \/ wpc = "type") =>
       took = told /\ Unshown = 0 /\ svr # "up"

SplitInv == SplitTypeOK /\ Printed /\ Holding

LEMMA Ending ==
  ASSUME NEW p \in PeerStates
  PROVE  /\ \A b \in BOOLEAN : CloseBy(p, b) \in PeerStates
         /\ p = "up" => \A b \in BOOLEAN : CloseBy(p, b) \in {"gone", "rst"}
         /\ AfterWrite(p) \subseteq PeerStates
         /\ p # "up" => "up" \notin AfterWrite(p)
BY DEF PeerStates, CloseBy, AfterWrite

LEMMA Showing ==
  ASSUME NEW b \in Nat, NEW s \in Seq(0..b), NEW x \in 0..b
  PROVE  /\ Append(s, x) \in Seq(0..b) /\ Len(Append(s, x)) = Len(s) + 1
         /\ Buffer(Append(s, x)) = x /\ Buffer(s) \in 0..b /\ Len(s) \in Nat
         /\ OneMore(s) /\ x \in {Buffer(s), Buffer(s) + 1} => OneMore(Append(s, x))
<1>1. /\ Append(s, x) \in Seq(0..b) /\ Len(Append(s, x)) = Len(s) + 1 /\ Len(s) \in Nat
      /\ Append(s, x)[Len(s) + 1] = x
      /\ \A n \in 1..Len(s) : Append(s, x)[n] = s[n]
      /\ DOMAIN Append(s, x) = 1..(Len(s) + 1) /\ DOMAIN s = 1..Len(s)
  OBVIOUS
<1>2. Append(s, x) # <<>>  BY <1>1
<1>3. Buffer(Append(s, x)) = x  BY <1>1, <1>2 DEF Buffer
<1>4. Buffer(s) \in 0..b /\ Buffer(s) = IF Len(s) = 0 THEN 0 ELSE s[Len(s)]
  BY <1>1 DEF Buffer
<1>5. ASSUME OneMore(s), x \in {Buffer(s), Buffer(s) + 1} PROVE OneMore(Append(s, x))
  <2>. DEFINE t == Append(s, x)
  <2>. SUFFICES ASSUME NEW n \in DOMAIN t
                PROVE  t[n] \in {IF n = 1 THEN 0 ELSE t[n - 1], (IF n = 1 THEN 0 ELSE t[n - 1]) + 1}
    BY DEF OneMore
  <2>. n \in 1..(Len(s) + 1)  BY <1>1
  <2>1. CASE n \in 1..Len(s)
    <3>1. s[n] \in {IF n = 1 THEN 0 ELSE s[n - 1], (IF n = 1 THEN 0 ELSE s[n - 1]) + 1}
      BY <1>1, <1>5, <2>1 DEF OneMore
    <3>2. t[n] = s[n] /\ (n # 1 => t[n - 1] = s[n - 1])  BY <1>1, <2>1
    <3>. QED  BY <3>1, <3>2
  <2>2. CASE n = Len(s) + 1
    <3>1. t[n] = x  BY <1>1, <2>2
    <3>2. n # 1 => n - 1 \in 1..Len(s) /\ n - 1 = Len(s) /\ Len(s) # 0  BY <1>1, <2>2
    <3>3. n # 1 => t[n - 1] = Buffer(s)  BY <1>1, <1>4, <3>2
    <3>4. n = 1 => Buffer(s) = 0  BY <1>1, <1>4, <2>2
    <3>. QED  BY <1>5, <3>1, <3>3, <3>4
  <2>. QED  BY <1>1, <2>1, <2>2
<1>. QED  BY <1>1, <1>3, <1>4, <1>5

LEMMA SplitStart == SplitFresh => SplitInv
<1>. SUFFICES ASSUME SplitFresh PROVE SplitInv  OBVIOUS
<1>1. SplitTypeOK
  <2>1. shown \in Seq(0..took)  BY DEF SplitFresh
  <2>5. sigchld \in BOOLEAN  BY DEF SplitFresh
  <2>2. holds \in 0..2  BY DEF SplitFresh
  <2>3. typed \in 0..MaxTyped /\ heard \in 0..typed /\ told \in 0..MaxTold /\ took \in 0..told
    BY SplitAssumption DEF SplitFresh
  <2>4. /\ wpc = "type" /\ rpc = "call" /\ svr = "up" /\ user = "up"
    BY DEF SplitFresh
  <2>. QED  BY <2>1, <2>2, <2>3, <2>4, <2>5 DEF SplitTypeOK, PeerStates
<1>2. Printed  BY DEF SplitFresh, Printed, OneMore, Buffer, Unshown, Again
<1>3. Holding  BY DEF SplitFresh, Holding
<1>. QED  BY <1>1, <1>2, <1>3 DEF SplitInv

\* Closing a descriptor.
LEMMA Dropping ==
  ASSUME SplitTypeOK, NEW waiting, NEW read, Drop(waiting, read)
  PROVE  /\ user' \in PeerStates /\ holds' \in 0..2
         /\ holds' = IF holds = 0 THEN 0 ELSE holds - 1
<1>1. CloseBy(user, read < told) \in PeerStates
  <2>1. (read < told) \in BOOLEAN  OBVIOUS
  <2>. QED  BY <2>1, Ending, Zenon DEF SplitTypeOK
<1>. QED  BY <1>1 DEF Drop, SplitTypeOK

LEMMA Numbers ==
  ASSUME SplitTypeOK
  PROVE  /\ took \in Nat /\ told \in Nat /\ took <= told /\ shown \in Seq(0..took)
         /\ Buffer(shown) \in 0..took /\ Len(shown) \in Nat /\ holds \in 0..2
<1>1. took \in Nat /\ told \in Nat /\ took <= told /\ shown \in Seq(0..took) /\ holds \in 0..2
  BY SplitAssumption DEF SplitTypeOK
<1>2. Append(shown, 0) \in Seq(0..took) /\ Buffer(shown) \in 0..took /\ Len(shown) \in Nat
  BY <1>1, 0 \in 0..took, Showing
<1>. QED  BY <1>1, <1>2

\* The writer's and the server's steps print nothing.
LEMMA OthersKeep ==
  ASSUME SplitInv, UNCHANGED program,
         \/ Type \/ TypeDies \/ Quit \/ WriterCloses
         \/ Hears \/ Tells \/ ServesToEnd \/ Leaves
  PROVE  SplitInv'
<1>. USE DEF SplitInv
<1>1. UNCHANGED <<took, shown>>
  BY DEF Type, TypeDies, Quit, WriterCloses, Hears, Tells, ServesToEnd, Leaves
<1>2. (Multi' <=> Multi) /\ Unshown' = Unshown
  BY <1>1 DEF Multi, Unshown
<1>3. CASE Type
  <2>1. PICK q \in AfterWrite(svr) : svr' = q  BY <1>3 DEF Type
  <2>2. q \in PeerStates /\ svr # "broken" /\ (svr # "up" => svr' # "up")
    BY <1>3, <2>1, Ending DEF Type, SplitTypeOK, RaisesSigpipe
  <2>3. SplitTypeOK'  BY <1>3, <2>1, <2>2, SplitAssumption DEF Type, SplitTypeOK
  <2>4. Printed'  BY <1>1, <1>2, <1>3, <2>2, Numbers DEF Type, Printed, Again
  <2>5. Holding'  BY <1>1, <1>2, <1>3, <2>2 DEF Type, Holding
  <2>. QED  BY <2>3, <2>4, <2>5
<1>4. CASE TypeDies
  <2>1. /\ wpc = "type" /\ holds > 0 /\ wpc' = "dead"
        /\ user' \in PeerStates /\ holds' \in 0..2 /\ holds' = holds - 1
        /\ UNCHANGED <<typed, heard, told, svr>>
        /\ Multi => (sigchld' <=> rpc # "done") /\ sigchld' \in BOOLEAN /\ rpc' = rpc
        /\ ~Multi => rpc' = "dead" /\ sigchld' = sigchld
    <3>1. wpc = "type" /\ holds > 0 /\ wpc' = "dead" /\ UNCHANGED <<typed, heard, told, svr>>
      BY <1>4 DEF TypeDies
    <3>2. Drop(FALSE, took)  BY <1>4 DEF TypeDies
    <3>3. user' \in PeerStates /\ holds' \in 0..2 /\ holds' = holds - 1
      <4>1. /\ user' \in PeerStates /\ holds' \in 0..2
            /\ holds' = IF holds = 0 THEN 0 ELSE holds - 1
        BY <3>2, Dropping, Zenon
      <4>. QED  BY <3>1, <4>1, Numbers
    <3>4. Multi => (sigchld' <=> rpc # "done") /\ sigchld' \in BOOLEAN /\ rpc' = rpc
      BY <1>4 DEF TypeDies
    <3>5. ~Multi => rpc' = "dead" /\ sigchld' = sigchld  BY <1>4 DEF TypeDies
    <3>. QED  BY <3>1, <3>3, <3>4, <3>5
  <2>2. ~sigchld  BY <2>1 DEF Holding
  <2>3. SplitTypeOK'  BY <1>1, <2>1 DEF SplitTypeOK
  <2>4. Printed'  BY <1>1, <1>2, <2>1, Numbers DEF Printed, Again
  <2>5. Holding'  BY <1>1, <1>2, <2>1, <2>2, Numbers DEF Holding
  <2>. QED  BY <2>3, <2>4, <2>5
<1>5. CASE Quit
  <2>1. wpc = "type" /\ wpc' = "close" /\ user' \in {user, "fin"}
        /\ UNCHANGED <<rpc, holds, typed, heard, told, svr, sigchld>>
    BY <1>5 DEF Quit
  <2>2. SplitTypeOK'  BY <1>1, <2>1 DEF SplitTypeOK, PeerStates
  <2>3. Printed'  BY <1>1, <1>2, <2>1, Numbers DEF Printed, Again
  <2>4. Holding'  BY <1>1, <1>2, <2>1 DEF Holding
  <2>. QED  BY <2>2, <2>3, <2>4
<1>6. CASE WriterCloses
  <2>1. /\ wpc = "close" /\ wpc' = "done"
        /\ user' \in PeerStates /\ holds' \in 0..2 /\ holds' = IF holds = 0 THEN 0 ELSE holds - 1
        /\ UNCHANGED <<rpc, typed, heard, told, svr>>
        /\ (sigchld' <=> Multi /\ rpc # "done") /\ sigchld' \in BOOLEAN
    BY <1>6, Dropping DEF WriterCloses
  <2>2. SplitTypeOK'  BY <1>1, <2>1 DEF SplitTypeOK
  <2>3. Printed'  BY <1>1, <1>2, <2>1, Numbers DEF Printed, Again
  <2>4. Holding'  BY <1>1, <1>2, <2>1, Numbers DEF Holding
  <2>. QED  BY <2>2, <2>3, <2>4
<1>7. CASE Hears \/ Tells
  <2>1. /\ UNCHANGED <<wpc, rpc, holds, typed, svr, user, sigchld>> /\ svr = "up"
        /\ heard' \in 0..typed /\ told' \in 0..MaxTold /\ told' \in {told, told + 1}
    BY <1>7, SplitAssumption DEF Hears, Tells, SplitTypeOK
  <2>2. SplitTypeOK'  BY <1>1, <2>1, Numbers DEF SplitTypeOK
  <2>3. Printed'  BY <1>1, <1>2, <2>1, Numbers DEF Printed, Again
  <2>4. Holding'  BY <1>1, <1>2, <2>1 DEF Holding
  <2>. QED  BY <2>2, <2>3, <2>4
<1>8. CASE ServesToEnd \/ Leaves
  <2>1. /\ UNCHANGED <<wpc, rpc, holds, typed, heard, told, user, sigchld>> /\ svr = "up"
        /\ svr' = CloseBy(svr, heard < typed)
    BY <1>8 DEF ServesToEnd, Leaves
  <2>2. svr' \in {"gone", "rst"}
    <3>1. (heard < typed) \in BOOLEAN  OBVIOUS
    <3>. QED  BY <2>1, <3>1, Ending, Zenon DEF SplitTypeOK
  <2>3. SplitTypeOK'  BY <1>1, <2>1, <2>2 DEF SplitTypeOK, PeerStates
  <2>4. Printed'  BY <1>1, <1>2, <2>1, <2>2, Numbers DEF Printed, Again
  <2>5. Holding'  BY <1>1, <1>2, <2>1, <2>2 DEF Holding
  <2>. QED  BY <2>3, <2>4, <2>5
<1>. QED  BY <1>3, <1>4, <1>5, <1>6, <1>7, <1>8

LEMMA ReaderKeeps ==
  ASSUME SplitInv, UNCHANGED program, Reader
  PROVE  SplitInv'
<1>. USE DEF SplitInv
<1>1. (Multi' <=> Multi)  BY DEF Multi
<1>2. CASE Show
  <2>1. PICK x \in 1..took : x = Buffer(shown) + 1
    BY <1>2, Numbers DEF Show, Unshown
  <2>2. /\ rpc = "call" /\ shown' = Append(shown, x)
        /\ UNCHANGED <<wpc, rpc, holds, typed, heard, told, took, svr, user, sigchld>>
    BY <1>2, <2>1 DEF Show
  <2>3. /\ shown' \in Seq(0..took) /\ Len(shown') = Len(shown) + 1 /\ Buffer(shown') = x
        /\ OneMore(shown')
    BY <2>1, <2>2, Numbers, Showing DEF Printed
  <2>4. SplitTypeOK'  BY <2>2, <2>3 DEF SplitTypeOK
  <2>5. Printed'  BY <1>1, <2>1, <2>2, <2>3, Numbers DEF Printed, Again
  <2>6. Holding'  BY <1>1, <2>2 DEF Holding
  <2>. QED  BY <2>4, <2>5, <2>6
<1>3. CASE CallRead
  <2>1. /\ rpc = "call" /\ Unshown = 0 /\ rpc' = IF holds = 0 THEN "close" ELSE "blocked"
        /\ UNCHANGED <<wpc, holds, typed, heard, told, took, shown, svr, user, sigchld>>
        /\ Unshown' = Unshown
    BY <1>3 DEF CallRead, Unshown
  <2>2. SplitTypeOK'  BY <2>1 DEF SplitTypeOK
  <2>3. Printed'  BY <1>1, <2>1 DEF Printed, Again
  <2>4. holds = 0 => ~Multi /\ wpc # "type"  BY <2>1, Numbers DEF Holding
  <2>5. Holding'  BY <1>1, <2>1, <2>4 DEF Holding
  <2>. QED  BY <2>2, <2>3, <2>5
<1>4. CASE ReadTold
  <2>1. /\ rpc = "blocked" /\ took < told /\ rpc' = "call"
        /\ UNCHANGED <<wpc, holds, typed, heard, told, shown, svr, sigchld>>
        /\ took' \in (took + 1)..told
    BY <1>4, Numbers DEF ReadTold
  <2>2. user' \in PeerStates
    <3>1. (took' < told) \in BOOLEAN  OBVIOUS
    <3>2. CloseBy(user, took' < told) \in PeerStates  BY <3>1, Ending, Zenon DEF SplitTypeOK
    <3>. QED  BY <1>4, <3>2 DEF ReadTold, SplitTypeOK
  <2>3. shown' \in Seq(0..took')
    <3>1. 0..took \subseteq 0..took'  BY <2>1, Numbers
    <3>. QED  BY <2>1, <3>1, Numbers
  <2>4. SplitTypeOK'  BY <2>1, <2>2, <2>3, Numbers DEF SplitTypeOK
  <2>5. Printed'  BY <1>1, <2>1 DEF Printed, Again
  <2>6. Holding'  BY <1>1, <2>1 DEF Holding
  <2>. QED  BY <2>4, <2>5, <2>6
<1>5. ASSUME rpc = "blocked", PrintAgain, took' = took
      PROVE  /\ shown' \in Seq(0..took) /\ Len(shown') = Len(shown) + 1
             /\ Buffer(shown') = Buffer(shown) /\ OneMore(shown') /\ rpc' = "call"
             /\ Unshown' = Unshown
  <2>1. PICK x \in 0..took : x = Buffer(shown)  BY Numbers
  <2>2. shown' = Append(shown, x) /\ rpc' = "call"  BY <1>5, <2>1 DEF PrintAgain
  <2>3. /\ shown' \in Seq(0..took) /\ Len(shown') = Len(shown) + 1 /\ Buffer(shown') = x
        /\ OneMore(shown')
    BY <2>1, <2>2, Numbers, Showing DEF Printed
  <2>. QED  BY <1>5, <2>1, <2>2, <2>3 DEF Unshown
<1>6. CASE ReadNothing \/ ReadReset
  <2>1. /\ rpc = "blocked" /\ took = told /\ Unshown = 0
        /\ UNCHANGED <<wpc, holds, typed, heard, told, took, user, sigchld>>
        /\ svr' \in PeerStates /\ svr # "up" /\ svr' # "up"
    BY <1>6 DEF ReadNothing, ReadReset, Printed, AtEof, PeerStates, SplitTypeOK
  <2>2. CASE Multi /\ ReadReset
    <3>1. svr = "rst" /\ svr' = "broken" /\ PrintAgain  BY <2>2 DEF ReadReset
    <3>2. SplitTypeOK'  BY <1>5, <2>1, <3>1 DEF SplitTypeOK
    <3>3. Printed'  BY <1>1, <1>5, <2>1, <2>2, <3>1, Numbers DEF Printed, Again
    <3>4. Holding'  BY <1>1, <1>5, <2>1, <2>2, <3>1 DEF Holding
    <3>. QED  BY <3>2, <3>3, <3>4
  <2>3. CASE ~(Multi /\ ReadReset)
    <3>1. shown' = shown /\ rpc' = "close" /\ (svr = "broken" => svr' = "broken")
      BY <1>6, <2>3 DEF ReadNothing, ReadReset
    <3>2. Unshown' = Unshown  BY <2>1, <3>1 DEF Unshown
    <3>3. SplitTypeOK'  BY <2>1, <3>1 DEF SplitTypeOK
    <3>4. Printed'  BY <1>1, <2>1, <3>1, <3>2, Numbers DEF Printed, Again
    <3>5. Holding'  BY <1>1, <2>1, <3>1, <3>2 DEF Holding
    <3>. QED  BY <3>3, <3>4, <3>5
  <2>. QED  BY <2>2, <2>3
<1>7. CASE Sigchld
  <2>1. /\ sigchld /\ rpc # "done" /\ sigchld' = FALSE /\ Multi /\ wpc \in {"done", "dead"}
        /\ UNCHANGED <<wpc, holds, typed, heard, told, took, svr, user>>
    BY <1>7 DEF Sigchld, Holding
  <2>2. CASE rpc = "blocked" /\ PrintAgain
    <3>1. SplitTypeOK'  BY <1>5, <2>1, <2>2 DEF SplitTypeOK
    <3>2. Printed'  BY <1>1, <1>5, <2>1, <2>2, Numbers DEF Printed, Again
    <3>3. Holding'  BY <1>1, <1>5, <2>1, <2>2 DEF Holding
    <3>. QED  BY <3>1, <3>2, <3>3
  <2>3. CASE UNCHANGED <<rpc, shown>>
    <3>1. Unshown' = Unshown  BY <2>1, <2>3 DEF Unshown
    <3>2. SplitTypeOK'  BY <2>1, <2>3 DEF SplitTypeOK
    <3>3. Printed'  BY <1>1, <2>1, <2>3, <3>1, Numbers DEF Printed, Again
    <3>4. Holding'  BY <1>1, <2>1, <2>3, <3>1 DEF Holding
    <3>. QED  BY <3>2, <3>3, <3>4
  <2>. QED  BY <1>7, <2>2, <2>3 DEF Sigchld
<1>8. CASE ReaderCloses
  <2>1. /\ rpc = "close" /\ rpc' = "done" /\ sigchld' = FALSE
        /\ user' \in PeerStates /\ holds' \in 0..2 /\ holds' = IF holds = 0 THEN 0 ELSE holds - 1
        /\ UNCHANGED <<wpc, typed, heard, told, took, shown, svr>>
        /\ Unshown' = Unshown
    BY <1>8, Dropping DEF ReaderCloses, Unshown
  <2>2. SplitTypeOK'  BY <2>1 DEF SplitTypeOK
  <2>3. Printed'  BY <1>1, <2>1, Numbers DEF Printed, Again
  <2>4. Holding'  BY <1>1, <2>1, Numbers DEF Holding
  <2>. QED  BY <2>2, <2>3, <2>4
<1>. QED  BY <1>2, <1>3, <1>4, <1>6, <1>7, <1>8 DEF Reader

\* The inductive invariant of both clients.
THEOREM SplitSafe == SplitSpec => []SplitInv
<1>1. SplitInit => SplitInv  BY SplitStart DEF SplitInit
<1>2. SplitInv /\ [SplitNext /\ UNCHANGED program]_<<split, program>> => SplitInv'
  <2>. SUFFICES ASSUME SplitInv, [SplitNext /\ UNCHANGED program]_<<split, program>>
                PROVE  SplitInv'
    OBVIOUS
  <2>1. CASE SplitNext /\ UNCHANGED program
    BY <2>1, OthersKeep, ReaderKeeps DEF SplitNext
  <2>2. CASE UNCHANGED <<split, program>>
    BY <2>2 DEF split, SplitInv, SplitTypeOK, Printed, Holding, OneMore, Again, Unshown, Multi
  <2>. QED  BY <2>1, <2>2
<1>. QED  BY <1>1, <1>2, PTL DEF SplitSpec

LEMMA SplitEnds == SplitInv => AllPrinted
<1>. SUFFICES ASSUME SplitInv PROVE AllPrinted  OBVIOUS
<1>. USE DEF SplitInv
<1>1. ASSUME NEW n \in DOMAIN shown
      PROVE  Buffer(SubSeq(shown, 1, n - 1)) = IF n = 1 THEN 0 ELSE shown[n - 1]
  <2>. DEFINE t == SubSeq(shown, 1, n - 1)
  <2>1. n \in 1..Len(shown) /\ Len(shown) \in Nat  BY <1>1, Numbers
  <2>2. Len(t) = n - 1 /\ \A k \in 1..(n - 1) : t[k] = shown[k]
    BY <2>1, Numbers
  <2>3. CASE n = 1  BY <2>1, <2>2, <2>3 DEF Buffer
  <2>4. CASE n # 1
    <3>1. t # <<>>  BY <2>1, <2>2, <2>4
    <3>. QED  BY <2>1, <2>2, <2>4, <3>1 DEF Buffer
  <2>. QED  BY <2>3, <2>4
<1>2. \A n \in DOMAIN shown : n \notin Repeats(shown) =>
        shown[n] = Buffer(SubSeq(shown, 1, n - 1)) + 1
  BY <1>1 DEF Printed, OneMore, Repeats
<1>3. Len(shown) - Buffer(shown) \in 0..(IF Multi THEN 2 ELSE 0)
  BY Numbers DEF Printed, Again
<1>4. rpc = "done" /\ (Multi \/ wpc = "type") => Buffer(shown) = told
  BY Numbers DEF Holding, Unshown
<1>. QED  BY <1>2, <1>3, <1>4 DEF AllPrinted

\* For any number of lines and messages and any server: the messages are
\* printed in order with none left out, one again at most for SIGCHLD and one
\* for a reset, and all of them before the reader ends, if the writer has not
\* closed the stream under it (tcp_echo_multi_proc_client.c:74-81,
\* chat_client.c:64, 88).
THEOREM PrintsAll == SplitSpec => []AllPrinted
BY SplitSafe, SplitEnds, PTL
=============================================================================
