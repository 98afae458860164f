-------------------------- MODULE SchedulerProofs --------------------------
(* Proofs, for every set of pieces and every finite set of peers, of the   *)
(* properties that MCScheduler checks on three peers and three pieces.     *)
EXTENDS Scheduler, FiniteSetTheorems, TLAPS

----------------------------------------------------------------------------
\* The HashMap remove and retain of the code.
LEMMA RestrictProperties ==
    ASSUME NEW f, NEW S
    PROVE  /\ DOMAIN Restrict(f, S) = S
           /\ \A x \in S : Restrict(f, S)[x] = f[x]
           /\ Restrict(f, S) = [x \in S |-> f[x]]
  BY DEF Restrict

----------------------------------------------------------------------------
(* Types *)

LEMMA InitType == Init => TypeOK
<1> SUFFICES ASSUME Init PROVE TypeOK
  OBVIOUS
<1> USE DEF Init
<1>1. DOMAIN holds = {} /\ holds \in [DOMAIN holds -> SUBSET Pieces]
  OBVIOUS
<1>2. DOMAIN inFlight = {} /\ inFlight \in [DOMAIN inFlight -> Peers]
  OBVIOUS
<1>3. rarity \in [Pieces -> Nat] /\ have \subseteq Pieces /\ endgame \in BOOLEAN
  OBVIOUS
<1> QED
  BY <1>1, <1>2, <1>3 DEF TypeOK

LEMMA NextType == TypeOK /\ [Next]_vars => TypeOK'
<1> SUFFICES ASSUME TypeOK, [Next]_vars PROVE TypeOK'
  OBVIOUS
<1> USE DEF TypeOK
<1>1. CASE Register
  <2> PICK p \in Peers \ Registered, bf \in SUBSET Pieces : RegisterPeer(p, bf)
    BY <1>1 DEF Register
  <2>1. /\ DOMAIN holds' = DOMAIN holds \cup {p}
        /\ holds' \in [DOMAIN holds' -> SUBSET Pieces]
    BY DEF RegisterPeer, Insert
  <2> QED
    BY <2>1 DEF RegisterPeer
<1>2. CASE Unregister
  BY <1>2 DEF Unregister, UnregisterPeer, Discounted, Restrict, Registered
<1>3. CASE Announce
  BY <1>3 DEF Announce, PeerHasPiece, Registered
<1>4. CASE Pick
  <2> PICK p \in Peers, i \in Pieces : PickPiece(p, i)
    BY <1>4 DEF Pick
  <2>1. CASE endgame
    BY <2>1 DEF PickPiece
  <2>2. CASE ~endgame
    <3>1. inFlight' = Insert(inFlight, i, p) /\ CheckEndgame /\ UNCHANGED <<have, holds, rarity>>
      BY <2>2 DEF PickPiece
    <3>2. /\ DOMAIN inFlight' \subseteq Pieces
          /\ inFlight' \in [DOMAIN inFlight' -> Peers]
      BY <3>1 DEF Insert
    <3> QED
      BY <3>1, <3>2 DEF CheckEndgame
  <2> QED
    BY <2>1, <2>2
<1>5. CASE Complete
  <2> PICK i \in Missing : PieceCompleted(i)
    BY <1>5 DEF Complete
  <2> QED
    BY DEF PieceCompleted, CheckEndgame, Missing, Restrict
<1>6. CASE Fail
  BY <1>6 DEF Fail, PieceFailed, Restrict, Missing
<1>7. CASE UNCHANGED vars
  BY <1>7 DEF vars
<1> QED
  BY <1>1, <1>2, <1>3, <1>4, <1>5, <1>6, <1>7 DEF Next

\* The five fields of the scheduler keep their types.
THEOREM TypeCorrect == Spec => []TypeOK
  BY InitType, NextType, PTL DEF Spec

----------------------------------------------------------------------------
(* In-flight pieces *)

LEMMA NextInFlightSound == TypeOK /\ InFlightSound /\ [Next]_vars => InFlightSound'
<1> SUFFICES ASSUME TypeOK, InFlightSound, [Next]_vars,
                    NEW j \in DOMAIN inFlight'
             PROVE  (j \in Missing /\ inFlight[j] \in Registered /\ j \in holds[inFlight[j]])'
  BY DEF InFlightSound
<1> USE DEF TypeOK, InFlightSound, Missing, Registered
<1>1. CASE Register
  BY <1>1 DEF Register, RegisterPeer, Insert
<1>2. CASE Unregister
  <2> PICK p \in Peers : UnregisterPeer(p)
    BY <1>2 DEF Unregister
  <2>1. j \in DOMAIN inFlight /\ inFlight[j] # p /\ inFlight'[j] = inFlight[j]
    BY RestrictProperties DEF UnregisterPeer
  <2>2. inFlight[j] \in DOMAIN holds' /\ holds'[inFlight[j]] = holds[inFlight[j]]
    BY <2>1, RestrictProperties DEF UnregisterPeer
  <2> QED
    BY <2>1, <2>2 DEF UnregisterPeer
<1>3. CASE Announce
  BY <1>3 DEF Announce, PeerHasPiece
<1>4. CASE Pick
  <2> PICK p \in Peers, i \in Pieces : PickPiece(p, i)
    BY <1>4 DEF Pick
  <2>1. i \in Missing /\ p \in Registered /\ i \in holds[p] /\ UNCHANGED <<have, holds>>
    BY DEF PickPiece, Rarest, Candidates
  <2>2. CASE inFlight' = inFlight
    BY <2>1, <2>2
  <2>3. CASE inFlight' = Insert(inFlight, i, p)
    <3>1. CASE j = i
      BY <2>1, <2>3, <3>1 DEF Insert
    <3>2. CASE j # i
      <4>1. j \in DOMAIN inFlight /\ inFlight'[j] = inFlight[j]
        BY <2>3, <3>2 DEF Insert
      <4> QED
        BY <2>1, <4>1
    <3> QED
      BY <3>1, <3>2
  <2> QED
    BY <2>2, <2>3 DEF PickPiece
<1>5. CASE Complete
  <2> PICK i \in Missing : PieceCompleted(i)
    BY <1>5 DEF Complete
  <2>1. j \in DOMAIN inFlight \ {i} /\ inFlight'[j] = inFlight[j]
    BY RestrictProperties DEF PieceCompleted
  <2> QED
    BY <2>1 DEF PieceCompleted
<1>6. CASE Fail
  <2> PICK i \in Missing : PieceFailed(i)
    BY <1>6 DEF Fail
  <2>1. j \in DOMAIN inFlight \ {i} /\ inFlight'[j] = inFlight[j]
    BY RestrictProperties DEF PieceFailed
  <2> QED
    BY <2>1 DEF PieceFailed
<1>7. CASE UNCHANGED vars
  BY <1>7 DEF vars
<1> QED
  BY <1>1, <1>2, <1>3, <1>4, <1>5, <1>6, <1>7 DEF Next

\* No stale entry: a piece in flight is missing and asked of a registered
\* peer that holds it.
THEOREM InFlightCorrect == Spec => []InFlightSound
<1>1. Init => InFlightSound
  BY DEF Init, InFlightSound
<1> QED
  BY <1>1, TypeCorrect, NextInFlightSound, PTL DEF Spec

----------------------------------------------------------------------------
(* Endgame *)

LEMMA NextEndgameDetected ==
  TypeOK /\ EndgameDetected /\ [Next]_vars => EndgameDetected'
<1> SUFFICES ASSUME TypeOK, EndgameDetected, [Next]_vars PROVE EndgameDetected'
  OBVIOUS
<1> USE DEF EndgameDetected, Missing
<1>1. CASE Register
  BY <1>1 DEF Register, RegisterPeer
<1>2. CASE Unregister
  BY <1>2, RestrictProperties DEF Unregister, UnregisterPeer
<1>3. CASE Announce
  BY <1>3 DEF Announce, PeerHasPiece
<1>4. CASE Pick
  BY <1>4 DEF Pick, PickPiece, CheckEndgame, TypeOK
<1>5. CASE Complete
  BY <1>5 DEF Complete, PieceCompleted, CheckEndgame, TypeOK
<1>6. CASE Fail
  BY <1>6, RestrictProperties DEF Fail, PieceFailed
<1>7. CASE UNCHANGED vars
  BY <1>7 DEF vars
<1> QED
  BY <1>1, <1>2, <1>3, <1>4, <1>5, <1>6, <1>7 DEF Next

\* Outside endgame some missing piece is always unassigned.  With no piece
\* at all the flag is never set, since nothing is missing.
THEOREM EndgameDetection == Spec => []EndgameDetected
<1>1. Init => EndgameDetected
  BY DEF Init, EndgameDetected, Missing
<1> QED
  BY <1>1, TypeCorrect, NextEndgameDetected, PTL DEF Spec

\* The flag turns on only with every missing piece assigned to a holder.
THEOREM EndgameEntryCorrect == Spec => EndgameEntry
<1>1. TypeOK /\ InFlightSound' /\ [Next]_vars
        => [~endgame /\ endgame' =>
              /\ Pieces \ have' # {}
              /\ \A i \in Pieces \ have' :
                    i \in DOMAIN inFlight' /\ i \in holds'[inFlight'[i]]]_vars
  <2> SUFFICES ASSUME TypeOK, InFlightSound', Next, ~endgame, endgame'
               PROVE  /\ Pieces \ have' # {}
                      /\ \A i \in Pieces \ have' :
                            i \in DOMAIN inFlight' /\ i \in holds'[inFlight'[i]]
    BY DEF vars
  <2>1. Pieces \ have' # {} /\ Pieces \ have' \subseteq DOMAIN inFlight'
    <3>1. CASE Pick
      BY <3>1 DEF Pick, PickPiece, CheckEndgame, TypeOK
    <3>2. CASE Complete
      BY <3>2 DEF Complete, PieceCompleted, CheckEndgame, TypeOK
    <3>3. CASE Register \/ Unregister \/ Announce \/ Fail
      BY <3>3 DEF Register, RegisterPeer, Unregister, UnregisterPeer, Announce,
                  PeerHasPiece, Fail, PieceFailed
    <3> QED
      BY <3>1, <3>2, <3>3 DEF Next
  <2> QED
    BY <2>1 DEF InFlightSound
<1> QED
  BY <1>1, TypeCorrect, InFlightCorrect, PTL DEF Spec, EndgameEntry

\* No piece changes hands while it is in flight.
THEOREM NoReassignmentCorrect == Spec => NoReassignment
<1>1. TypeOK /\ [Next]_vars
        => [\A i \in DOMAIN inFlight \cap DOMAIN inFlight' :
              inFlight'[i] = inFlight[i]]_vars
  <2> SUFFICES ASSUME TypeOK, Next,
                      NEW j \in DOMAIN inFlight \cap DOMAIN inFlight'
               PROVE  inFlight'[j] = inFlight[j]
    BY DEF vars
  <2>1. CASE Pick
    <3> PICK p \in Peers, i \in Pieces : PickPiece(p, i)
      BY <2>1 DEF Pick
    <3>1. CASE endgame
      BY <3>1 DEF PickPiece
    <3>2. CASE ~endgame
      <4>1. i \notin DOMAIN inFlight /\ inFlight' = Insert(inFlight, i, p)
        BY <3>2 DEF PickPiece, Rarest, Candidates
      <4> QED
        BY <4>1 DEF Insert
    <3> QED
      BY <3>1, <3>2
  <2>2. CASE Unregister
    BY <2>2, RestrictProperties DEF Unregister, UnregisterPeer
  <2>3. CASE Complete
    BY <2>3, RestrictProperties DEF Complete, PieceCompleted
  <2>4. CASE Fail
    BY <2>4, RestrictProperties DEF Fail, PieceFailed
  <2>5. CASE Register \/ Announce
    BY <2>5 DEF Register, RegisterPeer, Announce, PeerHasPiece
  <2> QED
    BY <2>1, <2>2, <2>3, <2>4, <2>5 DEF Next
<1> QED
  BY <1>1, TypeCorrect, PTL DEF Spec, NoReassignment

----------------------------------------------------------------------------
(* Rarity *)

LEMMA HoldersFinite ==
  TypeOK => \A i \in Pieces : IsFiniteSet(Holders(i)) /\ Cardinality(Holders(i)) \in Nat
  BY PeersAssumption, FS_Subset, FS_CardinalityType DEF TypeOK, Holders, Registered

\* A counter raised by one matches a set of holders with a new member, and a
\* counter dropped by one, when positive, one that loses a member.
LEMMA HolderGained ==
  ASSUME NEW S, NEW p, IsFiniteSet(S), p \notin S
  PROVE  Cardinality(S \cup {p}) = Cardinality(S) + 1
  BY FS_AddElement

LEMMA HolderLost ==
  ASSUME NEW S, NEW p, IsFiniteSet(S), p \in S
  PROVE  /\ Cardinality(S \ {p}) = Cardinality(S) - 1
         /\ Cardinality(S) > 0
<1>1. Cardinality(S) \in Nat /\ Cardinality(S) # 0
  BY FS_CardinalityType, FS_EmptySet
<1> QED
  BY <1>1, FS_RemoveElement

LEMMA NextRarity ==
  TypeOK /\ RarityIsHolderCount /\ [Next]_vars => RarityIsHolderCount'
<1> SUFFICES ASSUME TypeOK, RarityIsHolderCount, [Next]_vars, NEW i \in Pieces
             PROVE  rarity'[i] = Cardinality(Holders(i)')
  BY DEF RarityIsHolderCount
<1>0. /\ rarity[i] = Cardinality(Holders(i)) /\ rarity[i] \in Nat
      /\ IsFiniteSet(Holders(i))
  BY HoldersFinite DEF RarityIsHolderCount, TypeOK
<1>1. CASE Register
  <2> PICK p \in Peers \ Registered, bf \in SUBSET Pieces : RegisterPeer(p, bf)
    BY <1>1 DEF Register
  <2>1. /\ DOMAIN holds' = Registered \cup {p} /\ holds'[p] = bf
        /\ \A q \in Registered : holds'[q] = holds[q]
    BY DEF RegisterPeer, Insert, Registered
  <2>2. CASE i \in bf
    <3>1. Holders(i)' = Holders(i) \cup {p} /\ p \notin Holders(i)
      BY <2>1, <2>2 DEF Holders, Registered
    <3>2. rarity'[i] = rarity[i] + 1
      BY <2>2 DEF RegisterPeer
    <3> QED
      BY <1>0, <3>1, <3>2, HolderGained
  <2>3. CASE i \notin bf
    <3>1. Holders(i)' = Holders(i)
      BY <2>1, <2>3 DEF Holders, Registered
    <3> QED
      BY <1>0, <2>3, <3>1 DEF RegisterPeer
  <2> QED
    BY <2>2, <2>3
<1>2. CASE Unregister
  <2> PICK p \in Peers : UnregisterPeer(p)
    BY <1>2 DEF Unregister
  <2>1. /\ DOMAIN holds' = Registered \ {p}
        /\ \A q \in Registered \ {p} : holds'[q] = holds[q]
    BY RestrictProperties DEF UnregisterPeer, Registered
  <2>2. CASE p \in Holders(i)
    <3>1. Holders(i)' = Holders(i) \ {p}
      BY <2>1 DEF Holders, Registered
    <3>2. rarity[i] > 0
      BY <1>0, <2>2, HolderLost
    <3>3. rarity'[i] = rarity[i] - 1
      BY <2>2, <3>2 DEF UnregisterPeer, Discounted, Holders
    <3> QED
      BY <1>0, <2>2, <3>1, <3>3, HolderLost
  <2>3. CASE p \notin Holders(i)
    <3>1. Holders(i)' = Holders(i)
      BY <2>1, <2>3 DEF Holders, Registered
    <3>2. rarity'[i] = rarity[i]
      BY <2>3 DEF UnregisterPeer, Discounted, Holders
    <3> QED
      BY <1>0, <3>1, <3>2
  <2> QED
    BY <2>2, <2>3
<1>3. CASE Announce
  <2> PICK p \in Peers, k \in Pieces : PeerHasPiece(p, k)
    BY <1>3 DEF Announce
  <2>1. CASE p \in Registered /\ k \notin holds[p] /\ k = i
    <3>1. /\ holds' = [holds EXCEPT ![p] = @ \cup {i}]
          /\ rarity' = [rarity EXCEPT ![i] = @ + 1]
      BY <2>1 DEF PeerHasPiece
    <3>2. Holders(i)' = Holders(i) \cup {p} /\ p \notin Holders(i)
      BY <2>1, <3>1 DEF Holders, Registered, TypeOK
    <3>3. rarity'[i] = rarity[i] + 1
      BY <3>1 DEF TypeOK
    <3> QED
      BY <1>0, <3>2, <3>3, HolderGained
  <2>2. CASE ~(p \in Registered /\ k \notin holds[p] /\ k = i)
    <3>1. Holders(i)' = Holders(i) /\ rarity'[i] = rarity[i]
      BY <2>2 DEF PeerHasPiece, Holders, Registered, TypeOK
    <3> QED
      BY <1>0, <3>1
  <2> QED
    BY <2>1, <2>2
<1>4. CASE Pick \/ Complete \/ Fail \/ UNCHANGED vars
  <2>1. UNCHANGED <<holds, rarity>>
    BY <1>4 DEF Pick, PickPiece, Complete, PieceCompleted, Fail, PieceFailed, vars
  <2> QED
    BY <1>0, <2>1 DEF Holders, Registered
<1> QED
  BY <1>1, <1>2, <1>3, <1>4 DEF Next

\* The cached counters are the numbers of holders, whatever the order of
\* registrations, Have messages and departures.
THEOREM RarityCorrect == Spec => []RarityIsHolderCount
<1>1. Init => RarityIsHolderCount
  <2> SUFFICES ASSUME Init, NEW i \in Pieces PROVE rarity[i] = Cardinality(Holders(i))
    BY DEF RarityIsHolderCount
  <2>1. Holders(i) = {} /\ rarity[i] = 0
    BY DEF Init, Holders, Registered
  <2> QED
    BY <2>1, FS_EmptySet
<1> QED
  BY <1>1, TypeCorrect, NextRarity, PTL DEF Spec

\* Rarest-first by the real number of holders.
THEOREM RarestFirstCorrect == Spec => RarestFirst
<1>1. TypeOK /\ RarityIsHolderCount /\ [Next]_vars
        => [\A i \in DOMAIN inFlight' \ DOMAIN inFlight :
              \A j \in holds[inFlight'[i]] \ (have \cup DOMAIN inFlight) :
                Cardinality(Holders(i)) <= Cardinality(Holders(j))]_vars
  <2> SUFFICES ASSUME TypeOK, RarityIsHolderCount, Next,
                      NEW i \in DOMAIN inFlight' \ DOMAIN inFlight,
                      NEW j \in holds[inFlight'[i]] \ (have \cup DOMAIN inFlight)
               PROVE  Cardinality(Holders(i)) <= Cardinality(Holders(j))
    BY DEF vars
  <2>1. CASE Pick
    <3> PICK p \in Peers, k \in Pieces : PickPiece(p, k)
      BY <2>1 DEF Pick
    <3>1. ~endgame /\ k = i /\ inFlight'[i] = p
      BY DEF PickPiece, Insert
    <3>2. p \in Registered /\ i \in Rarest(p) /\ holds[p] \subseteq Pieces
      BY <3>1 DEF PickPiece, TypeOK, Registered
    <3>3. j \in Candidates(p)
      BY <3>1, <3>2 DEF Candidates, Missing
    <3>4. rarity[i] <= rarity[j] /\ i \in Pieces /\ j \in Pieces
      BY <3>1, <3>2, <3>3 DEF Rarest
    <3> QED
      BY <3>4 DEF RarityIsHolderCount
  <2>2. CASE Register \/ Announce
    BY <2>2 DEF Register, RegisterPeer, Announce, PeerHasPiece
  <2>3. CASE Unregister
    BY <2>3, RestrictProperties DEF Unregister, UnregisterPeer
  <2>4. CASE Complete
    BY <2>4, RestrictProperties DEF Complete, PieceCompleted
  <2>5. CASE Fail
    BY <2>5, RestrictProperties DEF Fail, PieceFailed
  <2> QED
    BY <2>1, <2>2, <2>3, <2>4, <2>5 DEF Next
<1> QED
  BY <1>1, TypeCorrect, RarityCorrect, PTL DEF Spec, RarestFirst
============================================================================
