------------------------------- MODULE Lookup -------------------------------
(***************************************************************************)
(* An iterative lookup of the DHT: DhtNode::find_peers                     *)
(* (src/src/network/discovery/dht.rs) driving LookupState (lookup.rs).     *)
(* Rounds of at most Alpha requests go out over UDP; a round ends when as  *)
(* many answers arrived as requests were sent, or after 500 ms.  Answers   *)
(* may be lost, duplicated, or arrive during a later round.                *)
(*                                                                         *)
(* A node is identified with its XOR distance to the target, the key the   *)
(* candidates are sorted by.                                               *)
(***************************************************************************)
EXTENDS Integers, Sequences, FiniteSets, SequencesExt

CONSTANTS
    Nodes,          \* the nodes of the DHT, as distances to the target
    Start,          \* initial_nodes
    Resolvable,     \* the nodes whose address parses
    Knows,          \* Knows[n]: the nodes in n's answer
    Offers,         \* Offers[n]: the peers in n's answer
    Good,           \* the peers whose score is at least EARLY_TERMINATE_MIN_SCORE
    Alpha,          \* ALPHA
    MaxQueries,     \* MAX_QUERIES
    EarlyCount,     \* EARLY_TERMINATE_COUNT
    MaxResults,     \* MAX_RESULTS
    MaxDuplicates   \* bound on the answers that arrive twice

ASSUME ConstantsAssumption ==
    /\ Nodes \subseteq Nat /\ IsFiniteSet(Nodes)
    /\ Start \subseteq Nodes
    /\ Resolvable \subseteq Nodes
    /\ Knows \in [Nodes -> SUBSET Nodes]
    /\ \A n \in Nodes : IsFiniteSet(Offers[n])
    /\ Alpha \in Nat \ {0} /\ MaxQueries \in Nat
    /\ EarlyCount \in Nat /\ MaxResults \in Nat /\ MaxDuplicates \in Nat

VARIABLES
    candidates, \* the sorted list of known nodes
    queried,    \* the nodes taken into a batch so far
    queryCount, \* query_count
    found,      \* found_peers
    phase,      \* "deciding" at the loop's head, "waiting" in a round, "done"
    pending,    \* pending_count of the round
    responses,  \* answers counted in the round
    results,    \* the peers sent in PeersFound
    net,        \* nodes whose request or answer is under way
    \* What the properties speak of; the code does not keep it:
    heard,      \* nodes whose answer was received
    timeouts,   \* whether a round ended by its timeout
    duplicates  \* how many answers were duplicated

state == <<candidates, queried, queryCount, found>>
round == <<phase, pending, responses>>
vars == <<state, round, results, net, heard, timeouts, duplicates>>

\* The place of n among the members of S, the least being at place 1.
Place(S, n) == Cardinality({m \in S : m <= n})

\* The sequence of the elements of S, closest first.
Sorted(S) == [k \in 1 .. Cardinality(S) |-> CHOOSE n \in S : Place(S, n) = k]

Known == ToSet(candidates)

Init ==
    /\ candidates = Sorted(Start)
    /\ queried = {}
    /\ queryCount = 0
    /\ found = {}
    /\ phase = "deciding" /\ pending = 0 /\ responses = 0
    /\ results = {}
    /\ net = {}
    /\ heard = {}
    /\ timeouts = FALSE
    /\ duplicates = 0

----------------------------------------------------------------------------
(* LookupState *)

LimitReached == queryCount >= MaxQueries \/ Cardinality(found \cap Good) >= EarlyCount

\* A seeded defect for the checks: one queried candidate is enough.
ShouldTerminateOnAny == LimitReached \/ Known \cap queried # {} \/ Known = {}

\* should_terminate
ShouldTerminate == LimitReached \/ Known \subseteq queried

\* The nodes next_batch returns: the first Alpha candidates not queried yet.
NextBatch ==
    LET fresh == {k \in DOMAIN candidates : candidates[k] \notin queried}
    IN  {candidates[k] : k \in {k \in fresh : Place(fresh, k) <= Alpha}}

\* A seeded defect for the checks: new nodes are not sorted in.
AddNodesUnsorted(nodes) == candidates \o Sorted(nodes \ Known)

\* add_nodes: nodes known already are not listed twice.
AddNodes(nodes) == Sorted(Known \cup nodes)

\* results: the best peers, good ones before others.
Best ==
    {top \in SUBSET found :
        /\ Cardinality(top) <= MaxResults
        /\ Cardinality(top) = MaxResults \/ top = found
        /\ top \cap Good = found \cap Good \/ top \subseteq Good}

----------------------------------------------------------------------------
(* find_peers *)

\* The head of the loop, and what follows the loop.  All requests of a batch
\* are sent, except to nodes whose address does not parse.
Stop ==
    /\ phase = "deciding"
    /\ ShouldTerminate \/ NextBatch = {}
    /\ phase' = "done"
    /\ results' \in Best
    /\ UNCHANGED <<state, pending, responses, net, heard, timeouts, duplicates>>

StartRound ==
    /\ phase = "deciding"
    /\ ~ShouldTerminate /\ NextBatch # {}
    /\ queried' = queried \cup NextBatch
    /\ queryCount' = queryCount + Cardinality(NextBatch)
    /\ phase' = "waiting"
    /\ pending' = Cardinality(NextBatch \cap Resolvable)
    /\ responses' = 0
    /\ net' = net \cup (NextBatch \cap Resolvable)
    /\ UNCHANGED <<candidates, found, results, heard, timeouts, duplicates>>

\* A seeded defect for the checks: the first answer ends the round.
RoundOverAtOnce(count) == count > 0

\* A round is over after as many answers as requests, whoever sent them.
RoundOver(count) == count >= pending

\* An answer arrives, of this round or of an earlier one.
Receive(n) ==
    /\ phase = "waiting"
    /\ n \in net
    /\ found' = found \cup Offers[n]
    /\ candidates' = AddNodes(Knows[n])
    /\ responses' = responses + 1
    /\ phase' = IF RoundOver(responses') THEN "deciding" ELSE "waiting"
    /\ heard' = heard \cup {n}
    /\ \/ net' = net \ {n} /\ UNCHANGED duplicates
       \/ duplicates < MaxDuplicates /\ duplicates' = duplicates + 1 /\ UNCHANGED net
    /\ UNCHANGED <<queried, queryCount, pending, results, timeouts>>

\* A seeded defect for the checks: a round without answers does not time out.
TimeoutIfAnswered ==
    /\ phase = "waiting"
    /\ responses > 0
    /\ phase' = "deciding"
    /\ timeouts' = TRUE
    /\ UNCHANGED <<state, pending, responses, results, net, heard, duplicates>>

Timeout ==
    /\ phase = "waiting"
    /\ phase' = "deciding"
    /\ timeouts' = TRUE
    /\ UNCHANGED <<state, pending, responses, results, net, heard, duplicates>>

\* UDP loses a request or an answer, or the node is gone.
Lose(n) ==
    /\ n \in net
    /\ phase # "done"
    /\ net' = net \ {n}
    /\ UNCHANGED <<state, round, results, heard, timeouts, duplicates>>

Next ==
    \/ Stop
    \/ StartRound
    \/ \E n \in Nodes : Receive(n)
    \/ Timeout
    \/ \E n \in Nodes : Lose(n)
    \/ phase = "done" /\ UNCHANGED vars

Spec == Init /\ [][Next]_vars

\* The task runs and its timer fires; nothing is assumed of the network.
FairSpec == Spec /\ WF_vars(Stop \/ StartRound) /\ WF_vars(Timeout)

----------------------------------------------------------------------------
(* Properties *)

\* A node is asked only when every closer node known by then has been asked,
\* although answers of any round extend the list at any time.
ClosestFirst ==
    [][\A n \in queried' \ queried : \A m \in Known : m < n => m \in queried']_vars

\* Unless a limit ends it, a lookup ends with all it has heard put to use:
\* every node named in an answer has been asked and every peer is in the list,
\* through losses, duplicates and answers that came rounds too late.
NothingHeardIsWasted ==
    phase = "done" /\ ~LimitReached =>
        \A n \in heard : Knows[n] \subseteq queried /\ Offers[n] \subseteq found

\* Without losses, duplicates and late answers no node of a round is left out:
\* every node that was asked, and could be, was heard before the end.
EveryoneHeard ==
    phase = "done" /\ ~timeouts /\ duplicates = 0 => queried \cap Resolvable \subseteq heard

\* A lookup ends, whether anybody answers or not.
Terminates == <>(phase = "done")
=============================================================================
