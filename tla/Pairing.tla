-------------------------------- MODULE Pairing --------------------------------
(***************************************************************************)
(* Who evaluates whom (assignments.py). Evaluators are first spread over   *)
(* the rooms; then every room, or the whole Journee as one room, is paired:*)
(* a cheapest matching gives each recruit a primary evaluator, and surplus *)
(* evaluators are added one layer at a time. The matching is MinCostFlow:  *)
(* each step extends it along a cheapest augmenting path. What the seed    *)
(* decides is any choice: the shuffles, and the tie each layer's hash adds *)
(* to the cost of a pair.                                                  *)
(***************************************************************************)
EXTENDS Naturals, Sequences, FiniteSets, FiniteSetsExt, SequencesExt, Functions

CONSTANTS
    Participants,      \* recruits that are active and present
    Assessors,         \* evaluators that are available
    RolePriority,      \* [Assessors -> Nat]: position of the role in the primary order
    SecondPriority,    \* [Assessors -> Nat]: position in the secondary order
    PriorSeconds,      \* [Participants -> Nat]: additional evaluators they had in earlier activities
    RoomCounts,        \* room counts to choose from; 1 is also the activity without rooms
    MaximumAssessors,
    Ties,              \* what the hash of a seed may add to the costs of the pairs
    MaxPast,           \* bound: pairs that met in an earlier activity
    MaxMandatory       \* bound: evaluators with a mandatory or locked room

LargestTie == 996

ASSUME PairingAssumption ==
    /\ IsFiniteSet(Participants) /\ IsFiniteSet(Assessors)
    /\ RolePriority \in [Assessors -> Nat] /\ SecondPriority \in [Assessors -> Nat]
    /\ PriorSeconds \in [Participants -> Nat]
    /\ \A n \in RoomCounts : n \in 1..Cardinality(Participants)
    /\ Ties \subseteq [Assessors \X Participants -> 0..LargestTie]
    /\ MaximumAssessors \in Nat \ {0} /\ MaxPast \in Nat /\ MaxMandatory \in Nat

VARIABLES
    roomCount,         \* rooms of this activity
    recruitRoom,       \* [Participants -> room]
    fixedRoom,         \* mandatory and locked rooms: assessor -> room
    past,              \* pairs <<assessor, recruit>> of the other activities' published rounds
    placed,            \* assessor -> room, as far as they are placed
    scope,             \* the room that is being paired; 0 while evaluators are placed
    layer,             \* 1: primary evaluators, 2..: additional ones
    tie,               \* what this layer's seed adds to the cost of a pair
    match,             \* the flow of this layer: recruit -> <<assessor, load>>
    pairings           \* the result: [evaluator, recruit, slot]

pairingVars == <<roomCount, recruitRoom, fixedRoom, past, placed, scope, layer, tie, match, pairings>>

NoOne == [x \in {} |-> 0]
RoomNumbers == 1..roomCount
RecruitsIn(room) == {r \in Participants : recruitRoom[r] = room}
PlacedIn(room) == {e \in DOMAIN placed : placed[e] = room}
PairedIn(room) == {p \in pairings : p.recruit \in RecruitsIn(room)}

\* The recruits each of the room's evaluators has to take, rounded up.
CapacityOf(room) ==
    (Cardinality(RecruitsIn(room)) + Cardinality(PlacedIn(room)) - 1) \div Cardinality(PlacedIn(room))

Drawn(rooms, dealt, met, fixed, seeded) ==
    /\ roomCount = rooms /\ recruitRoom = dealt /\ past = met
    /\ fixedRoom = fixed /\ placed = fixed
    /\ scope = 0 /\ layer = 1 /\ tie = seeded /\ match = NoOne /\ pairings = {}

(* generate_room_plan deals the shuffled recruits out in turn. *)
Deals(rooms) ==
    {f \in [Participants -> 1..rooms] :
        \A i, j \in 1..rooms :
            LET size(room) == Cardinality({r \in Participants : f[r] = room})
            IN  i < j => size(i) - size(j) \in {0, 1}}

InitPairing ==
    \E rooms \in RoomCounts, met \in {P \in SUBSET (Assessors \X Participants) : Cardinality(P) <= MaxPast} :
    \E dealt \in Deals(rooms),
       fixed \in UNION {[S -> 1..rooms] : S \in {T \in SUBSET Assessors : Cardinality(T) <= MaxMandatory}},
       seeded \in Ties :
        Drawn(rooms, dealt, met, fixed, seeded)

-----------------------------------------------------------------------------
(* distribute_evaluators_to_rooms *)

(* Placing: the largest deficit of evaluators first, then the smallest      *)
(* share - of primary evaluators for one of them, of all for another - then *)
(* the lowest number. Shares are compared by cross-multiplying.             *)
Deficit(room) == LET n == Cardinality(RecruitsIn(room)) - Cardinality(PlacedIn(room))
                 IN  IF n > 0 THEN n ELSE 0
Share(e, room) ==
    Cardinality(IF RolePriority[e] = 0 THEN {f \in PlacedIn(room) : RolePriority[f] = 0}
                ELSE PlacedIn(room))
Preferred(e, i, j) ==
    LET size(room) == Max({1, Cardinality(RecruitsIn(room))})
        left == Share(e, i) * size(j)
        right == Share(e, j) * size(i)
    IN  \/ Deficit(i) > Deficit(j)
        \/ Deficit(i) = Deficit(j) /\ (left < right \/ (left = right /\ i <= j))

(* The next of the shuffled evaluators, primary roles first. *)
PlaceEvaluator ==
    /\ scope = 0
    /\ \E e \in Assessors \ DOMAIN placed : \E room \in RoomNumbers :
        /\ \A f \in Assessors \ DOMAIN placed : RolePriority[e] <= RolePriority[f]
        /\ \A other \in RoomNumbers : Preferred(e, room, other)
        /\ placed' = [f \in DOMAIN placed \cup {e} |-> IF f = e THEN room ELSE placed[f]]
    /\ UNCHANGED <<roomCount, recruitRoom, fixedRoom, past, scope, layer, tie, match, pairings>>

EvaluatorsPlaced ==
    /\ scope = 0 /\ DOMAIN placed = Assessors
    /\ scope' = 1
    /\ UNCHANGED <<roomCount, recruitRoom, fixedRoom, past, placed, layer, tie, match, pairings>>

-----------------------------------------------------------------------------
(* The networks of _primary_matching and _secondary_matching. *)

InScope == RecruitsIn(scope)
Staff == PlacedIn(scope)
Shortage == Cardinality(Staff) < Cardinality(InScope)
Capacity == CapacityOf(scope)
PairedHere == PairedIn(scope)
Unpaired == {e \in Staff : \A p \in PairedHere : p.evaluator # e}

(* An evaluator can be taken once per load; the first layer may load one    *)
(* several times.                                                           *)
Slots == IF layer = 1 THEN (IF Staff = {} THEN {} ELSE Staff \X (1..Capacity)) ELSE Unpaired \X {1}

Repeated(e, r) == <<e, r>> \in past
Additional(r) == Cardinality({p \in PairedHere : p.recruit = r /\ p.slot > 1})

RepeatCost == 1000000
PrimaryPrice(slot) == 5000 * RolePriority[slot[1]] + 20000 * ((slot[2] - 1) * (slot[2] - 1))
SecondaryPrice(slot, r) == 100000 * SecondPriority[slot[1]] + 10000 * (PriorSeconds[r] + Additional(r))

Cost(slot, r) ==
    (IF Repeated(slot[1], r) THEN RepeatCost ELSE 0)
    + (IF layer = 1 THEN PrimaryPrice(slot) ELSE SecondaryPrice(slot, r))
    + tie[<<slot[1], r>>]

TotalCost(m) == SumFunction([r \in DOMAIN m |-> Cost(m[r], r)])
Requested == IF layer = 1 THEN Cardinality(InScope) ELSE Min({Cardinality(Unpaired), Cardinality(InScope)})

(* One augmenting path: a free slot takes a recruit, whose slot takes the   *)
(* next one, ... until a recruit that had none.                             *)
\* Mutant: a recruit that has a slot keeps it.
AugmentedMut ==
    {(r :> slot) @@ match : slot \in Slots \ Range(match), r \in InScope \ DOMAIN match}

Paths ==
    {p \in UNION {[1..n -> InScope] : n \in 1..Cardinality(DOMAIN match) + 1} :
        /\ IsInjective(p)
        /\ \A i \in 1..Len(p) : p[i] \in DOMAIN match <=> i < Len(p)}

Predecessor(p, r) == p[(CHOOSE i \in DOMAIN p : p[i] = r) - 1]

Shifted(slot, p) ==
    [r \in DOMAIN match \cup Range(p) |->
        CASE r \notin Range(p) -> match[r]
          [] r = p[1] -> slot
          [] OTHER -> match[Predecessor(p, r)]]

Augmented == {Shifted(slot, p) : slot \in Slots \ Range(match), p \in Paths}

(* MinCostFlow.solve: one round, along a cheapest path. *)
Augment ==
    /\ scope \in RoomNumbers
    /\ Cardinality(DOMAIN match) < Requested
    /\ \E m \in Augmented :
        /\ \A n \in Augmented : TotalCost(m) <= TotalCost(n)
        /\ match' = m
    /\ UNCHANGED <<roomCount, recruitRoom, fixedRoom, past, placed, scope, layer, tie, pairings>>

(* generate_pairings: after the first layer surplus evaluators are added,   *)
(* as long as each recruit is covered, there are any and one more fits.     *)
MoreLayers ==
    /\ layer < MaximumAssessors /\ ~Shortage
    /\ match # NoOne
    /\ \E e \in Staff : e \notin {s[1] : s \in Range(match)} \cup {p.evaluator : p \in PairedHere}

FinishLayer ==
    /\ scope \in RoomNumbers
    /\ Cardinality(DOMAIN match) = Requested \/ Augmented = {}
    /\ pairings' = pairings \cup {[evaluator |-> match[r][1], recruit |-> r, slot |-> layer] : r \in DOMAIN match}
    /\ match' = NoOne
    /\ tie' \in Ties
    /\ IF MoreLayers THEN layer' = layer + 1 /\ scope' = scope
                     ELSE layer' = 1 /\ scope' = scope + 1
    /\ UNCHANGED <<roomCount, recruitRoom, fixedRoom, past, placed>>

NextPairing == PlaceEvaluator \/ EvaluatorsPlaced \/ Augment \/ FinishLayer
SpecPairing == InitPairing /\ [][NextPairing]_pairingVars

-----------------------------------------------------------------------------

TypeOKPairing ==
    /\ roomCount \in RoomCounts
    /\ recruitRoom \in [Participants -> RoomNumbers]
    /\ DOMAIN placed \subseteq Assessors /\ Range(placed) \subseteq RoomNumbers
    /\ scope \in 0..roomCount + 1 /\ layer \in 1..MaximumAssessors /\ tie \in Ties
    /\ DOMAIN match \subseteq Participants
    /\ pairings \subseteq [evaluator : Assessors, recruit : Participants, slot : 1..MaximumAssessors]

PrimaryOf(room) ==
    [r \in RecruitsIn(room) |-> (CHOOSE p \in PairedIn(room) : p.recruit = r /\ p.slot = 1).evaluator]

(* Sharing the recruits of a room among its evaluators within the capacity.  *)
WithinCapacity(f, room) ==
    \A e \in PlacedIn(room) :
        Cardinality({r \in RecruitsIn(room) : f[r] = e}) <= CapacityOf(room)

(* Each recruit has a primary evaluator within the capacity; nobody is added *)
(* twice, and nobody is loaded twice while others are idle for lack of a     *)
(* recruit (the edges and their capacities, the layers).                     *)
CoveredOnce(room) ==
    /\ \A r \in RecruitsIn(room) : \E p \in PairedIn(room) : p.recruit = r /\ p.slot = 1
    /\ WithinCapacity(PrimaryOf(room), room)
    /\ \A p, q \in PairedIn(room) : (p.recruit = q.recruit /\ p # q) =>
            p.evaluator # q.evaluator /\ p.slot # q.slot
    /\ (\E p \in PairedIn(room) : p.slot > 1) =>
            \A p, q \in PairedIn(room) : p.evaluator = q.evaluator => p = q

(* No other way of sharing the recruits among the evaluators within the      *)
(* capacity repeats fewer pairs (the edge costs, the cheapest paths).        *)
FewestRepeats(room) ==
    LET repeats(f) == Cardinality({r \in RecruitsIn(room) : <<f[r], r>> \in past})
    IN  \A f \in [RecruitsIn(room) -> PlacedIn(room)] :
            WithinCapacity(f, room) => repeats(PrimaryOf(room)) <= repeats(f)

(* One repeated pair costs more than everything else in the room can: the    *)
(* dearest role and load, and all the ties. A room of some fifty recruits    *)
(* for five evaluators has loads of eleven: its loads outweigh a repeat.     *)
RepeatsOutweigh(room) ==
    LET extra == CapacityOf(room) - 1
    IN  \A e \in PlacedIn(room) :
            5000 * RolePriority[e] + 20000 * (extra * extra) + LargestTie * Cardinality(RecruitsIn(room))
                < RepeatCost

(* A paired room is paired as well as it can be: everybody is covered once,  *)
(* and, where a repeat outweighs the other costs, no pair meets again that   *)
(* need not (the minimum-cost flow).                                         *)
PairingsAreBest ==
    \A room \in 1..scope - 1 : PlacedIn(room) # {} =>
        CoveredOnce(room) /\ (RepeatsOutweigh(room) => FewestRepeats(room))

=============================================================================
