----------------------------- MODULE LoginLimits -----------------------------
(***************************************************************************)
(* The login limits of auth.py, in memory, under one lock: a bucket of     *)
(* attempts for each address, workspace and username, one for each         *)
(* address, both over a sliding window; a success empties the person's     *)
(* bucket and leaves the address's.  Many assessors share the venue's      *)
(* network, so an attempt is one of many under way: its success is         *)
(* reported when the password has been verified, any number of other       *)
(* attempts later.  Time is counted in ticks of the model; the stamps of a *)
(* bucket are a set, so that a stamp is a tick and a number that tells the *)
(* attempts of one tick from an address apart.                             *)
(***************************************************************************)
EXTENDS Integers, FiniteSets

CONSTANTS
    Addresses,        \* the client addresses
    Usernames,        \* the names they try, with their workspace
    Window,           \* LOGIN_WINDOW_SECONDS
    PruneInterval,    \* the sixty seconds between two prunings
    AccountAttempts,  \* LOGIN_ACCOUNT_ATTEMPTS
    AddressAttempts,  \* LOGIN_IP_ATTEMPTS
    MaxBuckets,       \* LOGIN_MAX_BUCKETS
    LastTick          \* bound on the time

ASSUME LoginAssumption ==
    /\ Window \in Nat \ {0} /\ PruneInterval \in Nat \ {0}
    /\ AccountAttempts \in Nat \ {0} /\ AddressAttempts \in Nat \ {0}
    /\ MaxBuckets \in Nat /\ LastTick \in Nat

VARIABLES
    clock,            \* time.monotonic()
    keyAttempts,      \* _login_attempts: the buckets there are, each its stamps
    addressAttempts,  \* _login_ip_attempts
    lastPruned,       \* _login_last_pruned
    verifying,        \* attempts let in whose password is being verified
    spent,            \* history: when each address was let in, within the window
    tries             \* history: and each key, since its last success

loginVars == <<clock, keyAttempts, addressAttempts, lastPruned, verifying, spent, tries>>

Keys == Addresses \X Usernames
Ticks == 0 .. LastTick
Stamps == Ticks \X (0 .. AddressAttempts)
NoBuckets == [x \in {} |-> {}]

InitLogin ==
    /\ clock = 0
    /\ keyAttempts = NoBuckets
    /\ addressAttempts = NoBuckets
    /\ lastPruned = -PruneInterval
    /\ verifying = {}
    /\ spent = [address \in Addresses |-> {}]
    /\ tries = [key \in Keys |-> {}]

BucketCount(buckets, others) == Cardinality(DOMAIN buckets) + Cardinality(DOMAIN others)

Recent(stamps, now) == {stamp \in stamps : stamp[1] > now - Window}

StampsOf(buckets, x, now) == IF x \in DOMAIN buckets THEN Recent(buckets[x], now) ELSE {}

\* Mutant: a bucket whose oldest attempt left the window goes as a whole.
RetainedMut(buckets, now) ==
    [x \in {y \in DOMAIN buckets : Recent(buckets[y], now) = buckets[y]} |-> buckets[x]]

\* What pruning keeps: the attempts still in the window, the buckets with any.
Retained(buckets, now) ==
    [x \in {y \in DOMAIN buckets : Recent(buckets[y], now) # {}} |-> Recent(buckets[x], now)]

PruneDue ==
    \/ clock - lastPruned >= PruneInterval
    \/ BucketCount(keyAttempts, addressAttempts) >= MaxBuckets

KeysPruned == IF PruneDue THEN Retained(keyAttempts, clock) ELSE keyAttempts
AddressesPruned == IF PruneDue THEN Retained(addressAttempts, clock) ELSE addressAttempts

Needed(key) == Cardinality({key} \ DOMAIN KeysPruned)
             + Cardinality({key[1]} \ DOMAIN AddressesPruned)

LetIn(key) ==
    /\ Cardinality(StampsOf(KeysPruned, key, clock)) < AccountAttempts
    /\ Cardinality(StampsOf(AddressesPruned, key[1], clock)) < AddressAttempts
    /\ BucketCount(KeysPruned, AddressesPruned) + Needed(key) <= MaxBuckets

\* The attempt's own: a bucket with room has a number left in this tick.
NewStamp(address) ==
    <<clock, CHOOSE n \in 0 .. AddressAttempts : <<clock, n>> \notin StampsOf(AddressesPruned, address, clock)>>

Stamped(buckets, x, stamp) ==
    [y \in DOMAIN buckets \cup {x} |->
        IF y = x THEN StampsOf(buckets, x, stamp[1]) \cup {stamp} ELSE buckets[y]]

\* enforce_login_rate_limit, under the lock: prune when due, then refuse with
\* a 429 or enter the attempt in both buckets.
Attempt(key) ==
    /\ lastPruned' = IF PruneDue THEN clock ELSE lastPruned
    /\ IF LetIn(key)
       THEN /\ keyAttempts' = Stamped(KeysPruned, key, NewStamp(key[1]))
            /\ addressAttempts' = Stamped(AddressesPruned, key[1], NewStamp(key[1]))
            /\ verifying' = verifying \cup {key}
            /\ spent' = [spent EXCEPT ![key[1]] = @ \cup {NewStamp(key[1])}]
            /\ tries' = [tries EXCEPT ![key] = @ \cup {NewStamp(key[1])}]
       ELSE /\ keyAttempts' = KeysPruned
            /\ addressAttempts' = AddressesPruned
            /\ UNCHANGED <<verifying, spent, tries>>
    /\ UNCHANGED clock

\* clear_login_attempts: the person's bucket goes, the address's stays.
Succeed(key) ==
    /\ key \in verifying
    /\ verifying' = verifying \ {key}
    /\ keyAttempts' = [k \in DOMAIN keyAttempts \ {key} |-> keyAttempts[k]]
    /\ tries' = [tries EXCEPT ![key] = {}]
    /\ UNCHANGED <<clock, addressAttempts, lastPruned, spent>>

\* The password was wrong, or the account is closed: both buckets keep the attempt.
FailLogin(key) ==
    /\ key \in verifying
    /\ verifying' = verifying \ {key}
    /\ UNCHANGED <<clock, keyAttempts, addressAttempts, lastPruned, spent, tries>>

Tick ==
    /\ clock < LastTick
    /\ clock' = clock + 1
    /\ spent' = [address \in Addresses |-> Recent(spent[address], clock + 1)]
    /\ tries' = [key \in Keys |-> Recent(tries[key], clock + 1)]
    /\ UNCHANGED <<keyAttempts, addressAttempts, lastPruned, verifying>>

NextLogin ==
    \/ \E key \in Keys : Attempt(key) \/ Succeed(key) \/ FailLogin(key)
    \/ Tick

SpecLogin == InitLogin /\ [][NextLogin]_loginVars

-----------------------------------------------------------------------------
TypeOKLogin ==
    /\ clock \in Ticks
    /\ DOMAIN keyAttempts \subseteq Keys
    /\ DOMAIN addressAttempts \subseteq Addresses
    /\ \A key \in DOMAIN keyAttempts : keyAttempts[key] \subseteq Stamps
    /\ \A address \in DOMAIN addressAttempts : addressAttempts[address] \subseteq Stamps
    /\ lastPruned \in Ticks \cup {-PruneInterval}
    /\ verifying \subseteq Keys
    /\ spent \in [Addresses -> SUBSET Stamps]
    /\ tries \in [Keys -> SUBSET Stamps]

\* Whatever was pruned and whoever succeeded in between, no address is let in
\* more often within one window than its budget, nobody more often than the
\* person's own since the last success, and the buckets never outgrow the cap.
LoginBudgetsHold ==
    /\ \A address \in Addresses : Cardinality(spent[address]) <= AddressAttempts
    /\ \A key \in Keys : Cardinality(tries[key]) <= AccountAttempts
    /\ BucketCount(keyAttempts, addressAttempts) <= MaxBuckets
=============================================================================
