-------------------------- MODULE WorldStateCache --------------------------
(***************************************************************************)
(* The read and write sets between a transaction and the world state       *)
(* (execution/cache/world_state_cache.rs), with the operations of the gas  *)
(* meter on top of them.  The four caches of a WorldStateCache (balances,  *)
(* CBI versions, contract codes, storage) are one map here.  The phases of *)
(* a transaction write the world state behind the back of the cache: the   *)
(* pre-charge before the first access, the charge after the last one.      *)
(* The next_epoch of a V1 or V2 transaction uses the sets without the gas  *)
(* meter, through NetworkAccountWorldState, and is not charged.            *)
(***************************************************************************)
CONSTANTS
    Keys,
    Values, \* what can be stored
    None,   \* Option::None
    Empty,  \* Vec::new(): writing it deletes
    Missing \* no entry in a map

ASSUME CacheAssumption ==
    /\ None # Empty /\ None # Missing /\ Empty # Missing
    /\ None \notin Values /\ Empty \notin Values /\ Missing \notin Values

VARIABLES
    ws,     \* world state: key -> value or None
    reads,  \* key -> value or None, or Missing
    writes, \* key -> value or Empty, or Missing
    phase,  \* "new", "commands", "epoch", "purging" or "settling"
    answer  \* of the last operation: <<operation, key, result>>, or <<>>

vars == <<ws, reads, writes, phase, answer>>

NoEntries == [k \in Keys |-> Missing]

\* The gas meter turns an empty value into None; so does a commit.
NonEmpty(v) == IF v = Empty THEN None ELSE v

\* Mutant: the read set is searched before the write set.
GetReadsFirst(k) ==
    IF reads[k] # Missing THEN reads[k] ELSE IF writes[k] # Missing THEN writes[k] ELSE ws[k]

\* CacheData::get: its result, and the read set it leaves.
get(k) ==
    IF writes[k] # Missing THEN writes[k] ELSE IF reads[k] # Missing THEN reads[k] ELSE ws[k]

reads_after_get(k) ==
    IF writes[k] = Missing /\ reads[k] = Missing THEN [reads EXCEPT ![k] = ws[k]] ELSE reads

\* Mutant: the write set is not searched.
ContainsWithoutWrites(k) ==
    \/ reads[k] # Missing /\ reads[k] # None
    \/ ws[k] # None

\* CacheData::contains
contains(k) ==
    \/ writes[k] # Missing /\ writes[k] # Empty
    \/ reads[k] # Missing /\ reads[k] # None
    \/ ws[k] # None

-----------------------------------------------------------------------------

Init ==
    /\ ws \in [Keys -> Values \cup {None}]
    /\ reads = NoEntries
    /\ writes = NoEntries
    /\ phase = "new"
    /\ answer = <<>>

Access == phase \in {"new", "commands"} /\ phase' = "commands"

Get(k) ==
    /\ Access
    /\ reads' = reads_after_get(k)
    /\ answer' = <<"get", k, NonEmpty(get(k))>>
    /\ UNCHANGED <<ws, writes>>

\* Setting a value looks up the old one first, for its length.
Set(k, v) ==
    /\ Access
    /\ reads' = reads_after_get(k)
    /\ writes' = [writes EXCEPT ![k] = v]
    /\ answer' = <<>>
    /\ UNCHANGED ws

\* The accesses of next_epoch, which has no charge before them and no revert.
EpochAccess == phase \in {"new", "epoch"} /\ phase' = "epoch"

\* NetworkAccountWorldState::get finds a deleted value empty.
EpochGet(k) ==
    /\ EpochAccess
    /\ reads' = reads_after_get(k)
    /\ answer' = <<"epoch_get", k, get(k)>>
    /\ UNCHANGED <<ws, writes>>

\* NetworkAccountWorldState::set, and delete with an empty value, look nothing up.
EpochSet(k, v) ==
    /\ EpochAccess
    /\ writes' = [writes EXCEPT ![k] = v]
    /\ answer' = <<>>
    /\ UNCHANGED <<ws, reads>>

Contains(k) ==
    /\ Access \/ EpochAccess
    /\ answer' = <<"contains", k, contains(k)>>
    /\ UNCHANGED <<ws, reads, writes>>

Revert ==
    /\ Access
    /\ reads' = NoEntries
    /\ writes' = NoEntries
    /\ answer' = <<>>
    /\ UNCHANGED ws

\* Mutant: the gas is pre-charged after the commands have looked at the balance.
PreChargeLate(k, v) ==
    /\ phase \in {"new", "commands"}
    /\ ws' = [ws EXCEPT ![k] = v]
    /\ phase' = "commands"
    /\ answer' = <<>>
    /\ UNCHANGED <<reads, writes>>

\* pre_charge sets the balance of the signer.
PreCharge(k, v) ==
    /\ phase = "new"
    /\ ws' = [ws EXCEPT ![k] = v]
    /\ phase' = "commands"
    /\ answer' = <<>>
    /\ UNCHANGED <<reads, writes>>

\* charge takes the balances of signer, proposer and treasury out of the write
\* set, then sets them in the world state.
PurgeBalance(k) ==
    /\ phase \in {"commands", "purging"}
    /\ phase' = "purging"
    /\ answer' = <<"purge", k, NonEmpty(get(k))>>
    /\ reads' = reads_after_get(k)
    /\ writes' = [writes EXCEPT ![k] = Missing]
    /\ UNCHANGED ws

SetInWorldState(k, v) ==
    /\ phase \in {"purging", "settling"}
    /\ writes[k] = Missing
    /\ ws' = [ws EXCEPT ![k] = v]
    /\ phase' = "settling"
    /\ answer' = <<>>
    /\ UNCHANGED <<reads, writes>>

\* Mutant: an empty value is committed and not taken for a deletion.
CommitKeepsEmpty ==
    /\ phase # "purging"
    /\ ws' = [k \in Keys |-> IF writes[k] = Missing THEN ws[k] ELSE writes[k]]
    /\ reads' = NoEntries
    /\ writes' = NoEntries
    /\ phase' = "new"
    /\ answer' = <<>>

\* The cache is consumed; the next transaction starts with a new one.
CommitToWorldState ==
    /\ phase # "purging"
    /\ ws' = [k \in Keys |-> IF writes[k] = Missing THEN ws[k] ELSE NonEmpty(writes[k])]
    /\ reads' = NoEntries
    /\ writes' = NoEntries
    /\ phase' = "new"
    /\ answer' = <<>>

Next ==
    \/ \E k \in Keys : Get(k) \/ EpochGet(k) \/ Contains(k) \/ PurgeBalance(k)
    \/ \E k \in Keys, v \in Values \cup {Empty} : Set(k, v) \/ EpochSet(k, v)
    \/ \E k \in Keys, v \in Values : PreCharge(k, v) \/ SetInWorldState(k, v)
    \/ Revert
    \/ CommitToWorldState

Spec == Init /\ [][Next]_vars

-----------------------------------------------------------------------------

\* The types of the variables.
TypeOK ==
    /\ ws \in [Keys -> Values \cup {None}]
    /\ reads \in [Keys -> Values \cup {None, Missing}]
    /\ writes \in [Keys -> Values \cup {Empty, Missing}]
    /\ phase \in {"new", "commands", "epoch", "purging", "settling"}

\* The read set never contradicts the world state while it can still be read: the
\* writes behind the back of the cache come before the first or after the last
\* look-up.
ReadsAreFresh ==
    /\ phase = "new" => reads = NoEntries /\ writes = NoEntries
    /\ phase # "settling" => \A k \in Keys : reads[k] \in {Missing, ws[k]}

\* Through caching, reverting, purging and committing, a transaction sees its own
\* writes over the committed values and commits all of them or none.
Abstract == INSTANCE StorageTransaction WITH
    committed <- ws,
    pending <- [k \in Keys |-> IF writes[k] = Missing THEN ws[k] ELSE NonEmpty(writes[k])]
CacheIsTransparent == Abstract!Spec

\* contains, and the get of next_epoch, answer what a metered get of the key would find,
\* except for a key that the transaction has deleted: contains may still find the value of
\* the world state, and next_epoch finds an empty value. contains never overlooks a value.
FacadesDifferOnlyOnDeletions ==
    \A k \in Keys :
        /\ \A found \in BOOLEAN :
              answer = <<"contains", k, found>> =>
                  found = (NonEmpty(get(k)) # None) \/ (found /\ writes[k] = Empty)
        /\ \A v \in Values \cup {None, Empty} :
              answer = <<"epoch_get", k, v>> =>
                  v = NonEmpty(get(k)) \/ (v = Empty /\ writes[k] = Empty)

=============================================================================
