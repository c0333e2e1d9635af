------------------------------ MODULE SyncMerge ------------------------------
(***************************************************************************)
(* mergeVaults of shared-crypto/src/sync-merge.ts, one step per iteration    *)
(* of its loops, and the life of a vault between two merges: the             *)
(* merged items become the vault, the user edits one (incrementRevision),    *)
(* and the vault of another device arrives.                                  *)
(*                                                                           *)
(* The function is atomic in JavaScript. It is taken apart here because      *)
(* what its loops build up for every input is an invariant of the steps.     *)
(*                                                                           *)
(* A JavaScript Map is a function (merged) with the order in which its       *)
(* keys were first set (order), which is the order of its values. Title,     *)
(* type and data are one version: mergeVaults compares all three.            *)
(***************************************************************************)
EXTENDS Integers, Sequences, FiniteSets

CONSTANTS
  Ids,        \* ids of items
  Versions,   \* what an item's title, type and data may be
  Revisions,  \* revision numbers
  MaxItems    \* bound: items of a vault that another device sends

ASSUME ConstantsAssumption == Revisions \subseteq Nat /\ MaxItems \in Nat

VARIABLES
  local,     \* localItems
  remote,    \* remoteItems
  localMap,  \* localMap
  merged,    \* merged: a key is an id and whether '_conflict' is added to it
  order,     \* the keys of merged, in the order of their insertion
  synced,    \* stats.synced
  newItems,  \* stats.newItems
  conflicts, \* conflicts.length
  i,         \* index of the loop that runs
  pc         \* "idle" between merges, then the loops "index", "remote", "local"; "done"

result == <<localMap, merged, order, synced, newItems, conflicts>>
vars == <<local, remote, result, i, pc>>

Item == [id : Ids, revision : Revisions, version : Versions, isConflict : BOOLEAN]
Key == Ids \X BOOLEAN

(* Array.from(merged.values()).                                              *)
Values == [k \in 1 .. Len(order) |-> merged[order[k]]]

(* No two items share an id.                                                 *)
Distinct(items) ==
  \A j, k \in 1 .. Len(items) : items[j].id = items[k].id => j = k

(* Two items that share an id are the two versions of a conflict, so flagged *)
(* and of one revision; an item with an id of its own is not flagged.        *)
WellPaired(items) ==
  \A j \in 1 .. Len(items) :
    LET Others == {k \in 1 .. Len(items) : k # j /\ items[k].id = items[j].id} IN
    /\ Cardinality(Others) <= 1
    /\ items[j].isConflict <=> Others # {}
    /\ \A k \in Others : /\ items[k].revision = items[j].revision
                         /\ items[k].version # items[j].version

(* The vaults that may take part: those mergeVaults and new items make.      *)
Vaults == {items \in UNION {[1 .. n -> Item] : n \in 0 .. MaxItems} : WellPaired(items)}

TypeOK ==
  /\ local \in Seq(Item)
  /\ remote \in Seq(Item)
  /\ order \in Seq(Key)
  /\ \A j, k \in 1 .. Len(order) : order[j] = order[k] => j = k
  /\ DOMAIN merged = {order[k] : k \in 1 .. Len(order)}
  /\ \A key \in DOMAIN merged : merged[key] \in Item /\ merged[key].id = key[1]
  /\ \A id \in DOMAIN localMap : localMap[id] \in Item /\ localMap[id].id = id
  /\ synced \in Nat /\ newItems \in Nat /\ conflicts \in Nat
  /\ i \in Nat \ {0}
  /\ pc \in {"idle", "index", "remote", "local", "done"}

EmptyResult ==
  /\ localMap = <<>> /\ merged = <<>> /\ order = <<>>
  /\ synced = 0 /\ newItems = 0 /\ conflicts = 0

Init ==
  /\ local \in Vaults /\ remote = <<>>
  /\ EmptyResult /\ i = 1 /\ pc = "idle"
-----------------------------------------------------------------------------
(* A Map that sets a key a second time adds it a second time.                *)
MutPutKey(keys, key) == Append(keys, key)

(* A Map keeps a key where it was first set, ...                             *)
PutKey(keys, key) ==
  IF \E k \in 1 .. Len(keys) : keys[k] = key THEN keys ELSE Append(keys, key)

(* ... with the value that was set last.                                     *)
Put(map, key, item) ==
  [k \in DOMAIN map \cup {key} |-> IF k = key THEN item ELSE map[k]]

(* The call: the items of another device, which may be the local ones again. *)
StartMerge ==
  /\ pc = "idle"
  /\ remote' \in Vaults \cup {local}
  /\ i' = 1 /\ pc' = "index"
  /\ UNCHANGED <<local, result>>

(* An iteration of the loop that fills localMap: of several items with one   *)
(* id the last stays.                                                        *)
IndexLocal ==
  /\ pc = "index" /\ i <= Len(local)
  /\ i' = i + 1
  /\ localMap' = Put(localMap, local[i].id, local[i])
  /\ UNCHANGED <<local, remote, merged, order, synced, newItems, conflicts, pc>>

EndIndex ==
  /\ pc = "index" /\ i > Len(local)
  /\ i' = 1 /\ pc' = "remote"
  /\ UNCHANGED <<local, remote, result>>

(* merged.set(key, item).                                                    *)
Set(key, item) ==
  /\ merged' = Put(merged, key, item)
  /\ order' = PutKey(order, key)

RemoteItem == remote[i]
LocalItem == localMap[RemoteItem.id]
IterateRemote ==
  /\ pc = "remote" /\ i <= Len(remote)
  /\ i' = i + 1
  /\ UNCHANGED <<local, remote, localMap, pc>>

(* if (!localItem).                                                          *)
TakeNew ==
  /\ IterateRemote
  /\ RemoteItem.id \notin DOMAIN localMap
  /\ Set(<<RemoteItem.id, FALSE>>, RemoteItem)
  /\ newItems' = newItems + 1
  /\ UNCHANGED <<synced, conflicts>>

(* if (remoteItem.revision > localItem.revision).                            *)
TakeNewer ==
  /\ IterateRemote
  /\ RemoteItem.id \in DOMAIN localMap
  /\ RemoteItem.revision > LocalItem.revision
  /\ Set(<<RemoteItem.id, FALSE>>, RemoteItem)
  /\ synced' = synced + 1
  /\ UNCHANGED <<newItems, conflicts>>

(* The wrong one of the two items is kept.                                   *)
MutKeepNewer ==
  /\ IterateRemote
  /\ RemoteItem.id \in DOMAIN localMap
  /\ RemoteItem.revision < LocalItem.revision
  /\ Set(<<RemoteItem.id, FALSE>>, RemoteItem)
  /\ UNCHANGED <<synced, newItems, conflicts>>

(* else if (remoteItem.revision < localItem.revision).                       *)
KeepNewer ==
  /\ IterateRemote
  /\ RemoteItem.id \in DOMAIN localMap
  /\ RemoteItem.revision < LocalItem.revision
  /\ Set(<<RemoteItem.id, FALSE>>, LocalItem)
  /\ UNCHANGED <<synced, newItems, conflicts>>

SameRevision ==
  RemoteItem.id \in DOMAIN localMap /\ RemoteItem.revision = LocalItem.revision

(* One key for both versions: the second set replaces the first.             *)
MutRecordConflict ==
  /\ IterateRemote
  /\ SameRevision /\ RemoteItem.version # LocalItem.version
  /\ Set(<<RemoteItem.id, FALSE>>, [RemoteItem EXCEPT !.isConflict = TRUE])
  /\ conflicts' = conflicts + 1
  /\ UNCHANGED <<synced, newItems>>

(* A conflict: both versions are kept, under two keys but with one id.       *)
RecordConflict ==
  /\ IterateRemote
  /\ SameRevision /\ RemoteItem.version # LocalItem.version
  /\ LET item == <<RemoteItem.id, FALSE>>
         other == <<RemoteItem.id, TRUE>>
     IN
     /\ merged' = Put(Put(merged, item, [LocalItem EXCEPT !.isConflict = TRUE]),
                      other, [RemoteItem EXCEPT !.isConflict = TRUE])
     /\ order' = PutKey(PutKey(order, item), other)
  /\ conflicts' = conflicts + 1
  /\ UNCHANGED <<synced, newItems>>

(* The same version on both sides.                                           *)
KeepEqual ==
  /\ IterateRemote
  /\ SameRevision /\ RemoteItem.version = LocalItem.version
  /\ Set(<<RemoteItem.id, FALSE>>, LocalItem)
  /\ UNCHANGED <<synced, newItems, conflicts>>

(* The end of the loop over remoteItems.                                     *)
EndRemote ==
  /\ pc = "remote" /\ i > Len(remote)
  /\ i' = 1 /\ pc' = "local"
  /\ UNCHANGED <<local, remote, result>>

(* The last loop does not ask whether merged has the item.                   *)
MutKeepLocal ==
  /\ pc = "local" /\ i <= Len(local)
  /\ i' = i + 1
  /\ Set(<<local[i].id, FALSE>>, local[i])
  /\ UNCHANGED <<local, remote, localMap, synced, newItems, conflicts, pc>>

(* An iteration of the last loop: the items only this device has.            *)
KeepLocal ==
  /\ pc = "local" /\ i <= Len(local)
  /\ i' = i + 1
  /\ LET key == <<local[i].id, FALSE>> IN
     IF key \in DOMAIN merged THEN UNCHANGED <<merged, order>> ELSE Set(key, local[i])
  /\ UNCHANGED <<local, remote, localMap, synced, newItems, conflicts, pc>>

(* The end of the last loop, and the return.                                 *)
EndLocal ==
  /\ pc = "local" /\ i > Len(local)
  /\ i' = 1 /\ pc' = "done"
  /\ UNCHANGED <<local, remote, result>>

(* The caller makes the merged items its vault.                              *)
Store ==
  /\ pc = "done"
  /\ local' = Values /\ remote' = <<>>
  /\ localMap' = <<>> /\ merged' = <<>> /\ order' = <<>>
  /\ synced' = 0 /\ newItems' = 0 /\ conflicts' = 0
  /\ i' = 1 /\ pc' = "idle"

(* incrementRevision, with what the user changed.                            *)
IncrementRevision(item, version) ==
  [item EXCEPT !.revision = item.revision + 1, !.version = version]

(* The user edits an item; one that is flagged leads to the conflict screen  *)
(* instead, which finds no partner under the same id (VaultPage 175-180 and  *)
(* 766-771).                                                                 *)
Edit ==
  /\ pc = "idle"
  /\ \E k \in 1 .. Len(local), version \in Versions :
       /\ ~local[k].isConflict
       /\ local[k].revision + 1 \in Revisions
       /\ local' = [local EXCEPT ![k] = IncrementRevision(local[k], version)]
  /\ UNCHANGED <<remote, result, i, pc>>

Next ==
  \/ StartMerge
  \/ IndexLocal
  \/ EndIndex
  \/ TakeNew
  \/ TakeNewer
  \/ KeepNewer
  \/ RecordConflict
  \/ KeepEqual
  \/ EndRemote
  \/ KeepLocal
  \/ EndLocal
  \/ Store

Spec == Init /\ [][Next]_vars

(* The same with a user who edits between the merges.                        *)
EditSpec == Init /\ [][Next \/ Edit]_vars
-----------------------------------------------------------------------------
(* The items both sides bring to the merge.                                  *)
Inputs == {local[k] : k \in 1 .. Len(local)} \cup {remote[k] : k \in 1 .. Len(remote)}
Outputs == {merged[key] : key \in DOMAIN merged}

(* The same record in the same version, whatever its conflict flag.          *)
Same(a, b) == a.id = b.id /\ a.revision = b.revision /\ a.version = b.version

(* MergedIsNewest, the reference definition of a merge: of vaults without    *)
(* unresolved conflicts the result holds, of each id, the versions of the    *)
(* highest revision either side has, each once, and nothing else. It names   *)
(* both sides alike, so both devices arrive at the same items whichever of   *)
(* them merges (sync-merge.ts 37-83).                                        *)
MergedIsNewest ==
  pc = "done" /\ Distinct(local) /\ Distinct(remote) =>
    LET Newest == {a \in Inputs : \A b \in Inputs : b.id = a.id => b.revision <= a.revision}
    IN /\ \A a \in Newest : \E out \in Outputs : Same(out, a)
       /\ \A out \in Outputs : \E a \in Newest : Same(out, a)
       /\ \A j, k \in DOMAIN merged : Same(merged[j], merged[k]) => j = k

(* CountsAddUp: what the user is told after a synchronisation accounts for   *)
(* every difference between the old and the new vault: items added, items    *)
(* replaced and second versions (sync-merge.ts 85-89, VaultPage 665-675).    *)
CountsAddUp ==
  pc = "done" /\ Distinct(local) /\ Distinct(remote) =>
    /\ Len(order) = Len(local) + newItems + conflicts
    /\ synced = Cardinality({k \in 1 .. Len(local) :
                               \A out \in Outputs : ~Same(out, local[k])})

(* The items of one id in a vault have one revision: so do those of every    *)
(* vault that merges make; the edit of one version of a pair ends it.        *)
Evenly(items) ==
  \A j, k \in 1 .. Len(items) :
    items[j].id = items[k].id => items[j].revision = items[k].revision

Even == Evenly(local) /\ Evenly(remote)

(* NeverOlder: no merge drops a record, and none takes a record back to an   *)
(* earlier revision, not even a merge of vaults that still hold both         *)
(* versions of a record, unless one of the two was edited (tasks.md 67,      *)
(* "higher revision wins").                                                  *)
NeverOlder ==
  pc = "done" =>
    \A a \in Inputs : \E out \in Outputs :
      out.id = a.id /\ (Even => out.revision >= a.revision)

(* NoVersionLost: a version gives way to a higher revision only; both sides  *)
(* of a conflict stay until the user picks one (PRD 3.3, line 83).           *)
NoVersionLost ==
  pc = "done" =>
    \A a \in Inputs : \E out \in Outputs :
      out.id = a.id /\ (out.revision > a.revision \/ Same(out, a))
=============================================================================
