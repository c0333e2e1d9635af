--------------------------- MODULE SyncMergeProofs ---------------------------
(***************************************************************************)
(* Proofs about SyncMerge: what mergeVaults computes, for vaults of any    *)
(* length over any ids, versions and revisions, after any number of merges *)
(* and edits.                                                              *)
(***************************************************************************)
EXTENDS SyncMerge, SequenceTheorems, FiniteSetTheorems, TLAPS

KeysOf(keys) == {keys[k] : k \in 1 .. Len(keys)}

NoKeyTwice(keys) == \A j, k \in 1 .. Len(keys) : keys[j] = keys[k] => j = k

(* TypeOK in parts: a vault, the Map's keys, and its values.                 *)
MapTypes ==
  /\ order \in Seq(Key)
  /\ NoKeyTwice(order)
  /\ DOMAIN merged = KeysOf(order)
  /\ \A key \in DOMAIN merged : merged[key] \in Item /\ merged[key].id = key[1]

LocalMapTypes ==
  \A id \in DOMAIN localMap : localMap[id] \in Item /\ localMap[id].id = id

CounterTypes ==
  /\ synced \in Nat /\ newItems \in Nat /\ conflicts \in Nat
  /\ i \in Nat \ {0}
  /\ pc \in {"idle", "index", "remote", "local", "done"}

(* TypeOK is its parts, before a step and after it.                          *)
LEMMA TypeParts ==
  /\ TypeOK <=> /\ local \in Seq(Item) /\ remote \in Seq(Item)
                /\ MapTypes /\ LocalMapTypes /\ CounterTypes
  /\ TypeOK' <=> /\ (local \in Seq(Item))' /\ (remote \in Seq(Item))'
                 /\ MapTypes' /\ LocalMapTypes' /\ CounterTypes'
  BY DEF TypeOK, MapTypes, LocalMapTypes, CounterTypes, KeysOf, NoKeyTwice

(* PutKey adds a key once.                                                   *)
LEMMA PutKeyAdds ==
  ASSUME NEW keys \in Seq(Key), NoKeyTwice(keys), NEW key \in Key
  PROVE  /\ PutKey(keys, key) \in Seq(Key)
         /\ NoKeyTwice(PutKey(keys, key))
         /\ KeysOf(PutKey(keys, key)) = KeysOf(keys) \cup {key}
<1>1. CASE \E k \in 1 .. Len(keys) : keys[k] = key
  BY <1>1 DEF PutKey, KeysOf
<1>2. CASE ~ \E k \in 1 .. Len(keys) : keys[k] = key
  <2>1. PutKey(keys, key) = Append(keys, key)
    BY <1>2 DEF PutKey
  <2>2. /\ Append(keys, key) \in Seq(Key)
        /\ Len(Append(keys, key)) = Len(keys) + 1
        /\ \A k \in 1 .. Len(keys) : Append(keys, key)[k] = keys[k]
        /\ Append(keys, key)[Len(keys) + 1] = key
        /\ Len(keys) \in Nat
    BY AppendProperties, LenProperties
  <2>3. NoKeyTwice(Append(keys, key))
    BY <1>2, <2>2 DEF NoKeyTwice
  <2>4. KeysOf(Append(keys, key)) = KeysOf(keys) \cup {key}
    BY <2>2 DEF KeysOf
  <2> QED
    BY <2>1, <2>2, <2>3, <2>4
<1> QED
  BY <1>1, <1>2

(* Map.set keeps the keys once each and every value under its id.            *)
LEMMA SetType ==
  ASSUME MapTypes, NEW key \in Key, NEW item \in Item, item.id = key[1], Set(key, item)
  PROVE  MapTypes'
<1>1. order' = PutKey(order, key) /\ merged' = Put(merged, key, item)
  BY DEF Set
<1>2. /\ order \in Seq(Key) /\ NoKeyTwice(order) /\ DOMAIN merged = KeysOf(order)
      /\ \A k \in DOMAIN merged : merged[k] \in Item /\ merged[k].id = k[1]
  BY DEF MapTypes
<1> DEFINE added == PutKey(order, key)
<1>3. added \in Seq(Key) /\ NoKeyTwice(added) /\ KeysOf(added) = KeysOf(order) \cup {key}
  BY <1>2, PutKeyAdds
<1>4. /\ DOMAIN merged' = DOMAIN merged \cup {key}
      /\ merged'[key] = item
      /\ \A k \in DOMAIN merged \ {key} : merged'[k] = merged[k]
  BY <1>1 DEF Put
<1> HIDE DEF added
<1>5. order' = added
  BY <1>1 DEF added
<1>6. NoKeyTwice(order') /\ KeysOf(order') = KeysOf(order) \cup {key}
  BY <1>3, <1>5
<1>7. \A k \in DOMAIN merged' : merged'[k] \in Item /\ merged'[k].id = k[1]
  BY <1>2, <1>4
<1> QED
  BY <1>2, <1>3, <1>4, <1>5, <1>6, <1>7 DEF MapTypes

(* The vaults that a merge may start from are sequences of items.            *)
LEMMA VaultType ==
  ASSUME NEW items \in Vaults
  PROVE  items \in Seq(Item)
  BY ConstantsAssumption, IsASeq DEF Vaults

(* The values of the Map, in the order of its keys, are items.               *)
LEMMA ValuesType ==
  ASSUME MapTypes
  PROVE  Values \in Seq(Item)
<1>1. Len(order) \in Nat
  BY LenProperties DEF MapTypes
<1>2. \A k \in 1 .. Len(order) : merged[order[k]] \in Item
  BY DEF MapTypes, KeysOf
<1> QED
  BY <1>1, <1>2, IsASeq DEF Values
-----------------------------------------------------------------------------
(* What an iteration over remoteItems does, whichever branch it takes: it    *)
(* gives the item's key or both its keys one of the two items, of the higher *)
(* revision, and both items only if they differ.                             *)
RemoteStep == TakeNew \/ TakeNewer \/ KeepNewer \/ RecordConflict \/ KeepEqual

(* The item of the iteration has both its keys.                              *)
LEMMA RemoteItemType ==
  ASSUME TypeOK, IterateRemote
  PROVE  /\ i \in 1 .. Len(remote) /\ RemoteItem \in Item
         /\ <<RemoteItem.id, FALSE>> \in Key /\ <<RemoteItem.id, TRUE>> \in Key
         /\ i' \in Nat \ {0}
<1>1. remote \in Seq(Item) /\ i \in Nat \ {0} /\ i <= Len(remote) /\ Len(remote) \in Nat
  BY LenProperties DEF TypeOK, IterateRemote
<1>2. i \in 1 .. Len(remote)
  BY <1>1
<1>3. RemoteItem \in Item
  BY <1>1, <1>2, ElementOfSeq DEF RemoteItem
<1>4. RemoteItem.id \in Ids
  BY <1>3 DEF Item
<1>5. <<RemoteItem.id, FALSE>> \in Key /\ <<RemoteItem.id, TRUE>> \in Key
  BY <1>4 DEF Key
<1>6. i' = i + 1
  BY DEF IterateRemote
<1> QED
  BY <1>1, <1>2, <1>3, <1>5, <1>6

(* Every branch of the loop over remoteItems keeps the types, and does to    *)
(* merged what is said above.                                                *)
LEMMA RemoteStepFacts ==
  ASSUME TypeOK, RemoteStep
  PROVE  /\ IterateRemote
         /\ MapTypes' /\ CounterTypes'
         /\ \E Ks \in SUBSET {<<RemoteItem.id, FALSE>>, <<RemoteItem.id, TRUE>>} :
              /\ <<RemoteItem.id, FALSE>> \in Ks
              /\ DOMAIN merged' = DOMAIN merged \cup Ks
              /\ \A k \in DOMAIN merged \ Ks : merged'[k] = merged[k]
              /\ \A k \in Ks :
                   /\ \/ Same(merged'[k], RemoteItem)
                      \/ RemoteItem.id \in DOMAIN localMap /\ Same(merged'[k], LocalItem)
                   /\ merged'[k].revision >= RemoteItem.revision
                   /\ RemoteItem.id \in DOMAIN localMap =>
                        merged'[k].revision >= LocalItem.revision
              /\ \E k \in Ks : \/ merged'[k].revision > RemoteItem.revision
                               \/ Same(merged'[k], RemoteItem)
              /\ RemoteItem.id \in DOMAIN localMap =>
                   \E k \in Ks : \/ merged'[k].revision > LocalItem.revision
                                 \/ Same(merged'[k], LocalItem)
              /\ <<RemoteItem.id, TRUE>> \in Ks =>
                   merged'[<<RemoteItem.id, TRUE>>].version
                     # merged'[<<RemoteItem.id, FALSE>>].version
<1> DEFINE item == <<RemoteItem.id, FALSE>>
           other == <<RemoteItem.id, TRUE>>
<1>0. IterateRemote
  BY DEF RemoteStep, TakeNew, TakeNewer, KeepNewer, RecordConflict, KeepEqual
<1>1. /\ i \in 1 .. Len(remote) /\ RemoteItem \in Item
      /\ item \in Key /\ other \in Key /\ i' \in Nat \ {0}
  BY <1>0, RemoteItemType
<1>2. ASSUME RemoteItem.id \in DOMAIN localMap
      PROVE  LocalItem \in Item /\ LocalItem.id = RemoteItem.id
  BY <1>2 DEF TypeOK, LocalItem
<1>3. CounterTypes'
  BY <1>0, <1>1 DEF RemoteStep, TakeNew, TakeNewer, KeepNewer, RecordConflict, KeepEqual,
     CounterTypes, TypeOK, IterateRemote
<1>4. MapTypes
  BY TypeParts
<1>5. \A x \in Item : x.revision \in Int
  <2>1. \A x \in Item : x.revision \in Revisions
    BY DEF Item
  <2>2. Revisions \subseteq Int
    BY ConstantsAssumption
  <2> QED
    BY <2>1, <2>2
<1>6. item # other /\ item[1] = RemoteItem.id /\ other[1] = RemoteItem.id
  OBVIOUS
<1>7. CASE TakeNew \/ TakeNewer \/ KeepNewer \/ KeepEqual
  <2>1. PICK new \in Item :
          /\ Set(item, new) /\ new.id = RemoteItem.id
          /\ \/ new = RemoteItem
             \/ RemoteItem.id \in DOMAIN localMap /\ new = LocalItem
          /\ new.revision >= RemoteItem.revision
          /\ RemoteItem.id \in DOMAIN localMap => new.revision >= LocalItem.revision
          /\ new.revision > RemoteItem.revision \/ Same(new, RemoteItem)
          /\ RemoteItem.id \in DOMAIN localMap =>
               new.revision > LocalItem.revision \/ Same(new, LocalItem)
    <3>1. CASE TakeNew
      BY <3>1, <1>1, <1>5 DEF TakeNew, Same
    <3>2. CASE TakeNewer
      BY <3>2, <1>1, <1>2, <1>5 DEF TakeNewer, Same
    <3>3. CASE KeepNewer
      BY <3>3, <1>1, <1>2, <1>5 DEF KeepNewer, Same
    <3>4. CASE KeepEqual
      BY <3>4, <1>1, <1>2, <1>5 DEF KeepEqual, SameRevision, Same
    <3> QED
      BY <1>7, <3>1, <3>2, <3>3, <3>4
  <2>2. MapTypes'
    BY <1>1, <1>4, <1>6, <2>1, SetType
  <2>3. merged' = Put(merged, item, new)
    BY <2>1 DEF Set
  <2>4. /\ DOMAIN merged' = DOMAIN merged \cup {item}
        /\ merged'[item] = new
        /\ \A k \in DOMAIN merged \ {item} : merged'[k] = merged[k]
    BY <2>3 DEF Put
  <2>5. \/ Same(new, RemoteItem)
        \/ RemoteItem.id \in DOMAIN localMap /\ Same(new, LocalItem)
    BY <2>1 DEF Same
  <2>6. {item} \in SUBSET {item, other} /\ other \notin {item}
    BY <1>6
  <2> QED
    BY <1>0, <1>3, <2>1, <2>2, <2>4, <2>5, <2>6
<1>8. CASE RecordConflict
  <2> DEFINE a == [LocalItem EXCEPT !.isConflict = TRUE]
             b == [RemoteItem EXCEPT !.isConflict = TRUE]
             half == Put(merged, item, a)
  <2>1. /\ RemoteItem.id \in DOMAIN localMap
        /\ RemoteItem.revision = LocalItem.revision
        /\ RemoteItem.version # LocalItem.version
        /\ merged' = Put(half, other, b)
        /\ order' = PutKey(PutKey(order, item), other)
    BY <1>8 DEF RecordConflict, SameRevision
  <2>2. /\ a \in Item /\ a.id = RemoteItem.id /\ Same(a, LocalItem)
        /\ b \in Item /\ b.id = RemoteItem.id /\ Same(b, RemoteItem)
    BY <1>1, <1>2, <2>1 DEF Item, Same
  <2>3. /\ DOMAIN half = DOMAIN merged \cup {item}
        /\ half[item] = a
        /\ \A k \in DOMAIN merged \ {item} : half[k] = merged[k]
    BY DEF Put
  <2> HIDE DEF a, b, half
  <2>4. /\ DOMAIN merged' = DOMAIN half \cup {other}
        /\ merged'[other] = b
        /\ \A k \in DOMAIN half \ {other} : merged'[k] = half[k]
    BY <2>1 DEF Put
  <2>5. /\ DOMAIN merged' = DOMAIN merged \cup {item, other}
        /\ merged'[item] = a /\ merged'[other] = b
        /\ \A k \in DOMAIN merged \ {item, other} : merged'[k] = merged[k]
    BY <1>6, <2>3, <2>4
  <2>6. /\ order \in Seq(Key) /\ NoKeyTwice(order) /\ DOMAIN merged = KeysOf(order)
    BY <1>4 DEF MapTypes
  <2> DEFINE once == PutKey(order, item)
  <2>7. once \in Seq(Key) /\ NoKeyTwice(once) /\ KeysOf(once) = KeysOf(order) \cup {item}
    BY <1>1, <2>6, PutKeyAdds
  <2> HIDE DEF once
  <2>8. /\ order' = PutKey(once, other)
        /\ order' \in Seq(Key) /\ NoKeyTwice(PutKey(once, other))
        /\ KeysOf(PutKey(once, other)) = KeysOf(once) \cup {other}
    BY <1>1, <2>1, <2>7, PutKeyAdds DEF once
  <2>9. NoKeyTwice(order') /\ KeysOf(order') = KeysOf(order) \cup {item, other}
    BY <2>7, <2>8
  <2>10. MapTypes'
    BY <1>4, <1>6, <2>2, <2>5, <2>6, <2>8, <2>9 DEF MapTypes
  <2>11. /\ a.revision >= RemoteItem.revision /\ a.revision >= LocalItem.revision
         /\ b.revision >= RemoteItem.revision /\ b.revision >= LocalItem.revision
         /\ a.version # b.version
    BY <1>5, <2>1, <2>2 DEF Same
  <2>12. {item, other} \in SUBSET {item, other}
    OBVIOUS
  <2> QED
    BY <1>0, <1>3, <2>1, <2>2, <2>5, <2>10, <2>11, <2>12
<1> QED
  BY <1>7, <1>8 DEF RemoteStep
-----------------------------------------------------------------------------
(* The items of a vault stay in their types when the user edits one.         *)
LEMMA EditType ==
  ASSUME TypeOK, Edit
  PROVE  TypeOK'
<1>1. PICK k \in 1 .. Len(local), v \in Versions :
        /\ local[k].revision + 1 \in Revisions
        /\ local' = [local EXCEPT ![k] = IncrementRevision(local[k], v)]
  BY DEF Edit
<1>2. local[k] \in Item
  BY ElementOfSeq DEF TypeOK
<1>3. IncrementRevision(local[k], v) \in Item
  BY <1>1, <1>2 DEF Item, IncrementRevision
<1>4. local \in Seq(Item)
  BY DEF TypeOK
<1>5. local' \in Seq(Item)
  BY <1>1, <1>3, <1>4, ExceptSeq
<1> QED
  BY <1>5, TypeParts DEF Edit, result, MapTypes, LocalMapTypes, CounterTypes

(* The loop that builds localMap keeps the types.                            *)
LEMMA IndexLocalType ==
  ASSUME TypeOK, IndexLocal
  PROVE  TypeOK'
<1>1. local \in Seq(Item) /\ i \in 1 .. Len(local) /\ i' = i + 1
  BY LenProperties DEF TypeOK, IndexLocal
<1>2. local[i] \in Item
  BY <1>1, ElementOfSeq
<1>3. localMap' = Put(localMap, local[i].id, local[i])
  BY DEF IndexLocal
<1>4. LocalMapTypes'
  BY <1>2, <1>3 DEF Put, LocalMapTypes, TypeOK
<1>5. CounterTypes'
  BY <1>1 DEF IndexLocal, TypeOK, CounterTypes
<1>6. MapTypes'
  BY TypeParts DEF IndexLocal, MapTypes
<1> QED
  BY <1>4, <1>5, <1>6, TypeParts DEF IndexLocal

(* So does the loop over localItems.                                         *)
LEMMA KeepLocalType ==
  ASSUME TypeOK, KeepLocal
  PROVE  TypeOK'
<1>1. local \in Seq(Item) /\ i \in 1 .. Len(local) /\ i' = i + 1
  BY LenProperties DEF TypeOK, KeepLocal
<1>2. local[i] \in Item /\ <<local[i].id, FALSE>> \in Key
  <2>1. local[i] \in Item
    BY <1>1, ElementOfSeq
  <2>2. local[i].id \in Ids
    BY <2>1 DEF Item
  <2> QED
    BY <2>1, <2>2 DEF Key
<1>3. CounterTypes'
  BY <1>1 DEF KeepLocal, TypeOK, CounterTypes
<1>4. CASE <<local[i].id, FALSE>> \in DOMAIN merged
  BY <1>3, <1>4, TypeParts DEF KeepLocal, MapTypes, LocalMapTypes
<1>5. CASE <<local[i].id, FALSE>> \notin DOMAIN merged
  <2>1. MapTypes /\ Set(<<local[i].id, FALSE>>, local[i])
    BY <1>5, TypeParts DEF KeepLocal
  <2>2. MapTypes'
    BY <1>2, <2>1, SetType
  <2> QED
    BY <1>3, <2>2, TypeParts DEF KeepLocal, LocalMapTypes
<1> QED
  BY <1>4, <1>5

(* The empty Map has its type.                                               *)
LEMMA EmptyMapType ==
  ASSUME order = <<>>, merged = <<>>
  PROVE  MapTypes
<1>1. order \in Seq(Key) /\ Len(order) = 0
  BY EmptySeq
<1>2. DOMAIN merged = {}
  OBVIOUS
<1> QED
  BY <1>1, <1>2 DEF MapTypes, NoKeyTwice, KeysOf

EmptyMaps == order = <<>> /\ merged = <<>> /\ localMap = <<>>

(* So have both Maps, before a step and after it.                            *)
LEMMA EmptyMapsType ==
  /\ EmptyMaps => MapTypes /\ LocalMapTypes
  /\ EmptyMaps' => MapTypes' /\ LocalMapTypes'
<1>1. EmptyMaps => MapTypes /\ LocalMapTypes
  <2>1. EmptyMaps => DOMAIN localMap = {}
    BY DEF EmptyMaps
  <2> QED
    BY <2>1, EmptyMapType DEF EmptyMaps, LocalMapTypes
<1>2. EmptyMaps' => MapTypes' /\ LocalMapTypes'
  BY <1>1, PTL
<1> QED
  BY <1>1, <1>2

(* The vaults start in their types.                                          *)
LEMMA TypeInit ==
  ASSUME Init
  PROVE  TypeOK
<1>1. local \in Seq(Item) /\ remote \in Seq(Item)
  BY VaultType, EmptySeq DEF Init
<1>2. EmptyMaps
  BY DEF Init, EmptyResult, EmptyMaps
<1>3. CounterTypes
  BY DEF Init, EmptyResult, CounterTypes
<1> QED
  BY <1>1, <1>2, <1>3, EmptyMapsType, TypeParts

(* Every step of a merge and every edit keeps the types.                     *)
LEMMA TypeStep ==
  ASSUME TypeOK, [Next \/ Edit]_vars
  PROVE  TypeOK'
<1>1. CASE StartMerge
  <2>1. remote' \in Seq(Item)
    BY <1>1, VaultType DEF StartMerge, TypeOK
  <2> QED
    BY <1>1, <2>1, TypeParts DEF StartMerge, result, MapTypes, LocalMapTypes, CounterTypes
<1>2. CASE IndexLocal
  BY <1>2, IndexLocalType
<1>3. CASE RemoteStep
  BY <1>3, RemoteStepFacts, TypeParts DEF IterateRemote, LocalMapTypes
<1>4. CASE KeepLocal
  BY <1>4, KeepLocalType
<1>5. CASE EndIndex \/ EndRemote \/ EndLocal
  BY <1>5, TypeParts DEF EndIndex, EndRemote, EndLocal, result, MapTypes, LocalMapTypes,
     CounterTypes
<1>6. CASE Store
  <2>1. local' \in Seq(Item) /\ remote' \in Seq(Item)
    BY <1>6, ValuesType, EmptySeq, TypeParts DEF Store
  <2>2. EmptyMaps' /\ CounterTypes'
    BY <1>6 DEF Store, EmptyMaps, CounterTypes
  <2> QED
    BY <2>1, <2>2, EmptyMapsType, TypeParts
<1>7. CASE Edit
  BY <1>7, EditType
<1>8. CASE UNCHANGED vars
  BY <1>8, TypeParts DEF vars, result, MapTypes, LocalMapTypes, CounterTypes
<1> QED
  BY <1>1, <1>2, <1>3, <1>4, <1>5, <1>6, <1>7, <1>8 DEF Next, RemoteStep

(* TypeCorrect: the Map has its keys once each and in insertion order, and   *)
(* every value has the id of its key, whatever is merged (SyncMerge!TypeOK). *)
THEOREM TypeCorrect == EditSpec => []TypeOK
<1>1. Init => TypeOK
  BY TypeInit
<1>2. TypeOK /\ [Next \/ Edit]_vars => TypeOK'
  BY TypeStep
<1> QED
  BY <1>1, <1>2, PTL DEF EditSpec
-----------------------------------------------------------------------------
(* Before the loops the Maps are empty.                                      *)
Fresh ==
  /\ pc \in {"idle", "index"} => DOMAIN merged = {}
  /\ pc = "idle" => DOMAIN localMap = {}

(* localMap holds an item of this vault for each id passed.                  *)
Indexed ==
  /\ \A id \in DOMAIN localMap : \E j \in 1 .. Len(local) : localMap[id] = local[j]
  /\ pc = "index" => \A j \in 1 .. Len(local) : j < i => local[j].id \in DOMAIN localMap
  /\ pc = "remote" => \A j \in 1 .. Len(local) : local[j].id \in DOMAIN localMap

(* merged holds versions of the inputs only, ...                             *)
FromInputs == \A k \in DOMAIN merged : \E a \in Inputs : Same(merged[k], a)

(* ... each as new as any input of its id, ...                               *)
UpToDate ==
  Even => \A k \in DOMAIN merged : \A a \in Inputs :
            a.id = k[1] => a.revision <= merged[k].revision

(* ... and has every id that the loops have passed.                          *)
Has(id) == <<id, FALSE>> \in DOMAIN merged

Covered ==
  /\ pc = "remote" => \A j \in 1 .. Len(remote) : j < i => Has(remote[j].id)
  /\ pc \in {"local", "done"} => \A j \in 1 .. Len(remote) : Has(remote[j].id)
  /\ pc = "local" => \A j \in 1 .. Len(local) : j < i => Has(local[j].id)
  /\ pc = "done" => \A j \in 1 .. Len(local) : Has(local[j].id)

Loops == Fresh /\ Indexed /\ FromInputs /\ UpToDate /\ Covered

(* The vaults that a merge may start from have one revision for each id.     *)
LEMMA PairedIsEven ==
  ASSUME NEW items \in Vaults
  PROVE  Evenly(items)
<1>1. WellPaired(items)
  BY DEF Vaults
<1> SUFFICES ASSUME NEW j \in 1 .. Len(items), NEW k \in 1 .. Len(items),
                    items[j].id = items[k].id, j # k
             PROVE  items[j].revision = items[k].revision
  BY DEF Evenly
<1>2. k \in {l \in 1 .. Len(items) : l # j /\ items[l].id = items[j].id}
  OBVIOUS
<1> QED
  BY <1>1, <1>2 DEF WellPaired

(* The revisions of items are comparable numbers.                            *)
LEMMA RevisionType ==
  ASSUME TypeOK
  PROVE  /\ \A a \in Item : a.revision \in Int
         /\ \A a \in Inputs : a \in Item
         /\ \A k \in DOMAIN merged : merged[k] \in Item /\ merged[k].id = k[1]
         /\ Len(local) \in Nat /\ Len(remote) \in Nat
<1>1. \A a \in Item : a.revision \in Revisions
  BY DEF Item
<1>2. \A a \in Item : a.revision \in Int
  <2>1. Revisions \subseteq Int
    BY ConstantsAssumption
  <2> QED
    BY <1>1, <2>1
<1>3. local \in Seq(Item) /\ remote \in Seq(Item)
  BY DEF TypeOK
<1>4. \A a \in Inputs : a \in Item
  BY <1>3, ElementOfSeq DEF Inputs
<1> QED
  BY <1>2, <1>3, <1>4, LenProperties DEF TypeOK

(* What an index has passed after one step more, and when a loop ends.       *)
LEMMA Passed ==
  ASSUME NEW n \in Nat, NEW m \in Nat
  PROVE  /\ \A j \in 1 .. n : j < m + 1 => j < m \/ j = m
         /\ m > n => \A j \in 1 .. n : j < m
         /\ \A j \in 1 .. n : ~(j < 1)
OBVIOUS

(* A step that leaves the vaults and the Maps alone, and where it goes.      *)
LEMMA SameMaps ==
  ASSUME UNCHANGED <<local, remote, localMap, merged>>, Loops,
         pc' \notin {"idle", "index"}
  PROVE  /\ Fresh' /\ FromInputs' /\ UpToDate'
         /\ \A id : Has(id)' <=> Has(id)
<1>1. Inputs' = Inputs /\ (Even' <=> Even)
  BY DEF Inputs, Even, Evenly
<1>2. Fresh'
  BY DEF Fresh
<1>3. FromInputs'
  BY <1>1 DEF Loops, FromInputs, Same
<1>4. UpToDate'
  BY <1>1 DEF Loops, UpToDate
<1> QED
  BY <1>2, <1>3, <1>4 DEF Has

(* The loop that builds localMap passes one item.                            *)
LEMMA IndexStep ==
  ASSUME TypeOK, Loops, IndexLocal
  PROVE  Loops'
<1>1. /\ i \in 1 .. Len(local) /\ i' = i + 1 /\ pc = "index" /\ pc' = "index"
      /\ localMap' = Put(localMap, local[i].id, local[i])
      /\ UNCHANGED <<local, remote, merged>>
  BY RevisionType DEF IndexLocal, TypeOK
<1>2. Indexed'
  <2>1. DOMAIN localMap' = DOMAIN localMap \cup {local[i].id}
    BY <1>1 DEF Put
  <2>2. \A id \in DOMAIN localMap' :
          localMap'[id] = IF id = local[i].id THEN local[i] ELSE localMap[id]
    BY <1>1 DEF Put
  <2>3. \A id \in DOMAIN localMap' : \E j \in 1 .. Len(local) : localMap'[id] = local[j]
    BY <1>1, <2>1, <2>2 DEF Loops, Indexed
  <2>4. \A j \in 1 .. Len(local) : j < i' => local[j].id \in DOMAIN localMap'
    BY <1>1, <2>1 DEF Loops, Indexed
  <2> QED BY <1>1, <2>3, <2>4 DEF Indexed
<1> QED
  BY <1>1, <1>2 DEF Loops, Fresh, FromInputs, UpToDate, Covered, Has, Even, Evenly, Inputs

(* The loop over remoteItems passes one item.                                *)
LEMMA RemoteStepLoops ==
  ASSUME TypeOK, Loops, RemoteStep
  PROVE  Loops'
<1> DEFINE id == RemoteItem.id
<1>1. /\ IterateRemote
      /\ i \in 1 .. Len(remote) /\ RemoteItem = remote[i] /\ RemoteItem \in Inputs
      /\ i' = i + 1 /\ pc = "remote" /\ pc' = "remote"
      /\ UNCHANGED <<local, remote, localMap>>
  BY RemoteStepFacts, RemoteItemType DEF IterateRemote, RemoteItem, Inputs
<1>2. PICK Ks \in SUBSET {<<id, FALSE>>, <<id, TRUE>>} :
        /\ <<id, FALSE>> \in Ks
        /\ DOMAIN merged' = DOMAIN merged \cup Ks
        /\ \A k \in DOMAIN merged \ Ks : merged'[k] = merged[k]
        /\ \A k \in Ks :
             /\ \/ Same(merged'[k], RemoteItem)
                \/ id \in DOMAIN localMap /\ Same(merged'[k], LocalItem)
             /\ merged'[k].revision >= RemoteItem.revision
             /\ id \in DOMAIN localMap => merged'[k].revision >= LocalItem.revision
  BY RemoteStepFacts
<1>3. ASSUME id \in DOMAIN localMap
      PROVE  LocalItem \in Inputs /\ LocalItem.id = id
  BY <1>3 DEF Loops, Indexed, LocalItem, Inputs, TypeOK
<1>4. FromInputs'
  <2>1. \A k \in Ks : \E a \in Inputs : Same(merged'[k], a)
    BY <1>1, <1>2, <1>3
  <2>2. \A k \in DOMAIN merged \ Ks : \E a \in Inputs : Same(merged'[k], a)
    BY <1>2 DEF Loops, FromInputs
  <2>3. Inputs' = Inputs
    BY <1>1 DEF Inputs
  <2> QED
    BY <1>2, <2>1, <2>2, <2>3 DEF FromInputs, Same
<1>5. UpToDate'
  <2> SUFFICES ASSUME Even, NEW k \in DOMAIN merged', NEW a \in Inputs, a.id = k[1]
               PROVE  a.revision <= merged'[k].revision
    BY <1>1 DEF UpToDate, Even, Inputs
  <2>1. CASE k \in Ks
    <3>1. a.id = id
      <4>1. k = <<id, FALSE>> \/ k = <<id, TRUE>>
        BY <1>2, <2>1
      <4>2. <<id, FALSE>>[1] = id /\ <<id, TRUE>>[1] = id
        OBVIOUS
      <4>3. k[1] = id
        BY <4>1, <4>2
      <4> QED
        BY <4>3
    <3>2. CASE \E j \in 1 .. Len(remote) : a = remote[j]
      <4>1. a.revision = RemoteItem.revision
        BY <1>1, <3>1, <3>2 DEF Even, Evenly
      <4> QED
        BY <1>1, <1>2, <2>1, <4>1, RevisionType, RemoteStepFacts, TypeParts DEF MapTypes
    <3>3. CASE \E j \in 1 .. Len(local) : a = local[j]
      <4>1. id \in DOMAIN localMap
        BY <1>1, <3>1, <3>3 DEF Loops, Indexed
      <4>2. a.revision = LocalItem.revision
        BY <1>3, <3>1, <3>3, <4>1 DEF Even, Evenly, Loops, Indexed, LocalItem
      <4> QED
        BY <1>2, <1>3, <2>1, <4>1, <4>2, RevisionType, RemoteStepFacts DEF MapTypes
    <3> QED
      BY <3>2, <3>3 DEF Inputs
  <2>2. CASE k \notin Ks
    BY <1>2, <2>2 DEF Loops, UpToDate
  <2> QED
    BY <2>1, <2>2
<1>6. Covered'
  <2>1. <<id, FALSE>> \in DOMAIN merged' /\ \A x : Has(x) => Has(x)'
    BY <1>2 DEF Has
  <2>2. \A j \in 1 .. Len(remote) : j < i + 1 => j < i \/ j = i
    BY <1>1, Passed, RevisionType DEF TypeOK
  <2>3. \A j \in 1 .. Len(remote) : j < i => Has(remote[j].id)
    BY <1>1 DEF Loops, Covered
  <2>4. \A j \in 1 .. Len(remote) : j < i + 1 => <<remote[j].id, FALSE>> \in DOMAIN merged'
    BY <1>1, <2>1, <2>2, <2>3 DEF Has
  <2> QED
    BY <1>1, <2>4 DEF Covered, Has
<1>7. Fresh' /\ Indexed'
  BY <1>1 DEF Loops, Fresh, Indexed
<1> QED
  BY <1>4, <1>5, <1>6, <1>7 DEF Loops

(* An id that is in merged counts as passed.                                 *)
LEMMA LocalPassed ==
  ASSUME TypeOK, Loops, i' = i + 1, pc = "local", pc' = "local",
         UNCHANGED <<local, remote>>,
         <<local[i].id, FALSE>> \in DOMAIN merged', \A x : Has(x) => Has(x)'
  PROVE  Covered'
<1>1. \A j \in 1 .. Len(local) : j < i + 1 => j < i \/ j = i
  BY Passed, RevisionType DEF TypeOK
<1>2. /\ \A j \in 1 .. Len(local) : j < i => Has(local[j].id)
      /\ \A j \in 1 .. Len(remote) : Has(remote[j].id)
  BY DEF Loops, Covered
<1>3. \A j \in 1 .. Len(local) : j < i + 1 => <<local[j].id, FALSE>> \in DOMAIN merged'
  BY <1>1, <1>2 DEF Has
<1>4. \A j \in 1 .. Len(remote) : <<remote[j].id, FALSE>> \in DOMAIN merged'
  BY <1>2 DEF Has
<1> QED
  BY <1>3, <1>4 DEF Covered, Has

(* The loop over localItems passes one item.                                 *)
LEMMA KeepLocalLoops ==
  ASSUME TypeOK, Loops, KeepLocal
  PROVE  Loops'
<1> DEFINE key == <<local[i].id, FALSE>>
<1>1. /\ i \in 1 .. Len(local) /\ i' = i + 1 /\ pc = "local" /\ pc' = "local"
      /\ UNCHANGED <<local, remote, localMap>>
      /\ local[i] \in Inputs /\ Inputs' = Inputs
  BY RevisionType DEF KeepLocal, TypeOK, Inputs
<1>2. Fresh' /\ Indexed'
  BY <1>1 DEF Loops, Fresh, Indexed
<1>3. CASE key \in DOMAIN merged
  <2>1. merged' = merged
    BY <1>3 DEF KeepLocal
  <2>2. FromInputs' /\ UpToDate'
    BY <1>1, <2>1, SameMaps
  <2>3. <<local[i].id, FALSE>> \in DOMAIN merged' /\ \A x : Has(x) => Has(x)'
    BY <1>3, <2>1 DEF Has
  <2> QED
    BY <1>1, <1>2, <2>2, <2>3, LocalPassed DEF Loops
<1>4. CASE key \notin DOMAIN merged
  <2>1. merged' = Put(merged, key, local[i])
    BY <1>4 DEF KeepLocal, Set
  <2>2. /\ DOMAIN merged' = DOMAIN merged \cup {key}
        /\ merged'[key] = local[i]
        /\ \A k \in DOMAIN merged : merged'[k] = merged[k]
    BY <1>4, <2>1 DEF Put
  <2>3. FromInputs'
    BY <1>1, <2>2 DEF Loops, FromInputs, Same
  <2>4. UpToDate'
    <3> SUFFICES ASSUME Even, NEW k \in DOMAIN merged', NEW a \in Inputs, a.id = k[1]
                 PROVE  a.revision <= merged'[k].revision
      BY <1>1 DEF UpToDate, Even
    <3>1. CASE k = key
      <4>1. \A j \in 1 .. Len(remote) : remote[j].id # local[i].id
        BY <1>1, <1>4 DEF Loops, Covered, Has
      <4>2. PICK j \in 1 .. Len(local) : a = local[j]
        BY <3>1, <4>1 DEF Inputs
      <4>3. a.revision = local[i].revision
        BY <1>1, <3>1, <4>2 DEF Even, Evenly
      <4> QED
        BY <1>1, <2>2, <3>1, <4>3, RevisionType
    <3>2. CASE k # key
      BY <2>2, <3>2 DEF Loops, UpToDate
    <3> QED
      BY <3>1, <3>2
  <2>5. <<local[i].id, FALSE>> \in DOMAIN merged' /\ \A x : Has(x) => Has(x)'
    BY <2>2 DEF Has
  <2>6. Covered'
    BY <1>1, <2>5, LocalPassed
  <2> QED
    BY <1>2, <2>3, <2>4, <2>6 DEF Loops
<1> QED
  BY <1>3, <1>4

(* Before a merge the loops have passed nothing.                             *)
LEMMA LoopsInit ==
  ASSUME Init
  PROVE  Loops
<1>1. DOMAIN merged = {} /\ DOMAIN localMap = {} /\ pc = "idle"
  BY DEF Init, EmptyResult
<1> QED
  BY <1>1 DEF Loops, Fresh, Indexed, FromInputs, UpToDate, Covered, Has

(* Every step keeps what the loops have done.                                *)
LEMMA LoopsStep ==
  ASSUME TypeOK, Loops, [Next \/ Edit]_vars
  PROVE  Loops'
<1>1. CASE StartMerge
  <2>1. /\ DOMAIN merged = {} /\ DOMAIN localMap = {} /\ pc' = "index" /\ i' = 1
        /\ UNCHANGED <<local, localMap, merged>>
    BY <1>1 DEF StartMerge, Loops, Fresh, result
  <2> QED
    BY <2>1, RevisionType DEF Loops, Fresh, Indexed, FromInputs, UpToDate, Covered, Has
<1>2. CASE IndexLocal
  BY <1>2, IndexStep
<1>3. CASE EndIndex
  <2>1. /\ pc = "index" /\ pc' = "remote" /\ i' = 1 /\ i > Len(local) /\ i \in Nat
        /\ UNCHANGED <<local, remote, localMap, merged>>
    BY <1>3 DEF EndIndex, result, TypeOK
  <2>2. \A j \in 1 .. Len(local) : j < i
    BY <2>1, Passed, RevisionType
  <2>3. Indexed'
    BY <2>1, <2>2 DEF Loops, Indexed
  <2>4. \A j \in 1 .. Len(remote) : ~(j < 1)
    BY Passed, RevisionType
  <2>5. Covered'
    BY <2>1, <2>4 DEF Covered
  <2> QED
    BY <2>1, <2>3, <2>5, SameMaps DEF Loops
<1>4. CASE RemoteStep
  BY <1>4, RemoteStepLoops
<1>5. CASE EndRemote
  <2>1. /\ pc = "remote" /\ pc' = "local" /\ i' = 1 /\ i > Len(remote) /\ i \in Nat
        /\ UNCHANGED <<local, remote, localMap, merged>>
    BY <1>5 DEF EndRemote, result, TypeOK
  <2>2. /\ \A j \in 1 .. Len(remote) : j < i
        /\ \A j \in 1 .. Len(local) : ~(j < 1)
    BY <2>1, Passed, RevisionType
  <2>3. \A j \in 1 .. Len(remote) : Has(remote[j].id)
    BY <2>1, <2>2 DEF Loops, Covered
  <2>4. Covered'
    BY <2>1, <2>2, <2>3, SameMaps DEF Covered
  <2>5. Indexed'
    BY <2>1 DEF Loops, Indexed
  <2> QED
    BY <2>1, <2>4, <2>5, SameMaps DEF Loops
<1>6. CASE KeepLocal
  BY <1>6, KeepLocalLoops
<1>7. CASE EndLocal
  <2>1. /\ pc = "local" /\ pc' = "done" /\ i > Len(local) /\ i \in Nat
        /\ UNCHANGED <<local, remote, localMap, merged>>
    BY <1>7 DEF EndLocal, result, TypeOK
  <2>2. \A j \in 1 .. Len(local) : j < i
    BY <2>1, Passed, RevisionType
  <2>3. /\ \A j \in 1 .. Len(remote) : Has(remote[j].id)
        /\ \A j \in 1 .. Len(local) : Has(local[j].id)
    BY <2>1, <2>2 DEF Loops, Covered
  <2>4. Covered'
    BY <2>1, <2>3, SameMaps DEF Covered
  <2>5. Indexed'
    BY <2>1 DEF Loops, Indexed
  <2> QED
    BY <2>1, <2>4, <2>5, SameMaps DEF Loops
<1>8. CASE Store
  <2>1. DOMAIN merged' = {} /\ DOMAIN localMap' = {} /\ pc' = "idle"
    BY <1>8 DEF Store
  <2> QED
    BY <2>1 DEF Loops, Fresh, Indexed, FromInputs, UpToDate, Covered, Has
<1>9. CASE Edit
  <2>1. /\ DOMAIN merged = {} /\ DOMAIN localMap = {} /\ pc' = "idle"
        /\ UNCHANGED <<localMap, merged>>
    BY <1>9 DEF Edit, Loops, Fresh, result
  <2> QED
    BY <2>1 DEF Loops, Fresh, Indexed, FromInputs, UpToDate, Covered, Has
<1>10. CASE UNCHANGED vars
  <2>1. UNCHANGED <<local, remote, localMap, merged, i, pc>>
    BY <1>10 DEF vars, result
  <2>2. Inputs' = Inputs /\ (Even' <=> Even) /\ \A id : Has(id)' <=> Has(id)
    BY <2>1 DEF Inputs, Even, Evenly, Has
  <2>3. FromInputs' /\ UpToDate'
    BY <2>1, <2>2 DEF Loops, FromInputs, UpToDate, Same
  <2>4. Fresh' /\ Indexed'
    BY <2>1 DEF Loops, Fresh, Indexed
  <2>5. Covered'
    BY <2>1, <2>2 DEF Loops, Covered
  <2> QED
    BY <2>3, <2>4, <2>5 DEF Loops
<1> QED
  BY <1>1, <1>2, <1>3, <1>4, <1>5, <1>6, <1>7, <1>8, <1>9, <1>10 DEF Next, RemoteStep
-----------------------------------------------------------------------------
(* Items that share an id share a revision, as no step of mergeVaults makes  *)
(* them differ (an edit may).                                                *)
LEMMA MergedRevisions ==
  ASSUME TypeOK, Loops, Even, NEW j \in DOMAIN merged, NEW k \in DOMAIN merged,
         merged[j].id = merged[k].id
  PROVE  merged[j].revision = merged[k].revision
<1>1. /\ merged[j].revision \in Int /\ merged[k].revision \in Int
      /\ j[1] = merged[j].id /\ k[1] = merged[k].id
  BY RevisionType
<1>2. PICK a \in Inputs : Same(merged[j], a)
  BY DEF Loops, FromInputs
<1>3. PICK b \in Inputs : Same(merged[k], b)
  BY DEF Loops, FromInputs
<1>4. a.revision <= merged[k].revision
  BY <1>1, <1>2 DEF Same, Loops, UpToDate
<1>5. b.revision <= merged[j].revision
  BY <1>1, <1>3 DEF Same, Loops, UpToDate
<1> QED
  BY <1>1, <1>2, <1>3, <1>4, <1>5 DEF Same

(* An empty vault has one revision for each id.                              *)
LEMMA EmptyIsEven == Evenly(<<>>)
<1>1. \A j \in 1 .. Len(<<>>) : FALSE
  OBVIOUS
<1> QED
  BY <1>1 DEF Evenly

(* The vault that is stored has one revision for each id: each value is as   *)
(* new as any input of its id.                                               *)
LEMMA StoreEven ==
  ASSUME TypeOK, Loops, Even, Store
  PROVE  Even'
<1>1. local' = Values /\ remote' = <<>>
  BY DEF Store
<1>2. Evenly(Values)
  <2>1. /\ Len(order) \in Nat
        /\ \A j \in 1 .. Len(order) : order[j] \in DOMAIN merged
    BY LenProperties DEF TypeOK
  <2>2. /\ Len(Values) = Len(order)
        /\ \A j \in 1 .. Len(order) : Values[j] = merged[order[j]]
    BY <2>1 DEF Values
  <2> SUFFICES ASSUME NEW j \in 1 .. Len(order), NEW k \in 1 .. Len(order),
                      merged[order[j]].id = merged[order[k]].id
               PROVE  merged[order[j]].revision = merged[order[k]].revision
    BY <2>2 DEF Evenly
  <2> QED
    BY <2>1, MergedRevisions
<1>3. Evenly(<<>>)
  BY EmptyIsEven
<1> QED
  BY <1>1, <1>2, <1>3 DEF Even, Evenly

(* No step of a merge makes the revisions of an id differ.                   *)
LEMMA EvenStep ==
  ASSUME TypeOK, Loops, Even, [Next]_vars
  PROVE  Even'
<1>1. CASE StartMerge
  <2>1. local' = local /\ remote' \in Vaults \cup {local}
    BY <1>1 DEF StartMerge
  <2>2. Evenly(remote')
    BY <2>1, PairedIsEven DEF Even
  <2> QED
    BY <2>1, <2>2 DEF Even, Evenly
<1>2. CASE Store
  BY <1>2, StoreEven
<1>3. CASE ~StartMerge /\ ~Store
  <2>1. UNCHANGED <<local, remote>>
    BY <1>3 DEF Next, IndexLocal, EndIndex, TakeNew, TakeNewer, KeepNewer, RecordConflict,
       KeepEqual, IterateRemote, EndRemote, KeepLocal, EndLocal, vars
  <2> QED
    BY <2>1 DEF Even, Evenly
<1> QED
  BY <1>1, <1>2, <1>3

(* When the loops are done, no record is lost or older.                      *)
LEMMA LoopsNeverOlder ==
  ASSUME TypeOK, Loops
  PROVE  NeverOlder
<1> SUFFICES ASSUME pc = "done", NEW a \in Inputs
             PROVE  \E out \in Outputs : out.id = a.id /\ (Even => out.revision >= a.revision)
  BY DEF NeverOlder
<1> DEFINE k == <<a.id, FALSE>>
<1>1. Has(a.id)
  BY DEF Inputs, Loops, Covered
<1>2. k \in DOMAIN merged /\ k[1] = a.id
  BY <1>1 DEF Has
<1>3. /\ merged[k].id = a.id /\ merged[k] \in Outputs
      /\ merged[k].revision \in Int /\ a.revision \in Int
  BY <1>2, RevisionType DEF Outputs
<1>4. Even => a.revision <= merged[k].revision
  BY <1>2 DEF Loops, UpToDate
<1> QED
  BY <1>3, <1>4

(* NeverGoesBack: a merge loses no record and takes none back to an earlier  *)
(* revision while the items of one id have one revision                      *)
(* (SyncMerge!NeverOlder), after any merges and edits.                       *)
THEOREM NeverGoesBack == EditSpec => []NeverOlder
<1> DEFINE Inv == TypeOK /\ Loops
<1>1. Init => Inv
  BY TypeInit, LoopsInit
<1>2. Inv /\ [Next \/ Edit]_vars => Inv'
  BY TypeStep, LoopsStep
<1>3. Inv => NeverOlder
  BY LoopsNeverOlder
<1> QED
  BY <1>1, <1>2, <1>3, PTL DEF EditSpec

(* StaysEven: that is so of every vault that merges make, any number of them *)
(* one after the other, unresolved conflicts included: the hypothesis of     *)
(* NeverOlder is broken by an edit only.                                     *)
THEOREM StaysEven == Spec => []Even
<1> DEFINE Inv == TypeOK /\ Loops /\ Even
<1>1. Init => Inv
  <2>1. Init => Even
    BY PairedIsEven, EmptyIsEven DEF Init, Even
  <2> QED
    BY <2>1, TypeInit, LoopsInit
<1>2. Inv /\ [Next]_vars => Inv'
  <2> SUFFICES ASSUME Inv, [Next]_vars PROVE Inv'
    OBVIOUS
  <2>1. [Next \/ Edit]_vars
    OBVIOUS
  <2>2. TypeOK'
    BY <2>1, TypeStep
  <2>3. Loops'
    BY <2>1, LoopsStep
  <2>4. Even'
    BY EvenStep
  <2> QED
    BY <2>2, <2>3, <2>4
<1> QED
  BY <1>1, <1>2, PTL DEF Spec
-----------------------------------------------------------------------------
(* Of vaults without unresolved conflicts each id is met once by each loop.  *)
Simple == Distinct(local) /\ Distinct(remote)

(* The keys of merged are ids the loop over remoteItems has passed.          *)
Touched ==
  Simple /\ pc = "remote" =>
    \A k \in DOMAIN merged : \E j \in 1 .. Len(remote) : j < i /\ remote[j].id = k[1]

(* The two keys of a conflict hold two versions.                             *)
Apart ==
  Simple => \A id : <<id, TRUE>> \in DOMAIN merged =>
              Has(id) /\ merged[<<id, TRUE>>].version # merged[<<id, FALSE>>].version

(* An input whose id is in merged is there or has given way to a newer one.  *)
Beats(item, a) == item.revision > a.revision \/ Same(item, a)

Kept ==
  Simple => \A a \in Inputs : Has(a.id) =>
              \E k \in DOMAIN merged : k[1] = a.id /\ Beats(merged[k], a)

Whole == Touched /\ Apart /\ Kept

(* A step that leaves merged empty or alone.                                 *)
LEMMA WholeEmpty ==
  ASSUME DOMAIN merged = {}
  PROVE  Whole
BY DEF Whole, Touched, Apart, Kept, Has

(* A step that changes neither the vaults nor merged keeps Whole.            *)
LEMMA WholeSame ==
  ASSUME Whole, UNCHANGED <<local, remote, merged>>,
         pc' = "remote" => pc = "remote" /\ i' = i
  PROVE  Whole'
<1>1. Inputs' = Inputs /\ (Simple' <=> Simple) /\ \A id : Has(id)' <=> Has(id)
  BY DEF Inputs, Simple, Distinct, Has
<1>2. Touched'
  BY <1>1 DEF Whole, Touched
<1>3. Apart'
  BY <1>1 DEF Whole, Apart
<1>4. Kept'
  BY <1>1 DEF Whole, Kept, Beats, Same
<1> QED
  BY <1>2, <1>3, <1>4 DEF Whole

(* The loop over remoteItems keeps the newest versions it met.               *)
LEMMA WholeRemote ==
  ASSUME TypeOK, Loops, Whole, RemoteStep
  PROVE  Whole'
<1> DEFINE id == RemoteItem.id
<1>1. /\ i \in 1 .. Len(remote) /\ RemoteItem = remote[i]
      /\ i' = i + 1 /\ pc = "remote"
      /\ UNCHANGED <<local, remote, localMap>>
  BY RemoteStepFacts, RemoteItemType DEF IterateRemote, RemoteItem
<1>2. PICK Ks \in SUBSET {<<id, FALSE>>, <<id, TRUE>>} :
        /\ <<id, FALSE>> \in Ks
        /\ DOMAIN merged' = DOMAIN merged \cup Ks
        /\ \A k \in DOMAIN merged \ Ks : merged'[k] = merged[k]
        /\ \E k \in Ks : Beats(merged'[k], RemoteItem)
        /\ id \in DOMAIN localMap => \E k \in Ks : Beats(merged'[k], LocalItem)
        /\ <<id, TRUE>> \in Ks => merged'[<<id, TRUE>>].version # merged'[<<id, FALSE>>].version
  BY RemoteStepFacts DEF Beats
<1>3. /\ \A x : <<x, FALSE>>[1] = x /\ <<x, TRUE>>[1] = x
      /\ \A x, y : <<x, FALSE>> # <<y, TRUE>>
      /\ \A x : x # id => <<x, FALSE>> \notin Ks /\ <<x, TRUE>> \notin Ks
      /\ \A k \in Ks : k[1] = id
  <2>1. \A x : <<x, FALSE>>[1] = x /\ <<x, TRUE>>[1] = x
    OBVIOUS
  <2>2. \A x, y : <<x, FALSE>> # <<y, TRUE>>
    <3> SUFFICES ASSUME NEW x, NEW y, <<x, FALSE>> = <<y, TRUE>> PROVE FALSE
      OBVIOUS
    <3>1. <<x, FALSE>>[2] = <<y, TRUE>>[2]
      OBVIOUS
    <3> QED
      BY <3>1
  <2>3. \A k \in Ks : k = <<id, FALSE>> \/ k = <<id, TRUE>>
    OBVIOUS
  <2>4. \A k \in Ks : k[1] = id
    BY <2>1, <2>3
  <2>5. \A x : x # id => <<x, FALSE>> \notin Ks /\ <<x, TRUE>> \notin Ks
    BY <2>1, <2>4
  <2> QED
    BY <2>1, <2>2, <2>4, <2>5
<1>4. Inputs' = Inputs /\ (Simple' <=> Simple)
  BY <1>1 DEF Inputs, Simple, Distinct
<1>5. \A j \in 1 .. Len(remote) : j < i => j # i /\ j < i + 1
  BY <1>1, RevisionType
<1>6. ASSUME Simple
      PROVE  <<id, TRUE>> \notin DOMAIN merged
  <2>1. \A k \in DOMAIN merged : k[1] # id
    BY <1>1, <1>5, <1>6 DEF Whole, Touched, Simple, Distinct
  <2> QED
    BY <1>3, <2>1
<1>7. Touched'
  <2> SUFFICES ASSUME Simple, NEW k \in DOMAIN merged'
               PROVE  \E j \in 1 .. Len(remote) : j < i + 1 /\ remote[j].id = k[1]
    BY <1>1, <1>4 DEF Touched
  <2>1. CASE k \in Ks
    <3>1. i < i + 1
      BY <1>1
    <3> QED
      BY <1>1, <1>3, <2>1, <3>1
  <2>2. CASE k \in DOMAIN merged
    BY <1>1, <1>5, <2>2 DEF Whole, Touched
  <2> QED
    BY <1>2, <2>1, <2>2
<1>8. Apart'
  <2> SUFFICES ASSUME Simple, NEW x, <<x, TRUE>> \in DOMAIN merged'
               PROVE  /\ <<x, FALSE>> \in DOMAIN merged'
                      /\ merged'[<<x, TRUE>>].version # merged'[<<x, FALSE>>].version
    BY <1>4 DEF Apart, Has
  <2>1. CASE x = id
    <3>1. <<id, TRUE>> \in Ks
      BY <1>2, <1>6, <2>1
    <3> QED
      BY <1>2, <2>1, <3>1
  <2>2. CASE x # id
    <3>1. <<x, TRUE>> \in DOMAIN merged /\ <<x, FALSE>> \notin Ks /\ <<x, TRUE>> \notin Ks
      BY <1>2, <1>3, <2>2
    <3>2. /\ <<x, FALSE>> \in DOMAIN merged
          /\ merged[<<x, TRUE>>].version # merged[<<x, FALSE>>].version
      BY <3>1 DEF Whole, Apart, Has
    <3> QED
      BY <1>2, <3>1, <3>2
  <2> QED
    BY <2>1, <2>2
<1>9. Kept'
  <2> SUFFICES ASSUME Simple, NEW a \in Inputs, <<a.id, FALSE>> \in DOMAIN merged'
               PROVE  \E k \in DOMAIN merged' : k[1] = a.id /\ Beats(merged'[k], a)
    BY <1>4 DEF Kept, Has, Beats, Same
  <2>1. CASE a.id = id
    <3>1. CASE \E j \in 1 .. Len(remote) : a = remote[j]
      <4>1. a = RemoteItem
        BY <1>1, <2>1, <3>1 DEF Simple, Distinct
      <4> QED
        BY <1>2, <1>3, <2>1, <4>1
    <3>2. CASE \E j \in 1 .. Len(local) : a = local[j]
      <4>1. id \in DOMAIN localMap
        BY <1>1, <2>1, <3>2 DEF Loops, Indexed
      <4>2. PICK l \in 1 .. Len(local) : LocalItem = local[l]
        BY <4>1 DEF Loops, Indexed, LocalItem
      <4>3. LocalItem.id = id
        BY <4>1 DEF LocalItem, TypeOK
      <4>4. a = LocalItem
        BY <2>1, <3>2, <4>2, <4>3 DEF Simple, Distinct
      <4> QED
        BY <1>2, <1>3, <2>1, <4>1, <4>4
    <3> QED
      BY <3>1, <3>2 DEF Inputs
  <2>2. CASE a.id # id
    <3>1. Has(a.id)
      BY <1>2, <1>3, <2>2 DEF Has
    <3>2. PICK k \in DOMAIN merged : k[1] = a.id /\ Beats(merged[k], a)
      BY <3>1 DEF Whole, Kept
    <3>3. k \in DOMAIN merged' /\ merged'[k] = merged[k]
      BY <1>2, <1>3, <2>2, <3>2
    <3> QED
      BY <3>2, <3>3
  <2> QED
    BY <2>1, <2>2
<1> QED
  BY <1>7, <1>8, <1>9 DEF Whole

(* The loop over localItems adds what merged has no id of.                   *)
LEMMA WholeKeepLocal ==
  ASSUME TypeOK, Loops, Whole, KeepLocal
  PROVE  Whole'
<1> DEFINE key == <<local[i].id, FALSE>>
<1>1. /\ i \in 1 .. Len(local) /\ pc = "local" /\ pc' = "local"
      /\ UNCHANGED <<local, remote>>
      /\ Inputs' = Inputs /\ (Simple' <=> Simple)
  BY RevisionType DEF KeepLocal, TypeOK, Inputs, Simple, Distinct
<1>2. CASE key \in DOMAIN merged
  <2>1. merged' = merged
    BY <1>2 DEF KeepLocal
  <2> QED
    BY <1>1, <2>1, WholeSame
<1>3. CASE key \notin DOMAIN merged
  <2>1. merged' = Put(merged, key, local[i])
    BY <1>3 DEF KeepLocal, Set
  <2>2. /\ DOMAIN merged' = DOMAIN merged \cup {key}
        /\ merged'[key] = local[i]
        /\ \A k \in DOMAIN merged : merged'[k] = merged[k]
    BY <1>3, <2>1 DEF Put
  <2>3. Touched'
    BY <1>1 DEF Touched
  <2>4. Apart'
    <3>1. \A x : <<x, TRUE>> # key
      OBVIOUS
    <3>2. \A x : <<x, TRUE>> \in DOMAIN merged' => <<x, TRUE>> \in DOMAIN merged
      BY <2>2, <3>1
    <3> QED
      BY <1>1, <2>2, <3>2 DEF Whole, Apart, Has
  <2>5. Kept'
    <3> SUFFICES ASSUME Simple, NEW a \in Inputs, <<a.id, FALSE>> \in DOMAIN merged'
                 PROVE  \E k \in DOMAIN merged' : k[1] = a.id /\ Beats(merged'[k], a)
      BY <1>1 DEF Kept, Has, Beats, Same
    <3>1. CASE Has(a.id)
      BY <2>2, <3>1 DEF Whole, Kept
    <3>2. CASE ~Has(a.id)
      <4>1. <<a.id, FALSE>> = key
        BY <2>2, <3>2 DEF Has
      <4>2. a.id = local[i].id
        BY <4>1
      <4>3. \A j \in 1 .. Len(remote) : a # remote[j]
        BY <1>1, <3>2 DEF Loops, Covered
      <4>4. a = local[i]
        BY <1>1, <4>2, <4>3 DEF Inputs, Simple, Distinct
      <4>5. key \in DOMAIN merged' /\ key[1] = a.id /\ Beats(merged'[key], a)
        BY <2>2, <4>2, <4>4 DEF Beats, Same
      <4> QED
        BY <4>5
    <3> QED
      BY <3>1, <3>2
  <2> QED
    BY <2>3, <2>4, <2>5 DEF Whole
<1> QED
  BY <1>2, <1>3

(* Every step keeps Whole.                                                   *)
LEMMA WholeStep ==
  ASSUME TypeOK, Loops, Whole, [Next \/ Edit]_vars
  PROVE  Whole'
<1>1. CASE StartMerge \/ Edit \/ IndexLocal \/ EndIndex \/ Store
  <2>1. DOMAIN merged' = {}
    BY <1>1 DEF StartMerge, Edit, IndexLocal, EndIndex, Store, result, Loops, Fresh
  <2>2. DOMAIN merged' = {} => Whole'
    BY DEF Whole, Touched, Apart, Kept, Has
  <2> QED
    BY <2>1, <2>2
<1>2. CASE RemoteStep
  BY <1>2, WholeRemote
<1>3. CASE KeepLocal
  BY <1>3, WholeKeepLocal
<1>4. CASE EndRemote \/ EndLocal \/ UNCHANGED vars
  <2>1. /\ UNCHANGED <<local, remote, merged>>
        /\ pc' = "remote" => pc = "remote" /\ i' = i
    BY <1>4 DEF EndRemote, EndLocal, vars, result
  <2> QED
    BY <2>1, WholeSame
<1> QED
  BY <1>1, <1>2, <1>3, <1>4 DEF Next, RemoteStep

(* When the loops are done, merged is the newest versions.                   *)
LEMMA WholeIsNewest ==
  ASSUME TypeOK, Loops, Whole
  PROVE  MergedIsNewest
<1> SUFFICES ASSUME pc = "done", Simple
             PROVE  MergedIsNewest
  BY DEF MergedIsNewest, Simple
<1> DEFINE Newest == {a \in Inputs : \A b \in Inputs : b.id = a.id => b.revision <= a.revision}
<1>1. /\ \A a \in Item : a.revision \in Int
      /\ \A a \in Inputs : a \in Item
      /\ \A k \in DOMAIN merged : merged[k] \in Item /\ merged[k].id = k[1]
  BY RevisionType
<1>2. Even
  BY DEF Simple, Distinct, Even, Evenly
<1>3. \A a \in Newest : \E out \in Outputs : Same(out, a)
  <2> SUFFICES ASSUME NEW a \in Newest
               PROVE  \E k \in DOMAIN merged : Same(merged[k], a)
    BY DEF Outputs
  <2>1. Has(a.id)
    BY DEF Inputs, Loops, Covered
  <2>2. PICK k \in DOMAIN merged : k[1] = a.id /\ Beats(merged[k], a)
    BY <2>1 DEF Whole, Kept
  <2>3. PICK b \in Inputs : Same(merged[k], b)
    BY DEF Loops, FromInputs
  <2>4. b.revision <= a.revision /\ b.revision = merged[k].revision
    BY <1>1, <2>2, <2>3 DEF Same
  <2>5. ~(merged[k].revision > a.revision)
    BY <1>1, <2>4
  <2> QED
    BY <2>2, <2>5 DEF Beats
<1>4. \A out \in Outputs : \E a \in Newest : Same(out, a)
  <2> SUFFICES ASSUME NEW k \in DOMAIN merged
               PROVE  \E a \in Newest : Same(merged[k], a)
    BY DEF Outputs
  <2>1. PICK a \in Inputs : Same(merged[k], a)
    BY DEF Loops, FromInputs
  <2>2. \A b \in Inputs : b.id = a.id => b.revision <= a.revision
    BY <1>1, <1>2, <2>1 DEF Same, Loops, UpToDate
  <2> QED
    BY <2>1, <2>2
<1>5. ASSUME NEW j \in DOMAIN merged, NEW k \in DOMAIN merged, Same(merged[j], merged[k])
      PROVE  j = k
  <2>1. /\ j = <<j[1], FALSE>> \/ j = <<j[1], TRUE>>
        /\ k = <<k[1], FALSE>> \/ k = <<k[1], TRUE>>
    <3>1. j \in Key /\ k \in Key
      BY ElementOfSeq, TypeParts DEF MapTypes, KeysOf
    <3>2. \A key \in Key : key = <<key[1], key[2]>> /\ (key[2] = FALSE \/ key[2] = TRUE)
      BY SMT DEF Key
    <3>3. \A key \in Key : key = <<key[1], FALSE>> \/ key = <<key[1], TRUE>>
      <4> TAKE key \in Key
      <4>1. CASE key[2] = FALSE
        BY <3>2, <4>1
      <4>2. CASE key[2] = TRUE
        BY <3>2, <4>2
      <4> QED
        BY <3>2, <4>1, <4>2
    <3> QED
      BY <3>1, <3>3
  <2>2. j[1] = k[1] /\ merged[j].version = merged[k].version
    BY <1>1, <1>5 DEF Same
  <2>3. \A id : <<id, TRUE>> \in DOMAIN merged =>
                 merged[<<id, TRUE>>].version # merged[<<id, FALSE>>].version
    BY DEF Whole, Apart
  <2> QED
    BY <2>1, <2>2, <2>3
<1> QED
  BY <1>3, <1>4, <1>5 DEF MergedIsNewest

(* MergeIsNewest: of vaults without unresolved conflicts the merge is the    *)
(* newest versions both sides have, each once (SyncMerge!MergedIsNewest),    *)
(* whatever was merged and edited before and however long the vaults are.    *)
(* The invariant says so of the ids that the loops have passed.              *)
THEOREM MergeIsNewest == EditSpec => []MergedIsNewest
<1> DEFINE Inv == TypeOK /\ Loops /\ Whole
<1>1. Init => Inv
  BY TypeInit, LoopsInit, WholeEmpty DEF Init, EmptyResult
<1>2. Inv /\ [Next \/ Edit]_vars => Inv'
  BY TypeStep, LoopsStep, WholeStep
<1>3. Inv => MergedIsNewest
  BY WholeIsNewest
<1> QED
  BY <1>1, <1>2, <1>3, PTL DEF EditSpec
-----------------------------------------------------------------------------
(* The local items whose id merged has, and those of them that merged does   *)
(* not have as they are.                                                     *)
Placed == {k \in 1 .. Len(local) : Has(local[k].id)}
Gone == {k \in Placed : \A out \in Outputs : ~Same(out, local[k])}

(* What the counters count while the loops run.                              *)
Blank ==
  pc \in {"idle", "index"} =>
    order = <<>> /\ synced = 0 /\ newItems = 0 /\ conflicts = 0

Sums ==
  /\ Len(order) = newItems + conflicts + Cardinality(Placed)
  /\ synced = Cardinality(Gone)

Tally == Blank /\ (Simple => Sums)

(* What is placed and gone is finite, and can be counted.                    *)
LEMMA FinitePlaces ==
  ASSUME TypeOK
  PROVE  /\ IsFiniteSet(Placed) /\ IsFiniteSet(Gone)
         /\ Cardinality(Placed) \in Nat /\ Cardinality(Gone) \in Nat
<1>1. Len(local) \in Int /\ 1 \in Int
  BY RevisionType
<1>2. IsFiniteSet(1 .. Len(local))
  BY <1>1, FS_Interval
<1>3. Placed \in SUBSET (1 .. Len(local)) /\ Gone \in SUBSET Placed
  BY DEF Placed, Gone
<1>4. IsFiniteSet(Placed) /\ IsFiniteSet(Gone)
  BY <1>2, <1>3, FS_Subset
<1> QED
  BY <1>4, FS_CardinalityType

(* An empty result has placed and replaced nothing.                          *)
LEMMA EmptySums ==
  ASSUME DOMAIN merged = {}, order = <<>>, synced = 0, newItems = 0, conflicts = 0
  PROVE  Sums
<1>1. Placed = {} /\ Gone = {}
  BY DEF Placed, Gone, Has
<1>2. Len(order) = 0
  BY EmptySeq
<1> QED
  BY <1>1, <1>2, FS_EmptySet DEF Sums

(* A key that is new to merged makes one more entry and one more output.     *)
LEMMA NewKey ==
  ASSUME NEW keys \in Seq(Key), NEW key, key \notin KeysOf(keys)
  PROVE  Len(PutKey(keys, key)) = Len(keys) + 1
<1>1. PutKey(keys, key) = Append(keys, key)
  BY DEF PutKey, KeysOf
<1> QED
  BY <1>1, AppendProperties

ValuesOf(map) == {map[k] : k \in DOMAIN map}

(* So Map.set of one makes one more entry and one more output.               *)
LEMMA NewEntry ==
  ASSUME TypeOK, NEW key \in Key, NEW item, key \notin DOMAIN merged, Set(key, item)
  PROVE  /\ Len(order') = Len(order) + 1
         /\ DOMAIN merged' = DOMAIN merged \cup {key}
         /\ Outputs' = Outputs \cup {item}
<1>1. order \in Seq(Key) /\ DOMAIN merged = KeysOf(order)
  BY TypeParts DEF MapTypes
<1>2. order' = PutKey(order, key) /\ merged' = Put(merged, key, item)
  BY DEF Set
<1>3. Len(order') = Len(order) + 1
  BY <1>1, <1>2, NewKey
<1>4. /\ DOMAIN merged' = DOMAIN merged \cup {key} /\ merged'[key] = item
      /\ \A k \in DOMAIN merged : merged'[k] = merged[k]
  BY <1>2 DEF Put
<1>5. ValuesOf(merged') = ValuesOf(merged) \cup {item}
  BY <1>4 DEF ValuesOf
<1> QED
  BY <1>3, <1>4, <1>5 DEF Outputs, ValuesOf

(* An id is placed for the first time, with the outputs New: the local item  *)
(* that has it, if there is one, is placed, and gone unless it is in New.    *)
Places(id, New) ==
  /\ Outputs' = Outputs \cup New
  /\ \A out \in New : out.id = id
  /\ \A out \in Outputs : out.id # id
  /\ ~Has(id)
  /\ \A x : Has(x)' <=> Has(x) \/ x = id

(* The local items that are placed and gone grow by the one of this id, if   *)
(* there is one: gone only if no output is the same.                         *)
LEMMA FirstTime ==
  ASSUME TypeOK, Simple, local' = local, NEW id, NEW New, Places(id, New)
  PROVE  /\ (\A k \in 1 .. Len(local) : local[k].id # id) =>
              Placed' = Placed /\ Gone' = Gone
         /\ \A l \in 1 .. Len(local) :
              local[l].id = id =>
                /\ Placed' = Placed \cup {l} /\ l \notin Placed
                /\ (\E out \in New : Same(out, local[l])) => Gone' = Gone
                /\ (\A out \in New : ~Same(out, local[l])) =>
                     Gone' = Gone \cup {l} /\ l \notin Gone
<1> USE DEF Places
<1>1. Placed' = {k \in 1 .. Len(local) : Has(local[k].id) \/ local[k].id = id}
  BY DEF Placed
<1>2. Gone' = {k \in Placed' : \A out \in Outputs' : ~Same(out, local[k])}
  BY DEF Gone, Same
<1>3. \A k \in 1 .. Len(local) :
        local[k].id # id => \A out \in New : ~Same(out, local[k])
  BY DEF Same
<1>4. \A k \in 1 .. Len(local) :
        local[k].id = id => k \notin Placed /\ \A out \in Outputs : ~Same(out, local[k])
  BY DEF Same, Placed
<1>5. ASSUME \A k \in 1 .. Len(local) : local[k].id # id
      PROVE  Placed' = Placed /\ Gone' = Gone
  <2>1. Placed' = Placed
    BY <1>1, <1>5 DEF Placed
  <2>2. \A k \in Placed : (\A out \in Outputs' : ~Same(out, local[k]))
                           <=> \A out \in Outputs : ~Same(out, local[k])
    BY <1>3, <1>5 DEF Placed
  <2> QED
    BY <1>2, <2>1, <2>2 DEF Gone
<1>6. ASSUME NEW l \in 1 .. Len(local), local[l].id = id
      PROVE  /\ Placed' = Placed \cup {l} /\ l \notin Placed
             /\ (\E out \in New : Same(out, local[l])) => Gone' = Gone
             /\ (\A out \in New : ~Same(out, local[l])) =>
                  Gone' = Gone \cup {l} /\ l \notin Gone
  <2>1. \A k \in 1 .. Len(local) : local[k].id = id <=> k = l
    BY <1>6 DEF Simple, Distinct
  <2>2. Placed' = Placed \cup {l} /\ l \notin Placed /\ l \notin Gone
    BY <1>1, <1>4, <1>6, <2>1 DEF Placed, Gone
  <2>3. \A k \in Placed : (\A out \in Outputs' : ~Same(out, local[k]))
                           <=> \A out \in Outputs : ~Same(out, local[k])
    BY <1>3, <1>4 DEF Placed
  <2>4. (\A out \in Outputs' : ~Same(out, local[l])) <=> \A out \in New : ~Same(out, local[l])
    BY <1>4, <1>6
  <2> QED
    BY <1>2, <2>2, <2>3, <2>4 DEF Gone
<1> QED
  BY <1>5, <1>6

(* One iteration over remoteItems, whichever branch it takes: the entries it *)
(* makes are those of an id that merged did not have.                        *)
LEMMA TallyRemote ==
  ASSUME TypeOK, Loops, Whole, Simple, Sums, RemoteStep
  PROVE  Sums'
<1> DEFINE id == RemoteItem.id
           item == <<id, FALSE>>
           other == <<id, TRUE>>
<1>1. /\ IterateRemote
      /\ i \in 1 .. Len(remote) /\ RemoteItem = remote[i]
      /\ item \in Key /\ other \in Key /\ item # other
      /\ pc = "remote" /\ local' = local
  BY RemoteStepFacts, RemoteItemType DEF IterateRemote, RemoteItem
<1>2. \A k \in DOMAIN merged : k[1] # id
  <2>1. \A j \in 1 .. Len(remote) : j < i => j # i
    BY <1>1, RevisionType
  <2> QED
    BY <1>1, <2>1 DEF Whole, Touched, Simple, Distinct
<1>3. item \notin DOMAIN merged /\ other \notin DOMAIN merged /\ ~Has(id)
  <2>1. item[1] = id /\ other[1] = id
    OBVIOUS
  <2> QED
    BY <1>2, <2>1 DEF Has
<1>4. \A out \in Outputs : out.id # id
  BY <1>2, RevisionType DEF Outputs
<1>5. \A x : <<x, FALSE>> = item <=> x = id
  <2>1. \A x : <<x, FALSE>>[1] = x /\ item[1] = id
    OBVIOUS
  <2> QED
    BY <2>1
<1>6. \A x : <<x, FALSE>> # other
  <2>1. \A x : <<x, FALSE>>[2] = FALSE /\ other[2] = TRUE
    OBVIOUS
  <2> QED
    BY <2>1
(* The local item of this id is the one in localMap.                         *)
<1>7. /\ id \notin DOMAIN localMap => \A k \in 1 .. Len(local) : local[k].id # id
      /\ id \in DOMAIN localMap =>
           /\ LocalItem \in Item /\ LocalItem.id = id
           /\ \E l \in 1 .. Len(local) : LocalItem = local[l]
  BY <1>1 DEF Loops, Indexed, LocalItem, TypeOK
<1>8. /\ Len(order) \in Nat /\ newItems \in Nat /\ conflicts \in Nat /\ synced \in Nat
      /\ IsFiniteSet(Placed) /\ IsFiniteSet(Gone)
      /\ Cardinality(Placed) \in Nat /\ Cardinality(Gone) \in Nat
  BY FinitePlaces, LenProperties DEF TypeOK
<1>9. RemoteItem \in Item /\ \A a \in Item : a.revision \in Int
  BY <1>1, RemoteItemType, RevisionType
<1> HIDE DEF id, item, other
<1>10. ASSUME NEW new, new.id = id, Set(item, new)
       PROVE  /\ Len(order') = Len(order) + 1
              /\ (\A k \in 1 .. Len(local) : local[k].id # id) =>
                   Placed' = Placed /\ Gone' = Gone
              /\ \A l \in 1 .. Len(local) :
                   local[l].id = id =>
                     /\ Placed' = Placed \cup {l} /\ l \notin Placed
                     /\ Same(new, local[l]) => Gone' = Gone
                     /\ ~Same(new, local[l]) => Gone' = Gone \cup {l} /\ l \notin Gone
  <2>1. /\ Len(order') = Len(order) + 1
        /\ DOMAIN merged' = DOMAIN merged \cup {item}
        /\ Outputs' = Outputs \cup {new}
    BY <1>1, <1>3, <1>10, NewEntry
  <2>2. \A x : Has(x)' <=> Has(x) \/ x = id
    BY <1>5, <2>1 DEF Has
  <2>3. \A out \in {new} : out.id = id
    BY <1>10
  <2>4. Places(id, {new})
    BY <1>3, <1>4, <2>1, <2>2, <2>3 DEF Places
  <2>5. (\A k \in 1 .. Len(local) : local[k].id # id) => Placed' = Placed /\ Gone' = Gone
    BY <1>1, <2>4, FirstTime
  <2>6. ASSUME NEW l \in 1 .. Len(local), local[l].id = id
        PROVE  /\ Placed' = Placed \cup {l} /\ l \notin Placed
               /\ Same(new, local[l]) => Gone' = Gone
               /\ ~Same(new, local[l]) => Gone' = Gone \cup {l} /\ l \notin Gone
    <3>1. /\ Placed' = Placed \cup {l} /\ l \notin Placed
          /\ (\E out \in {new} : Same(out, local[l])) => Gone' = Gone
          /\ (\A out \in {new} : ~Same(out, local[l])) =>
               Gone' = Gone \cup {l} /\ l \notin Gone
      BY <1>1, <2>4, <2>6, FirstTime
    <3> QED BY <3>1
  <2> QED
    BY <2>1, <2>5, <2>6
<1>11. CASE TakeNew
  <2>1. /\ Set(item, RemoteItem) /\ id \notin DOMAIN localMap /\ newItems' = newItems + 1
        /\ synced' = synced /\ conflicts' = conflicts
    BY <1>11 DEF TakeNew, id, item
  <2>2. Len(order') = Len(order) + 1 /\ Placed' = Placed /\ Gone' = Gone
    BY <1>7, <1>10, <2>1 DEF id
  <2> QED
    BY <1>8, <2>1, <2>2 DEF Sums
<1>12. CASE TakeNewer
  <2>1. /\ Set(item, RemoteItem) /\ id \in DOMAIN localMap /\ synced' = synced + 1
        /\ RemoteItem.revision > LocalItem.revision
        /\ newItems' = newItems /\ conflicts' = conflicts
    BY <1>12 DEF TakeNewer, id, item
  <2>2. PICK l \in 1 .. Len(local) : LocalItem = local[l] /\ local[l].id = id
    BY <1>7, <2>1
  <2>3. ~Same(RemoteItem, local[l])
    BY <1>7, <1>9, <2>1, <2>2 DEF Same
  <2>4. /\ Len(order') = Len(order) + 1
        /\ Placed' = Placed \cup {l} /\ l \notin Placed
        /\ Gone' = Gone \cup {l} /\ l \notin Gone
    BY <1>10, <2>1, <2>2, <2>3 DEF id
  <2>5. /\ Cardinality(Placed') = Cardinality(Placed) + 1
        /\ Cardinality(Gone') = Cardinality(Gone) + 1
    BY <1>8, <2>4, FS_AddElement
  <2> QED
    BY <1>8, <2>1, <2>4, <2>5 DEF Sums
<1>13. CASE KeepNewer \/ KeepEqual
  <2>1. /\ Set(item, LocalItem) /\ id \in DOMAIN localMap
        /\ UNCHANGED <<synced, newItems, conflicts>>
    BY <1>13 DEF KeepNewer, KeepEqual, SameRevision, id, item
  <2>2. PICK l \in 1 .. Len(local) : LocalItem = local[l] /\ local[l].id = id
    BY <1>7, <2>1
  <2>3. Same(LocalItem, local[l]) /\ LocalItem.id = id
    BY <2>2 DEF Same
  <2>4. /\ Len(order') = Len(order) + 1 /\ Gone' = Gone
        /\ Placed' = Placed \cup {l} /\ l \notin Placed
    BY <1>10, <2>1, <2>2, <2>3
  <2>5. Cardinality(Placed') = Cardinality(Placed) + 1
    BY <1>8, <2>4, FS_AddElement
  <2> QED
    BY <1>8, <2>1, <2>4, <2>5 DEF Sums
<1>14. CASE RecordConflict
  <2> DEFINE a == [LocalItem EXCEPT !.isConflict = TRUE]
             b == [RemoteItem EXCEPT !.isConflict = TRUE]
             half == Put(merged, item, a)
             once == PutKey(order, item)
  <2>1. /\ id \in DOMAIN localMap /\ conflicts' = conflicts + 1
        /\ synced' = synced /\ newItems' = newItems
        /\ merged' = Put(half, other, b)
        /\ order' = PutKey(once, other)
    BY <1>14 DEF RecordConflict, SameRevision, id, item, other
  <2>2. PICK l \in 1 .. Len(local) : LocalItem = local[l] /\ local[l].id = id
    BY <1>7, <2>1
  <2>3. a.id = id /\ b.id = id /\ Same(a, local[l])
    BY <1>7, <1>9, <2>1, <2>2 DEF Same, Item, id
  <2>4. order \in Seq(Key) /\ NoKeyTwice(order) /\ DOMAIN merged = KeysOf(order)
    BY TypeParts DEF MapTypes
  <2>5. /\ once \in Seq(Key) /\ KeysOf(once) = KeysOf(order) \cup {item}
        /\ Len(once) = Len(order) + 1
    BY <1>1, <1>3, <2>4, PutKeyAdds, NewKey
  <2>6. /\ DOMAIN half = DOMAIN merged \cup {item} /\ half[item] = a
        /\ \A k \in DOMAIN merged : half[k] = merged[k]
    BY <1>3 DEF Put
  <2> HIDE DEF a, b, half, once
  <2>7. other \notin KeysOf(once) /\ other \notin DOMAIN half
    BY <1>1, <1>3, <2>4, <2>5, <2>6
  <2>8. Len(order') = Len(order) + 2
    BY <1>8, <2>1, <2>5, <2>7, NewKey
  <2>9. /\ DOMAIN merged' = DOMAIN merged \cup {item, other}
        /\ merged'[item] = a /\ merged'[other] = b
        /\ \A k \in DOMAIN merged : merged'[k] = merged[k]
    <3>1. /\ DOMAIN merged' = DOMAIN half \cup {other} /\ merged'[other] = b
          /\ \A k \in DOMAIN half : merged'[k] = half[k]
      BY <2>1, <2>7 DEF Put
    <3> QED
      BY <2>6, <3>1
  <2>10. Outputs' = Outputs \cup {a, b}
    BY <2>9 DEF Outputs
  <2>11. \A x : Has(x)' <=> Has(x) \/ x = id
    <3>1. ASSUME NEW x
          PROVE  <<x, FALSE>> \in DOMAIN merged'
                   <=> <<x, FALSE>> \in DOMAIN merged \/ x = id
      <4>1. <<x, FALSE>> # other /\ (<<x, FALSE>> = item <=> x = id)
        BY <1>5, <1>6
      <4> QED
        BY <2>9, <4>1
    <3> QED
      BY <3>1 DEF Has
  <2>12. /\ Placed' = Placed \cup {l} /\ l \notin Placed
         /\ Gone' = Gone
    <3>1. \A out \in {a, b} : out.id = id
      BY <2>3
    <3>2. \E out \in {a, b} : Same(out, local[l])
      BY <2>3
    <3>3. Places(id, {a, b})
      BY <1>3, <1>4, <2>10, <2>11, <3>1 DEF Places
    <3> QED
      BY <1>1, <2>2, <3>2, <3>3, FirstTime
  <2>13. Cardinality(Placed') = Cardinality(Placed) + 1
    BY <1>8, <2>12, FS_AddElement
  <2> QED
    BY <1>8, <2>1, <2>8, <2>12, <2>13 DEF Sums
<1> QED
  BY <1>11, <1>12, <1>13, <1>14 DEF RemoteStep

(* One iteration of the last loop: an item only this device has is placed.   *)
LEMMA TallyKeepLocal ==
  ASSUME TypeOK, Loops, Whole, Simple, Sums, KeepLocal
  PROVE  Sums'
<1> DEFINE id == local[i].id
           key == <<id, FALSE>>
<1>1. /\ i \in 1 .. Len(local) /\ local' = local /\ UNCHANGED <<synced, newItems, conflicts>>
      /\ local[i] \in Item
  BY RevisionType, ElementOfSeq DEF KeepLocal, TypeOK
<1>2. CASE key \in DOMAIN merged
  <2>1. UNCHANGED <<merged, order>>
    BY <1>2 DEF KeepLocal
  <2> QED
    BY <1>1, <2>1 DEF Sums, Placed, Gone, Has, Outputs, Same
<1>3. CASE key \notin DOMAIN merged
  <2>1. Set(key, local[i]) /\ ~Has(id)
    BY <1>3 DEF KeepLocal, Has
  <2>2. key \in Key /\ \A x : <<x, FALSE>> = key <=> x = id
    <3>1. \A x : <<x, FALSE>>[1] = x
      OBVIOUS
    <3>2. id \in Ids
      BY <1>1 DEF Item
    <3> QED
      BY <3>1, <3>2 DEF Key
  <2>3. /\ Len(order') = Len(order) + 1
        /\ DOMAIN merged' = DOMAIN merged \cup {key}
        /\ Outputs' = Outputs \cup {local[i]}
    BY <1>3, <2>1, <2>2, NewEntry
  <2>4. \A out \in Outputs : out.id # id
    <3>1. \A k \in DOMAIN merged : k \in Key /\ merged[k].id = k[1]
      BY ElementOfSeq, TypeParts DEF MapTypes, KeysOf
    <3>2. ASSUME NEW k \in DOMAIN merged, k[1] = id
          PROVE  FALSE
      <4>1. k = <<k[1], k[2]>> /\ k[2] \in BOOLEAN
        BY <3>1 DEF Key
      <4>2. CASE k[2] = FALSE
        BY <1>3, <3>2, <4>1, <4>2
      <4>3. CASE k[2] = TRUE
        <5>1. <<id, TRUE>> \in DOMAIN merged
          BY <3>2, <4>1, <4>3
        <5> QED
          BY <2>1, <5>1 DEF Whole, Apart
      <4> QED
        BY <4>1, <4>2, <4>3
    <3> QED
      BY <3>1, <3>2 DEF Outputs
  <2>5. \A x : Has(x)' <=> Has(x) \/ x = id
    BY <2>2, <2>3 DEF Has
  <2>6. Placed' = Placed \cup {i} /\ i \notin Placed /\ Gone' = Gone
    <3>1. \A out \in {local[i]} : out.id = id
      OBVIOUS
    <3>2. \E out \in {local[i]} : Same(out, local[i])
      BY DEF Same
    <3>3. Places(id, {local[i]})
      BY <2>1, <2>3, <2>4, <2>5, <3>1 DEF Places
    <3> QED
      BY <1>1, <3>2, <3>3, FirstTime
  <2>7. /\ Len(order) \in Nat /\ newItems \in Nat /\ conflicts \in Nat
        /\ IsFiniteSet(Placed) /\ Cardinality(Placed) \in Nat
    BY FinitePlaces, LenProperties DEF TypeOK
  <2>8. Cardinality(Placed') = Cardinality(Placed) + 1
    BY <2>6, <2>7, FS_AddElement
  <2> QED
    BY <1>1, <2>3, <2>6, <2>7, <2>8 DEF Sums
<1> QED
  BY <1>2, <1>3

(* Every step keeps what the counters count.                                 *)
LEMMA TallyStep ==
  ASSUME TypeOK, Loops, Whole, Tally, [Next \/ Edit]_vars
  PROVE  Tally'
<1>1. CASE StartMerge \/ Edit \/ IndexLocal \/ EndIndex \/ Store
  <2>1. /\ DOMAIN merged' = {} /\ order' = <<>>
        /\ synced' = 0 /\ newItems' = 0 /\ conflicts' = 0
    BY <1>1 DEF StartMerge, Edit, IndexLocal, EndIndex, Store, result, Loops, Fresh,
                Tally, Blank
  <2>2. Sums'
    <3>1. Placed' = {} /\ Gone' = {}
      BY <2>1 DEF Placed, Gone, Has
    <3>2. Len(<<>>) = 0
      BY EmptySeq
    <3> QED
      BY <2>1, <3>1, <3>2, FS_EmptySet DEF Sums
  <2> QED
    BY <2>1, <2>2 DEF Tally, Blank
<1>2. CASE RemoteStep
  <2>1. pc' = "remote" /\ (Simple' <=> Simple)
    BY <1>2, RemoteStepFacts DEF IterateRemote, Simple, Distinct
  <2> QED
    BY <1>2, <2>1, TallyRemote DEF Tally, Blank
<1>3. CASE KeepLocal
  <2>1. pc' = "local" /\ (Simple' <=> Simple)
    BY <1>3 DEF KeepLocal, Simple, Distinct
  <2> QED
    BY <1>3, <2>1, TallyKeepLocal DEF Tally, Blank
<1>4. CASE EndRemote \/ EndLocal \/ UNCHANGED vars
  <2>1. /\ UNCHANGED <<local, remote, merged, order, synced, newItems, conflicts>>
        /\ pc' \in {"idle", "index"} => pc \in {"idle", "index"}
    BY <1>4 DEF EndRemote, EndLocal, vars, result
  <2>2. (Simple' <=> Simple) /\ (Sums' <=> Sums)
    BY <2>1 DEF Simple, Distinct, Sums, Placed, Gone, Has, Outputs, Same
  <2> QED
    BY <2>1, <2>2 DEF Tally, Blank
<1> QED
  BY <1>1, <1>2, <1>3, <1>4 DEF Next, RemoteStep

(* At the end every local item is placed.                                    *)
LEMMA TallyCounts ==
  ASSUME TypeOK, Loops, Tally
  PROVE  CountsAddUp
<1> SUFFICES ASSUME pc = "done", Simple
             PROVE  /\ Len(order) = Len(local) + newItems + conflicts
                    /\ synced = Cardinality({k \in 1 .. Len(local) :
                                               \A out \in Outputs : ~Same(out, local[k])})
  BY DEF CountsAddUp, Simple
<1>1. Placed = 1 .. Len(local)
  BY DEF Placed, Loops, Covered
<1>2. Len(local) \in Nat /\ newItems \in Nat /\ conflicts \in Nat
  BY RevisionType DEF TypeOK
<1>3. Cardinality(1 .. Len(local)) = Len(local)
  <2>1. 1 \in Int /\ Len(local) \in Int
    BY <1>2
  <2>2. Cardinality(1 .. Len(local)) = IF 1 > Len(local) THEN 0 ELSE Len(local) - 1 + 1
    BY <2>1, FS_Interval
  <2> QED
    BY <1>2, <2>2
<1>4. Len(order) = Len(local) + newItems + conflicts
  BY <1>1, <1>2, <1>3 DEF Tally, Sums
<1>5. Gone = {k \in 1 .. Len(local) : \A out \in Outputs : ~Same(out, local[k])}
  BY <1>1 DEF Gone
<1> QED
  BY <1>4, <1>5 DEF Tally, Sums

(* The numbers shown after a merge account for every difference between the  *)
(* old vault and the new one, for vaults of any length.                      *)
THEOREM TheCountsAddUp == EditSpec => []CountsAddUp
<1> DEFINE Inv == TypeOK /\ Loops /\ Whole /\ Tally
<1>1. Init => Inv
  <2> SUFFICES ASSUME Init PROVE Inv
    OBVIOUS
  <2>1. TypeOK /\ Loops /\ Whole
    BY TypeInit, LoopsInit, WholeEmpty DEF Init, EmptyResult
  <2>2. Blank /\ Sums
    BY EmptySums DEF Init, EmptyResult, Blank
  <2> QED
    BY <2>1, <2>2 DEF Tally
<1>2. Inv /\ [Next \/ Edit]_vars => Inv'
  BY TypeStep, LoopsStep, WholeStep, TallyStep
<1>3. Inv => CountsAddUp
  BY TallyCounts
<1> QED
  BY <1>1, <1>2, <1>3, PTL DEF EditSpec
=============================================================================
