------------------------------ MODULE Patches ------------------------------
(***************************************************************************)
(* How a stored object is changed by PATCH: JSON Patch (jsonpatch.go), the *)
(* strategic merge patch (jsonMerge of handler.go) and server-side apply   *)
(* (apply.go), which looks the object up and then goes on as a POST or as  *)
(* a JSON Patch.  Every PATCH changes a copy and stores it later; in       *)
(* between other requests and the sync loop store theirs.                  *)
(*                                                                         *)
(* JSON is [map |-> a function], [list |-> a sequence] or [leaf |-> x]; a  *)
(* path is the sequence of its segments, unescaped.                        *)
(***************************************************************************)
EXTENDS Requests

CONSTANTS
  JsonPatches,   \* sequences of operations
  MergePatches,  \* maps
  Applied,       \* maps that declare an object
  Statuses,      \* what the sync loop writes
  Digits,        \* segment -> the index it reads as
  MaxStores,     \* bound: requests that store an object
  Fields         \* members $setElementOrder and $deleteFromPrimitiveList are used of

VARIABLES
  doc,     \* the stored object, or Absent
  stores,  \* bound
  last     \* history: what the last step's request read, asked for and stored

patchVars == <<doc, stores, last, tasks, alive>>

Map(f) == [map |-> f]
List(s) == [list |-> s]
Leaf(x) == [leaf |-> x]
Null == [null |-> TRUE]
Fail == [fail |-> TRUE]
NoMembers == Map([k \in {} |-> Null])

IsMap(v) == "map" \in DOMAIN v
IsList(v) == "list" \in DOMAIN v
MembersOf(v) == IF IsMap(v) THEN DOMAIN v.map ELSE {}
Elements(v) == IF IsList(v) THEN v.list ELSE <<>>
With(f, k, v) == [x \in DOMAIN f \cup {k} |-> IF x = k THEN v ELSE f[x]]
Without(f, K) == [x \in DOMAIN f \ K |-> f[x]]

---------------------------------------------------------------------------
(* JSON Patch                                                              *)

(* The child a segment names, as a position of the list or a member. *)
HasChild(v, seg) ==
  \/ seg \in MembersOf(v)
  \/ seg \in DOMAIN Digits /\ Digits[seg] < Len(Elements(v))
Child(v, seg) == IF IsMap(v) THEN v.map[seg] ELSE v.list[Digits[seg] + 1]
Replaced(v, seg, w) ==
  IF IsMap(v) THEN Map([v.map EXCEPT ![seg] = w]) ELSE List([v.list EXCEPT ![Digits[seg] + 1] = w])

RECURSIVE patchGet(_, _)
patchGet(v, path) ==
  IF path = <<>> THEN v
  ELSE IF HasChild(v, Head(path)) THEN patchGet(Child(v, Head(path)), Tail(path))
  ELSE Fail

(* The whole document cannot be set, nor, by the way the recursion ends,   *)
(* can an element of a list.                                               *)
RECURSIVE patchSet(_, _, _, _)
patchSet(v, path, value, add) ==
  IF path = <<>> THEN Fail
  ELSE LET seg == Head(path)
       IN  IF IsMap(v) /\ Len(path) = 1
             THEN IF add \/ seg \in MembersOf(v) THEN Map(With(v.map, seg, value)) ELSE Fail
           ELSE IF IsList(v) /\ seg = "-"
             THEN IF add /\ Len(path) = 1 THEN List(Append(v.list, value)) ELSE Fail
           ELSE IF HasChild(v, seg)
             THEN LET w == patchSet(Child(v, seg), Tail(path), value, add)
                  IN  IF w = Fail THEN Fail ELSE Replaced(v, seg, w)
           ELSE Fail

RECURSIVE patchRemove(_, _)
patchRemove(v, path) ==
  IF path = <<>> \/ ~HasChild(v, Head(path)) THEN Fail
  ELSE LET seg == Head(path)
       IN  IF Len(path) > 1
             THEN LET w == patchRemove(Child(v, seg), Tail(path))
                  IN  IF w = Fail THEN Fail ELSE Replaced(v, seg, w)
           ELSE IF IsMap(v) THEN Map(Without(v.map, {seg}))
           ELSE List(RemoveAt(v.list, Digits[seg] + 1))

ApplyOp(v, op) ==
  CASE op.op = "add"     -> patchSet(v, op.path, op.value, TRUE)
    [] op.op = "replace" -> patchSet(v, op.path, op.value, FALSE)
    [] op.op = "remove"  -> patchRemove(v, op.path)
    [] op.op = "test"    -> IF patchGet(v, op.path) = op.value THEN v ELSE Fail
    [] op.op = "move"    -> LET w == patchRemove(v, op.from)
                            IN  IF w = Fail THEN Fail
                                ELSE patchSet(w, op.path, patchGet(v, op.from), TRUE)
    [] op.op = "copy"    -> LET w == patchGet(v, op.from)
                            IN  IF w = Fail THEN Fail ELSE patchSet(v, op.path, w, TRUE)

(* The first operation to fail aborts the patch. *)
applyJSONPatch(v, ops) ==
  FoldLeft(LAMBDA w, op : IF w = Fail THEN Fail ELSE ApplyOp(w, op), v, ops)

---------------------------------------------------------------------------
(* Strategic merge patch                                                   *)

OrderKey(f) == "$setElementOrder/" \o f
DropKey(f) == "$deleteFromPrimitiveList/" \o f
Directives ==
  {"$patch", "$retainKeys"} \cup {OrderKey(f) : f \in Fields} \cup {DropKey(f) : f \in Fields}
Directive(v) == IF "$patch" \in MembersOf(v) THEN v.map["$patch"] ELSE Null

NameOf(v) == v.map["name"]
Named(v) == "name" \in MembersOf(v)

listWithoutPatchMarkers(s) == SelectSeq(s, LAMBDA v : "$patch" \notin MembersOf(v))

(* Elements are told apart by name, or by value. *)
ElementKey(v) == IF Named(v) THEN NameOf(v) ELSE v

(* A stable sort: the elements in the order asked for, then the others. *)
orderElements(s, order) ==
  LET keys == [j \in DOMAIN order |-> ElementKey(order[j])]
      Ranked(key) == SelectSeq(s, LAMBDA v : ElementKey(v) = key)
      Listed(j) == IF \E i \in (j + 1)..Len(keys) : keys[i] = keys[j] THEN <<>> ELSE Ranked(keys[j])
  IN  FlattenSeq([j \in DOMAIN keys |-> Listed(j)]) \o
        SelectSeq(s, LAMBDA v : \A j \in DOMAIN keys : keys[j] # ElementKey(v))

(* The maps merged: [del |-> the parent key goes, map |-> the result].     *)
RECURSIVE jsonMerge(_, _)

(* mergeNamedArray; lists that are not of named objects are replaced. *)
MergeLists(base, overlay) ==
  LET gone == {NameOf(v) : v \in {w \in Range(overlay) : Directive(w) = Leaf("delete") /\ Named(w)}}
      fresh == SelectSeq(overlay, LAMBDA v : Directive(v) # Leaf("delete"))
      kept == SelectSeq(base, LAMBDA v : NameOf(v) \notin gone)
      Merge(s, v) ==
        IF NameOf(v) \in gone THEN s
        ELSE IF \E j \in DOMAIN s : NameOf(s[j]) = NameOf(v)
          THEN FlattenSeq([j \in DOMAIN s |->
                 IF NameOf(s[j]) # NameOf(v) THEN <<s[j]>>
                 ELSE LET m == jsonMerge(s[j].map, v.map)
                      IN  IF m.del THEN <<>> ELSE <<Map(m.map)>>])
        ELSE Append(s, Map(jsonMerge(NoMembers.map, v.map).map))
  IN  IF \E v \in Range(overlay) : Directive(v) = Leaf("replace")
           \/ \E w \in Range(fresh) \cup Range(base) : ~Named(w)
        THEN listWithoutPatchMarkers(overlay)
      ELSE FoldLeft(Merge, kept, fresh)

jsonMerge(base, overlay) ==
  LET Has(k) == k \in DOMAIN overlay
      is == Directive(Map(overlay))
      b == IF is = Leaf("replace") THEN NoMembers.map ELSE base
      Under(k) == IF k \in DOMAIN b /\ IsMap(b[k]) THEN b[k].map ELSE NoMembers.map
      Gone(k) == overlay[k] = Null \/ (IsMap(overlay[k]) /\ jsonMerge(Under(k), overlay[k].map).del)
      Value(k) ==
        IF IsMap(overlay[k]) THEN Map(jsonMerge(Under(k), overlay[k].map).map)
        ELSE IF IsList(overlay[k])
          THEN List(IF k \in DOMAIN b /\ IsList(b[k]) THEN MergeLists(b[k].list, overlay[k].list)
                    ELSE listWithoutPatchMarkers(overlay[k].list))
        ELSE overlay[k]
      asked == DOMAIN overlay \ Directives
      keys == (DOMAIN b \cup asked) \ {k \in asked : Gone(k)}
      merged == [k \in keys |-> IF k \in asked THEN Value(k) ELSE b[k]]
      dropped == [k \in keys |->
        IF Has(DropKey(k)) /\ IsList(merged[k])
          THEN List(SelectSeq(merged[k].list, LAMBDA v : v \notin Range(overlay[DropKey(k)].list)))
          ELSE merged[k]]
      ordered == [k \in keys |->
        IF Has(OrderKey(k)) /\ IsList(dropped[k])
          THEN List(orderElements(dropped[k].list, overlay[OrderKey(k)].list)) ELSE dropped[k]]
      retained == IF Has("$retainKeys") THEN {v.leaf : v \in Range(overlay["$retainKeys"].list)} ELSE keys
  IN  IF is = Leaf("delete") THEN [del |-> TRUE, map |-> base]
      ELSE [del |-> FALSE, map |-> [k \in keys \cap retained |-> ordered[k]]]

---------------------------------------------------------------------------
(* Server-side apply                                                       *)

Sections == <<"spec", "data", "binaryData", "stringData">>
Owned == <<"labels", "annotations">>
Metadata(v) == IF "metadata" \in MembersOf(v) THEN v.map["metadata"] ELSE NoMembers
Set(path, v) == <<[op |-> "add", path |-> path, value |-> v]>>
Unset(path) == <<[op |-> "remove", path |-> path]>>

(* Mutation test: what the applier no longer declares stays. *)
applyPatchOpsFaulty(current, applied) ==
  FlattenSeq([j \in DOMAIN Sections |->
    IF Sections[j] \in MembersOf(applied) THEN Set(<<Sections[j]>>, applied.map[Sections[j]]) ELSE <<>>])

(* The applier owns these: set what it declares, remove what it does not,  *)
(* but never spec.                                                         *)
applyPatchOps(current, applied) ==
  FlattenSeq([j \in DOMAIN Sections |->
    LET f == Sections[j]
    IN  IF f \in MembersOf(applied) THEN Set(<<f>>, applied.map[f])
        ELSE IF f \in MembersOf(current) /\ f # "spec" THEN Unset(<<f>>) ELSE <<>>]) \o
  FlattenSeq([j \in DOMAIN Owned |->
    LET f == Owned[j]
    IN  IF f \in MembersOf(Metadata(applied)) THEN Set(<<"metadata", f>>, Metadata(applied).map[f])
        ELSE IF f \in MembersOf(Metadata(current)) THEN Unset(<<"metadata", f>>) ELSE <<>>])

---------------------------------------------------------------------------
(* Requests                                                                *)

NoRequest == [kind |-> "none"]
NameIn(v) == patchGet(v, <<"metadata", "name">>)

(* The PATCH handlers work on a copy of what they read first. *)
PatchObject(a, kind, body) ==
  /\ Idle(a) /\ doc # Absent /\ stores < MaxStores
  /\ tasks' = [tasks EXCEPT ![a] =
       << [do |-> <<"save">>, kind |-> kind, body |-> body, applied |-> Absent, read |-> doc] >>]
  /\ last' = NoRequest
  /\ UNCHANGED <<doc, stores, alive>>

(* handleApply: GET, then POST to the collection, or PATCH. *)
ApplyObject(a, applied) ==
  /\ Idle(a) /\ stores < MaxStores
  /\ tasks' = [tasks EXCEPT ![a] =
       << [do |-> IF doc = Absent THEN <<"create">> ELSE <<"get", "save">>, kind |-> "apply",
           body |-> IF doc = Absent THEN <<>> ELSE applyPatchOps(doc, applied),
           applied |-> applied, read |-> Absent] >>]
  /\ last' = NoRequest
  /\ UNCHANGED <<doc, stores, alive>>

(* A POST whose name is taken meanwhile is refused. *)
CreateApplied(a) ==
  /\ On(a, "create")
  /\ IF doc # Absent THEN UNCHANGED <<doc, stores>> /\ last' = NoRequest
     ELSE /\ doc' = Now(a).applied
          /\ stores' = stores + 1
          /\ last' = [kind |-> "apply", before |-> NoMembers, body |-> <<>>,
                      applied |-> Now(a).applied, after |-> doc']
  /\ Proceed(a)
  /\ UNCHANGED alive

(* The PATCH of an apply reads the object a second time. *)
GetForPatch(a) ==
  /\ On(a, "get")
  /\ IF doc = Absent THEN Abandon(a)
     ELSE tasks' = [tasks EXCEPT ![a][1] = [@ EXCEPT !.do = <<"save">>, !.read = doc]]
  /\ last' = NoRequest
  /\ UNCHANGED <<doc, stores, alive>>

Patched(t) ==
  IF t.kind = "merge" THEN Map(jsonMerge(t.read.map, t.body.map).map) ELSE applyJSONPatch(t.read, t.body)

(* The copy is stored, unless an operation failed, the identity changed    *)
(* (validatePatchedIdentity) or the object is gone by now.                 *)
SavePatched(a) ==
  /\ On(a, "save")
  /\ LET t == Now(a)
         v == Patched(t)
     IN  IF v = Fail \/ doc = Absent \/ NameIn(v) # NameIn(t.read)
           THEN UNCHANGED <<doc, stores>> /\ last' = NoRequest
         ELSE /\ doc' = v
              /\ stores' = stores + 1
              /\ last' = [kind |-> t.kind, before |-> t.read, body |-> t.body,
                          applied |-> t.applied, after |-> v]
  /\ Proceed(a)
  /\ UNCHANGED alive

DeletePatched(a) ==
  /\ Idle(a) /\ doc # Absent
  /\ doc' = Absent /\ last' = NoRequest
  /\ UNCHANGED <<stores, tasks, alive>>

(* UpdatePodPhase and the like: only the status, under the store's lock. *)
SyncStatus ==
  /\ doc # Absent
  /\ \E s \in Statuses : doc' = Map(With(doc.map, "status", s))
  /\ last' = NoRequest
  /\ UNCHANGED <<stores, tasks, alive>>

PatchesInit ==
  /\ doc = Absent /\ stores = 0 /\ last = NoRequest
  /\ tasks = [a \in Callers |-> <<>>] /\ alive = TRUE

PatchesNext ==
  \/ \E a \in Clients :
       \/ \E p \in JsonPatches : PatchObject(a, "json", p)
       \/ \E p \in MergePatches : PatchObject(a, "merge", p)
       \/ \E p \in Applied : ApplyObject(a, p)
       \/ CreateApplied(a) \/ GetForPatch(a) \/ SavePatched(a)
       \/ DeletePatched(a)
  \/ SyncStatus

PatchesSpec == PatchesInit /\ [][PatchesNext]_patchVars

---------------------------------------------------------------------------
(* What the patches should do                                              *)

(* An object as its leaves, each with its path; lists count as leaves. *)
RECURSIVE Leaves(_, _)
Leaves(v, path) ==
  IF IsMap(v) THEN UNION {Leaves(v.map[k], Append(path, k)) : k \in DOMAIN v.map}
  ELSE {[path |-> path, value |-> v]}

Outside(L, path) == {x \in L : ~IsPrefix(path, x.path)}

(* RFC 6902, on members of objects. *)
Rfc6902(L, op) ==
  LET Sub(from) == {x \in L : IsPrefix(from, x.path)}
      Moved(X, from) == {[x EXCEPT !.path = op.path \o SubSeq(@, Len(from) + 1, Len(@))] : x \in X}
  IN  CASE op.op \in {"add", "replace"} -> Outside(L, op.path) \cup Leaves(op.value, op.path)
        [] op.op = "remove" -> Outside(L, op.path)
        [] op.op = "test" -> L
        [] op.op = "copy" -> Outside(L, op.path) \cup Moved(Sub(op.from), op.from)
        [] op.op = "move" -> Outside(Outside(L, op.from), op.path) \cup Moved(Sub(op.from), op.from)

OfMembers(v, op) ==
  \A path \in {op.path} \cup (IF "from" \in DOMAIN op THEN {op.from} ELSE {}) :
    \A j \in 1..(Len(path) - 1) : ~IsList(patchGet(v, SubSeq(path, 1, j)))

JsonPatchExact(r) ==
  (\A j \in DOMAIN r.body : OfMembers(r.before, r.body[j])) =>
    Leaves(r.after, <<>>) = FoldLeft(Rfc6902, Leaves(r.before, <<>>), r.body)

(* The named elements at path, by name. *)
ByName(v, path) ==
  LET s == Elements(patchGet(v, path))
  IN  [n \in {NameOf(s[j]) : j \in DOMAIN s} |-> (CHOOSE w \in Range(s) : NameOf(w) = n).map]

(* Named elements are merged one by one: those the patch does not name     *)
(* stay, as they were, those it deletes go.                                *)
MergeExact(r, path) ==
  LET o == Elements(patchGet(r.body, path))
      asked == {v \in Range(o) : Directive(v) = Null}
      gone == {NameOf(v) : v \in Range(o) \ asked}
      was == ByName(r.before, path)
      is == ByName(r.after, path)
  IN  o # <<>> /\ (\A v \in Range(o) : Named(v)) =>
        /\ DOMAIN is = (DOMAIN was \cup {NameOf(v) : v \in asked}) \ gone
        /\ \A n \in DOMAIN is :
             \/ \E v \in asked : NameOf(v) = n /\ \A k \in DOMAIN v.map : is[n][k] = v.map[k]
             \/ n \in DOMAIN was /\ is[n] = was[n] /\ \A v \in asked : NameOf(v) # n

(* The object is what the applier declares, and what the server owns. *)
ApplyExact(r) ==
  /\ \A f \in Range(Sections) :
       IF f \in MembersOf(r.applied) THEN f \in MembersOf(r.after) /\ r.after.map[f] = r.applied.map[f]
       ELSE f \in MembersOf(r.after) => f = "spec" \/ r.body # applyPatchOps(r.before, r.applied)
  /\ \A f \in Range(Owned) :
       IF f \in MembersOf(Metadata(r.applied))
         THEN f \in MembersOf(Metadata(r.after)) /\ Metadata(r.after).map[f] = Metadata(r.applied).map[f]
       ELSE f \in MembersOf(Metadata(r.after)) => r.body # applyPatchOps(r.before, r.applied)
  /\ MembersOf(r.after) \ Range(Sections) \subseteq
       MembersOf(r.before) \cup MembersOf(r.applied)

Containers == <<"spec", "containers">>

(* What a request stored is what it asked for, of the object it read: a    *)
(* JSON Patch changes what RFC 6902 says and nothing else ("It supports    *)
(* the full op set", applyJSONPatch), a merge patch goes by the names of   *)
(* list elements (jsonMerge), and an apply declares the user's sections    *)
(* ("the applier owns the user sections", applyMiddleware), a section it   *)
(* leaves out going too unless it came after the look-up.                  *)
PatchesAreExact ==
  CASE last.kind = "json"  -> JsonPatchExact(last)
    [] last.kind = "merge" -> MergeExact(last, Containers)
    [] last.kind = "apply" -> ApplyExact(last)
    [] OTHER -> TRUE

PatchesTypeOK ==
  doc # Absent => IsMap(doc) /\ NameIn(doc) \in {NameIn(v) : v \in Applied}
=============================================================================
