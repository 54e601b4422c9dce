--------------------------- MODULE UnbalancedTree ---------------------------
(***************************************************************************)
(* The internal search tree over k-CAS without balancing                   *)
(* (src/cpp/ds/sigouin_int_bst_kcas_unbalanced/                            *)
(* internal_kcas_unbalanced.h), modelled as AVLTree is. Its nodes have no  *)
(* parent and no height. Instead a search keeps the nodes between whose    *)
(* keys it ends, and an insertion compares the version of the lower one    *)
(* too. That node, oPred, outlives a failed attempt: see.pred is kept when *)
(* the search starts over. insertIfAbsent() and erase() hold one guard     *)
(* from call to return; contains() takes none.                             *)
(***************************************************************************)
EXTENDS TreeWords

(* Fault: insertIfAbsent() takes no guard either.                          *)
GuardedErase == {t \in Threads : pc[t] # "idle" /\ op[t].name = "erase"}

(* Who holds a guard.                                                      *)
Guarded == {t \in Threads : pc[t] # "idle" /\ op[t].name # "contains"}

-----------------------------------------------------------------------------
(* search(): predPtr and succPtr point into the path.                      *)

FromRoot(pred) ==
  LET top == [Seen(root) EXCEPT !.key = Infinity] IN
  [cur |-> top, pred |-> pred, predPtr |-> Seen(NULL), succPtr |-> top]

StartSearch(t) ==
  /\ Goto(t, "search", FromRoot(see[t].pred), <<Get("cur", "vNumMark")>>)
  /\ path' = [path EXCEPT ![t] = <<>>]
  /\ UNCHANGED <<idx, todo, ret, may>>

(* contains(), insertIfAbsent() and erase() begin with a search.           *)
call(t) ==
  /\ Called(t)
  /\ Goto(t, "search", FromRoot(Seen(NULL)), <<Get("cur", "vNumMark")>>)

Observed(s) == IF s.predPtr.node = NULL THEN s.pred ELSE s.predPtr

Found(t, p) ==
  \/ /\ op[t].name = "contains"
     /\ Return(t, <<TRUE>>)
  \/ /\ op[t].name = "insertIfAbsent"
     /\ Return(t, <<FALSE>>)
  \/ /\ op[t].name = "erase"
     /\ Goto(t, "countChildren",
             [pred |-> Observed(see[t]), parent |-> p[Len(p) - 1], node |-> p[Len(p)]],
             <<Load("left", "node", "left"), Load("right", "node", "right")>>)
     /\ path' = [path EXCEPT ![t] = <<>>]
     /\ UNCHANGED <<limbo, idx, todo, ret, may>>

search(t) ==
  LET s == see[t]
      p == Append(path[t], s.cur)
      up == op[t].key > s.cur.key
  IN
  /\ At(t, "search")
  /\ \/ /\ s.cur.node = NULL
        /\ Goto(t, "terminal", [s EXCEPT !.pred = Observed(s)],
                <<Get("predPtr", "key"), Get("succPtr", "key")>>)
        /\ UNCHANGED <<limbo, path, idx, todo, ret, may>>
     \/ /\ s.cur.node # NULL
        /\ op[t].key # s.cur.key
        /\ path' = [path EXCEPT ![t] = p]
        /\ Goto(t, "search",
                [s EXCEPT !.predPtr = IF up THEN s.cur ELSE @,
                          !.succPtr = IF up THEN @ ELSE s.cur],
                <<Load("cur", "cur", IF up THEN "right" ELSE "left"),
                  Get("cur", "vNumMark"), Get("cur", "key")>>)
        /\ UNCHANGED <<limbo, idx, todo, ret, may>>
     \/ /\ s.cur.node # NULL
        /\ op[t].key = s.cur.key
        /\ Found(t, p)
  /\ UNCHANGED <<heap, script, op>>

(* Fault: a search that ends at a NULL pointer is believed.                *)
terminalTrusted(t) ==
  /\ At(t, "terminal")
  /\ Goto(t, "validatePath", [pred |-> see[t].pred], <<>>)
  /\ idx' = [idx EXCEPT ![t] = Len(path[t]) + 1]
  /\ UNCHANGED <<heap, limbo, script, op, path, todo, ret, may>>

(* At a NULL pointer: is this where the key belongs?                       *)
terminal(t) ==
  LET s == see[t]
      k == op[t].key
      wrong == (s.predPtr.node # NULL /\ k <= s.predPtr.key) \/ k >= s.succPtr.key
  IN
  /\ At(t, "terminal")
  /\ \/ /\ wrong
        /\ StartSearch(t)
     \/ /\ ~ wrong
        /\ Goto(t, "validatePath", [pred |-> s.pred], <<>>)
        /\ idx' = [idx EXCEPT ![t] = 1]
        /\ UNCHANGED <<path, todo, ret, may>>
  /\ UNCHANGED <<heap, limbo, script, op>>

validatePath(t) ==
  /\ At(t, "validatePath")
  /\ idx[t] <= Len(path[t])
  /\ \/ /\ StillValid(path[t][idx[t]])
        /\ idx' = [idx EXCEPT ![t] = @ + 1]
        /\ UNCHANGED <<pc, reads, see, path, todo, ret, may>>
     \/ /\ ~ StillValid(path[t][idx[t]])
        /\ StartSearch(t)
  /\ UNCHANGED <<heap, limbo, script, op>>

notFound(t) ==
  /\ At(t, "validatePath")
  /\ idx[t] > Len(path[t])
  /\ \/ /\ op[t].name \in {"contains", "erase"}
        /\ Return(t, <<FALSE>>)
     \/ /\ op[t].name = "insertIfAbsent"
        /\ Goto(t, "create", [pred |-> see[t].pred, parent |-> path[t][Len(path[t])]],
                <<Get("pred", "key")>>)
        /\ path' = [path EXCEPT ![t] = <<>>]
        /\ UNCHANGED <<limbo, idx, todo, ret, may>>
  /\ UNCHANGED <<heap, script, op>>

-----------------------------------------------------------------------------
(* internalInsert() and internalErase().                                   *)

(* Fault: the version of the parent is not compared.                       *)
InsertUnguarded(s, k) == <<Word(s.parent.node, ParentSide(s, k), NULL, s.new.node)>>

InsertRequest(s, k) ==
  (IF s.pred.node \in {NULL, s.parent.node} THEN <<>> ELSE Same(s.pred))
    \o <<Word(s.parent.node, ParentSide(s, k), NULL, s.new.node)>> \o Bump(s.parent)

UnlinkRequest(s, k) ==
  <<Word(s.parent.node, ParentSide(s, k), s.node.node, s.child.node)>>
    \o IfAny(s.child, Bump(s.child)) \o Mark(s.node) \o Bump(s.parent)

(* Fault: the version of the node that gets the key is left alone.         *)
PromoteUnguarded(s, k) ==
  IfAny(s.succRight, Bump(s.succRight))
    \o <<Word(s.parent.node, SideOf(s, s.succ), s.succ.node, s.succRight.node),
         Word(s.node.node, "value", s.node.value, s.succ.value),
         Word(s.node.node, "key", k, s.succ.key)>>
    \o Mark(s.succ) \o Bump(s.parent)

PromoteRequest(s, k) ==
  IfAny(s.succRight, Bump(s.succRight))
    \o <<Word(s.parent.node, SideOf(s, s.succ), s.succ.node, s.succRight.node),
         Word(s.node.node, "value", s.node.value, s.succ.value),
         Word(s.node.node, "key", k, s.succ.key)>>
    \o Mark(s.succ) \o Bump(s.parent)
    \o (IF s.parent.node = s.node.node THEN <<>> ELSE Bump(s.node))

TakesEffect(t, req) ==
  /\ Succeeds(req)
  /\ Goto(t, "done", <<>>, <<>>)
  /\ ret' = [ret EXCEPT ![t] = <<TRUE>>]
  /\ Observe(t)
  /\ UNCHANGED <<path, idx, todo>>

(* A removal: gone is the node that it unlinks and retires.                *)
Update(t, req, gone, ok) ==
  \/ /\ ok
     /\ limbo' = With(limbo, gone, Guarded)
     /\ TakesEffect(t, req)
  \/ /\ ok => CanFail(req)
     /\ StartSearch(t)
     /\ UNCHANGED <<heap, limbo>>

done(t) ==
  /\ At(t, "done")
  /\ Return(t, ret[t])
  /\ UNCHANGED <<heap, script, op>>

createNew(t) ==
  /\ At(t, "create")
  /\ \/ /\ see[t].pred.key = op[t].key
        /\ StartSearch(t)
        /\ UNCHANGED <<heap, limbo>>
     \/ /\ see[t].pred.key # op[t].key
        /\ Creates(t, NULL)
        /\ UNCHANGED <<path, idx, todo, ret, may>>
  /\ UNCHANGED <<script, op>>

(* The new node is retired when execute() fails, and lost when the parent  *)
(* has the key by now.                                                     *)
internalInsert(t) ==
  LET s == see[t]
      req == InsertRequest(s, op[t].key)
      new == s.new.node
  IN
  /\ At(t, "insert")
  /\ \/ /\ ParentSide(s, op[t].key) # None
        /\ limbo' = Without(limbo, new)
        /\ TakesEffect(t, req)
     \/ /\ ParentSide(s, op[t].key) # None
        /\ CanFail(req)
        /\ GivesUp(t, new, Guarded, limbo)
        /\ StartSearch(t)
     \/ /\ ParentSide(s, op[t].key) = None
        /\ GivesUp(t, new, {None}, limbo)
        /\ StartSearch(t)
  /\ UNCHANGED <<script, op>>

countChildren(t) ==
  LET s == see[t]
      o == [pred |-> s.pred, parent |-> s.parent, node |-> s.node]
      n == Cardinality({x \in {"left", "right"} : s[x].node # NULL})
  IN
  /\ At(t, "countChildren")
  /\ \/ /\ IS_MARKED(s.parent.vNumMark) \/ IS_MARKED(s.node.vNumMark)
        /\ StartSearch(t)
     \/ /\ ~ IS_MARKED(s.parent.vNumMark)
        /\ ~ IS_MARKED(s.node.vNumMark)
        /\ \/ /\ n = 0
              /\ Goto(t, "unlink", With(o, "child", Seen(NULL)), ReadParentKey)
           \/ /\ n = 1
              /\ Goto(t, "oneChild", o,
                      <<Load("left", "node", "left"), Load("right", "node", "right")>>)
           \/ /\ n = 2
              /\ Goto(t, "getSuccessor", With(o, "top", Seen(s.node.node)),
                      <<Load("succ", "node", "right"), Get("top", "vNumMark"),
                        Get("succ", "vNumMark")>>)
        /\ UNCHANGED <<path, idx, todo, ret, may>>
  /\ UNCHANGED <<heap, limbo, script, op>>

oneChild(t) ==
  LET s == see[t]
      reroute == IF s.left.node # NULL THEN s.left ELSE s.right
  IN
  /\ At(t, "oneChild")
  /\ \/ /\ reroute.node = NULL
        /\ StartSearch(t)
     \/ /\ reroute.node # NULL
        /\ Goto(t, "unlink",
                [pred |-> s.pred, parent |-> s.parent, node |-> s.node, child |-> reroute],
                <<Get("child", "vNumMark")>> \o ReadParentKey)
        /\ UNCHANGED <<path, idx, todo, ret, may>>
  /\ UNCHANGED <<heap, limbo, script, op>>

unlink(t) ==
  LET s == see[t]
      k == op[t].key
  IN
  /\ At(t, "unlink")
  /\ Update(t, UnlinkRequest(s, k), s.node.node,
            ~ IS_MARKED(s.child.vNumMark) /\ ParentSide(s, k) # None)
  /\ UNCHANGED <<script, op>>

(* The path is not validated: only the last two nodes must not be marked.  *)
getSuccessor(t) ==
  LET s == see[t]
      p == IF path[t] = <<>> THEN <<s.top>> ELSE path[t]
      n == Len(p)
      gone == n < 2 \/ IS_MARKED(p[n].vNumMark) \/ IS_MARKED(p[n - 1].vNumMark)
  IN
  /\ At(t, "getSuccessor")
  /\ \/ /\ s.succ.node # NULL
        /\ path' = [path EXCEPT ![t] = Append(p, s.succ)]
        /\ Goto(t, "getSuccessor", s, <<Load("succ", "succ", "left"), Get("succ", "vNumMark")>>)
        /\ UNCHANGED <<idx, todo, ret, may>>
     \/ /\ s.succ.node = NULL
        /\ gone
        /\ StartSearch(t)
     \/ /\ s.succ.node = NULL
        /\ ~ gone
        /\ path' = [path EXCEPT ![t] = <<>>]
        /\ Goto(t, "promote",
                [pred |-> s.pred, node |-> s.node, succ |-> p[n], parent |-> p[n - 1]],
                <<Get("succ", "key"), Load("succRight", "succ", "right"),
                  Get("succRight", "vNumMark")>> \o ReadParentLinks
                  \o <<Get("node", "value"), Get("succ", "value")>>)
        /\ UNCHANGED <<idx, todo, ret, may>>
  /\ UNCHANGED <<heap, limbo, script, op>>

promote(t) ==
  LET s == see[t] IN
  /\ At(t, "promote")
  /\ Update(t, PromoteRequest(s, op[t].key), s.succ.node,
            ~ IS_MARKED(s.succRight.vNumMark) /\ SideOf(s, s.succ) # None)
  /\ UNCHANGED <<script, op>>

-----------------------------------------------------------------------------
Step(t) ==
  \/ call(t) \/ read(t) \/ search(t) \/ terminal(t) \/ validatePath(t) \/ notFound(t)
  \/ createNew(t) \/ internalInsert(t) \/ countChildren(t) \/ oneChild(t) \/ unlink(t)
  \/ getSuccessor(t) \/ promote(t) \/ done(t)

Next == \E t \in Threads : Step(t)

Spec == Init /\ [][Next]_vars

(* A thread that can take a step takes one in the end: the scheduler's.    *)
FairSpec == Spec /\ \A t \in Threads : WF_vars(Step(t))

-----------------------------------------------------------------------------
(* The request a thread is about to execute.                               *)
Asked(t) ==
  LET s == see[t]
      k == op[t].key
  IN
  CASE At(t, "insert") /\ ParentSide(s, k) # None -> InsertRequest(s, k)
    [] At(t, "unlink") /\ ParentSide(s, k) # None -> UnlinkRequest(s, k)
    [] At(t, "promote") /\ SideOf(s, s.succ) # None -> PromoteRequest(s, k)
    [] OTHER -> <<>>

(* Every request follows the rule on which KCAS rests, also one that was   *)
(* put together while others moved keys: a promotion never lowers a key,   *)
(* although getSuccessor() validates nothing. None that can succeed names  *)
(* a word twice.                                                           *)
RequestsGuarded ==
  \A t \in Threads :
    FollowsDiscipline(Asked(t)) /\ (CanSucceed(Asked(t)) => Repeated(Asked(t)) = {})

(* What the guards of insertIfAbsent() and erase() are for: no node that   *)
(* such an operation has in its locals, reached over links that may be out *)
(* of date or kept from an earlier attempt, can be allocated again.        *)
HeldNodesStay ==
  \A t \in Threads : op[t].name # "contains" => Held(t) \cap Free = {}

(* "keep trying until we get a result": every operation returns when the   *)
(* operations of the others are finite.                                    *)
Progress == \A t \in Threads : (pc[t] # "idle") ~> (pc[t] = "idle")
=============================================================================
