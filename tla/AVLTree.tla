------------------------------ MODULE AVLTree -------------------------------
(***************************************************************************)
(* The relaxed AVL tree over k-CAS                                         *)
(* (src/cpp/ds/sigouin_int_bst_kcas/internal_kcas.h). Every shared word is *)
(* read in a step of its own, every execute() is a step. A chain of reads  *)
(* and tests that ends in one execute() is a list of reads and the action  *)
(* at its end; a test that gives up in the middle of the chain is made     *)
(* there too, since the reads after it change nothing. Left and right are  *)
(* mirror images in the code and one definition here; where C++ leaves the *)
(* order of two reads open (the operands of max) the model fixes one. The  *)
(* answer of contains() is whether it found the key, that of the updates   *)
(* whether they changed the set: insertIfAbsent() returns 0 then, erase()  *)
(* a value. contains() holds a guard from call to return, the updates take *)
(* one for every attempt.                                                  *)
(***************************************************************************)
EXTENDS TreeWords

(* Fault: contains() takes no guard.                                       *)
GuardedUpdates == {t \in Threads : pc[t] # "idle" /\ op[t].name # "contains"}

(* Who holds a guard.                                                      *)
Guarded == {t \in Threads : pc[t] # "idle"}

-----------------------------------------------------------------------------
(* search(), validatePath()                                                *)

(* A while loop around search(), entered again after every RETRY. A RETRY  *)
(* of internalInsert() or internalErase() ends the scope of the guard too. *)
FromRoot == [cur |-> [Seen(root) EXCEPT !.key = Infinity]]
StartSearch(t) ==
  /\ Goto(t, "search", FromRoot, <<Get("cur", "vNumMark")>>)
  /\ path' = [path EXCEPT ![t] = <<>>]
  /\ UNCHANGED <<idx, todo, ret, may>>
Retry(t) ==
  /\ StartSearch(t)
  /\ limbo' = Released(limbo, t)

(* contains(), insertIfAbsent() and erase() begin with a search.           *)
call(t) ==
  /\ Called(t)
  /\ Goto(t, "search", FromRoot, <<Get("cur", "vNumMark")>>)

(* What the three operations make of the result of search().               *)
Found(t, p) ==
  \/ /\ op[t].name = "contains"
     /\ Return(t, <<TRUE>>)
  \/ /\ op[t].name = "insertIfAbsent"
     /\ Return(t, <<FALSE>>)
  \/ /\ op[t].name = "erase"
     /\ Goto(t, "countChildren", [parent |-> p[Len(p) - 1], node |-> p[Len(p)]],
             <<Load("left", "node", "left"), Load("right", "node", "right")>>)
     /\ path' = [path EXCEPT ![t] = <<>>]
     /\ UNCHANGED <<limbo, idx, todo, ret, may>>

NotFound(t) ==
  \/ /\ op[t].name \in {"contains", "erase"}
     /\ Return(t, <<FALSE>>)
  \/ /\ op[t].name = "insertIfAbsent"
     /\ Goto(t, "create", [parent |-> path[t][Len(path[t])]], <<>>)
     /\ path' = [path EXCEPT ![t] = <<>>]
     /\ UNCHANGED <<limbo, idx, todo, ret, may>>

(* The path in hand at a NULL pointer: validate it next.                   *)
ToValidate(t, label) ==
  /\ Goto(t, label, see[t], <<>>)
  /\ idx' = [idx EXCEPT ![t] = 1]

search(t) ==
  LET cur == see[t].cur
      p == Append(path[t], cur)
      next == IF op[t].key > cur.key THEN "right" ELSE "left"
  IN
  /\ At(t, "search")
  /\ \/ /\ cur.node = NULL
        /\ ToValidate(t, "validatePath")
        /\ UNCHANGED <<limbo, path, todo, ret, may>>
     \/ /\ cur.node # NULL
        /\ op[t].key # cur.key
        /\ path' = [path EXCEPT ![t] = p]
        /\ Goto(t, "search", see[t],
                <<Load("cur", "cur", next), Get("cur", "vNumMark"), Get("cur", "key")>>)
        /\ UNCHANGED <<limbo, idx, todo, ret, may>>
     \/ /\ cur.node # NULL
        /\ op[t].key = cur.key
        /\ Found(t, p)
  /\ UNCHANGED <<heap, script, op>>

validatePath(t) ==
  LET o == path[t][idx[t]] IN
  /\ pc[t] \in {"validatePath", "validateSuccessor"}
  /\ reads[t] = <<>>
  /\ idx[t] <= Len(path[t])
  /\ \/ /\ StillValid(o)
        /\ idx' = [idx EXCEPT ![t] = @ + 1]
        /\ UNCHANGED <<limbo, pc, reads, see, path, todo, ret, may>>
     \/ /\ ~ StillValid(o)
        /\ pc[t] = "validatePath"
        /\ StartSearch(t)
        /\ UNCHANGED limbo
     \/ /\ ~ StillValid(o)
        /\ pc[t] = "validateSuccessor"
        /\ Retry(t)
  /\ UNCHANGED <<heap, script, op>>

notFound(t) ==
  /\ At(t, "validatePath")
  /\ idx[t] > Len(path[t])
  /\ NotFound(t)
  /\ UNCHANGED <<heap, script, op>>

-----------------------------------------------------------------------------
(* fixHeightAndRebalance(): todo holds the nodes of the calls in progress, *)
(* nested ones first. A call on the root does nothing.                     *)

ReadForBalance ==
  <<Get("node", "vNumMark"), Load("parent", "node", "parent"), Get("parent", "vNumMark"),
    Load("left", "node", "left"), Get("left", "vNumMark"),
    Load("right", "node", "right"), Get("right", "vNumMark"),
    Get("left", "height"), Get("right", "height")>>

Repair(t, nodes) ==
  LET ns == SelectSeq(nodes, LAMBDA n : n # root) IN
  /\ todo' = [todo EXCEPT ![t] = ns]
  /\ IF ns = <<>> THEN Goto(t, "done", <<>>, <<>>)
     ELSE Goto(t, "balance", [node |-> Seen(Head(ns))], ReadForBalance)
  /\ UNCHANGED <<path, idx>>

done(t) ==
  /\ At(t, "done")
  /\ Return(t, ret[t])
  /\ UNCHANGED <<heap, script, op>>

-----------------------------------------------------------------------------
(* internalInsert() and internalErase(): what each execute() is asked.     *)

(* Fault: the version of the parent is not compared.                       *)
InsertUnguarded(s, k) == <<Word(s.parent.node, ParentSide(s, k), NULL, s.new.node)>>

InsertRequest(s, k) ==
  <<Word(s.parent.node, ParentSide(s, k), NULL, s.new.node)>> \o Bump(s.parent)

(* Fault: the child keeps the removed node as its parent.                  *)
UnlinkKeepsParent(s, k) ==
  <<Word(s.parent.node, ParentSide(s, k), s.node.node, s.child.node)>>
    \o IfAny(s.child, Bump(s.child)) \o Mark(s.node) \o Bump(s.parent)

UnlinkRequest(s, k) ==
  <<Word(s.parent.node, ParentSide(s, k), s.node.node, s.child.node)>>
    \o IfAny(s.child, <<Word(s.child.node, "parent", s.node.node, s.parent.node)>>
                        \o Bump(s.child))
    \o Mark(s.node) \o Bump(s.parent)

(* Fault: the version of the node that gets the key is left alone.         *)
PromoteUnguarded(s, k) ==
  IfAny(s.succRight, <<Word(s.succRight.node, "parent", s.succ.node, s.parent.node)>>
                       \o Bump(s.succRight))
    \o <<Word(s.parent.node, SideOf(s, s.succ), s.succ.node, s.succRight.node),
         Word(s.node.node, "value", s.node.value, s.succ.value),
         Word(s.node.node, "key", k, s.succ.key)>>
    \o Mark(s.succ) \o Bump(s.parent)

PromoteRequest(s, k) ==
  IfAny(s.succRight, <<Word(s.succRight.node, "parent", s.succ.node, s.parent.node)>>
                       \o Bump(s.succRight))
    \o <<Word(s.parent.node, SideOf(s, s.succ), s.succ.node, s.succRight.node),
         Word(s.node.node, "value", s.node.value, s.succ.value),
         Word(s.node.node, "key", k, s.succ.key)>>
    \o Mark(s.succ) \o Bump(s.parent)
    \o (IF s.parent.node = s.node.node THEN <<>> ELSE Bump(s.node))

(* The operation has taken effect when its k-CAS succeeds; what is left is *)
(* to repair heights from the parent upwards.                              *)
TakesEffect(t, req) ==
  /\ Succeeds(req)
  /\ Repair(t, <<see[t].parent.node>>)
  /\ ret' = [ret EXCEPT ![t] = <<TRUE>>]
  /\ Observe(t)

(* A removal: gone is the node that it unlinks and retires.                *)
Update(t, req, gone, ok) ==
  \/ /\ ok
     /\ limbo' = With(limbo, gone, Guarded)
     /\ TakesEffect(t, req)
  \/ /\ ok => CanFail(req)
     /\ Retry(t)
     /\ UNCHANGED heap

createNew(t) ==
  /\ At(t, "create")
  /\ Creates(t, see[t].parent.node)
  /\ UNCHANGED <<script, op, path, idx, todo, ret, may>>

(* The new node is deallocated if it does not come into the tree: it may   *)
(* be allocated again at once.                                             *)
internalInsert(t) ==
  LET s == see[t]
      side == ParentSide(s, op[t].key)
      req == InsertRequest(s, op[t].key)
  IN
  /\ At(t, "insert")
  /\ \/ /\ side # None
        /\ limbo' = Without(limbo, s.new.node)
        /\ TakesEffect(t, req)
     \/ /\ side # None => CanFail(req)
        /\ GivesUp(t, s.new.node, {}, Released(limbo, t))
        /\ StartSearch(t)
  /\ UNCHANGED <<script, op>>

countChildren(t) ==
  LET s == see[t]
      o == [parent |-> s.parent, node |-> s.node]
      n == Cardinality({x \in {"left", "right"} : s[x].node # NULL})
  IN
  /\ At(t, "countChildren")
  /\ \/ /\ IS_MARKED(s.parent.vNumMark) \/ IS_MARKED(s.node.vNumMark)
        /\ Retry(t)
     \/ /\ ~ IS_MARKED(s.parent.vNumMark)
        /\ ~ IS_MARKED(s.node.vNumMark)
        /\ \/ /\ n = 0
              /\ Goto(t, "unlink", With(o, "child", Seen(NULL)), ReadParentKey)
           \/ /\ n = 1
              /\ Goto(t, "oneChild", o,
                      <<Load("left", "node", "left"), Load("right", "node", "right")>>)
           \/ /\ n = 2
              /\ Goto(t, "getSuccessor", With(o, "top", Seen(s.node.node)),
                      <<Load("succ", "node", "right"), Get("top", "vNumMark"),
                        Get("succ", "vNumMark")>>)
        /\ UNCHANGED <<limbo, path, idx, todo, ret, may>>
  /\ UNCHANGED <<heap, script, op>>

oneChild(t) ==
  LET s == see[t]
      reroute == IF s.left.node # NULL THEN s.left ELSE s.right
  IN
  /\ At(t, "oneChild")
  /\ \/ /\ reroute.node = NULL
        /\ Retry(t)
     \/ /\ reroute.node # NULL
        /\ Goto(t, "unlink", [parent |-> s.parent, node |-> s.node, child |-> reroute],
                <<Get("child", "vNumMark")>> \o ReadParentKey)
        /\ UNCHANGED <<limbo, path, idx, todo, ret, may>>
  /\ UNCHANGED <<heap, script, op>>

unlink(t) ==
  LET s == see[t]
      k == op[t].key
  IN
  /\ At(t, "unlink")
  /\ Update(t, UnlinkRequest(s, k), s.node.node,
            ~ IS_MARKED(s.child.vNumMark) /\ ParentSide(s, k) # None)
  /\ UNCHANGED <<script, op>>

getSuccessor(t) ==
  LET s == see[t]
      p == IF path[t] = <<>> THEN <<s.top>> ELSE path[t]
  IN
  /\ At(t, "getSuccessor")
  /\ \/ /\ s.succ.node # NULL
        /\ path' = [path EXCEPT ![t] = Append(p, s.succ)]
        /\ Goto(t, "getSuccessor", s, <<Load("succ", "succ", "left"), Get("succ", "vNumMark")>>)
        /\ UNCHANGED <<limbo, idx, todo, ret, may>>
     \/ /\ s.succ.node = NULL
        /\ path' = [path EXCEPT ![t] = p]
        /\ ToValidate(t, "validateSuccessor")
        /\ UNCHANGED <<limbo, todo, ret, may>>
  /\ UNCHANGED <<heap, script, op>>

gotSuccessor(t) ==
  LET s == see[t]
      size == Len(path[t])
  IN
  /\ At(t, "validateSuccessor")
  /\ idx[t] > size
  /\ \/ /\ size > 1
        /\ Goto(t, "promote", [node |-> s.node, succ |-> path[t][size]],
                <<Load("parent", "succ", "parent"), Get("parent", "vNumMark"),
                  Get("succ", "key"), Load("succRight", "succ", "right"),
                  Get("succRight", "vNumMark"), Load("parentRight", "parent", "right"),
                  Load("parentLeft", "parent", "left"), Get("node", "value"),
                  Get("succ", "value")>>)
        /\ path' = [path EXCEPT ![t] = <<>>]
        /\ UNCHANGED <<limbo, idx, todo, ret, may>>
     \/ /\ size = 1
        /\ Retry(t)
  /\ UNCHANGED <<heap, script, op>>

promote(t) ==
  LET s == see[t] IN
  /\ At(t, "promote")
  /\ Update(t, PromoteRequest(s, op[t].key), s.succ.node,
            /\ ~ IS_MARKED(s.parent.vNumMark)
            /\ ~ IS_MARKED(s.succRight.vNumMark)
            /\ SideOf(s, s.succ) # None)
  /\ UNCHANGED <<script, op>>

-----------------------------------------------------------------------------
(* One turn of the loop of fixHeightAndRebalance().                        *)

Heavy == [left |-> "leftHeavy", right |-> "rightHeavy"]

heavySide(s) ==
  CASE s.left.height - s.right.height >= 2 -> "left"
    [] s.left.height - s.right.height <= -2 -> "right"
    [] OTHER -> None

ReadForHeight ==
  <<Load("left", "node", "left"), Load("right", "node", "right"),
    Get("left", "vNumMark"), Get("right", "vNumMark"), Get("node", "height"),
    Get("left", "height"), Get("right", "height")>>

balanceUnmarked(t) ==
  LET s == see[t]
      side == heavySide(s)
  IN
  \/ /\ side = None
     /\ Goto(t, "fixHeight", [node |-> s.node], ReadForHeight)
     /\ UNCHANGED <<path, idx, todo>>
  \/ /\ side # None
     /\ IF s[side].node = NULL \/ IS_MARKED(s[side].vNumMark)
        THEN Repair(t, todo[t])
        ELSE /\ Goto(t, Heavy[side], [parent |-> s.parent, node |-> s.node, child |-> s[side]],
                     <<Load("inner", "child", Opposite(side)), Load("outer", "child", side),
                       Get("inner", "vNumMark"), Get("outer", "height"),
                       Get("inner", "height")>>)
             /\ UNCHANGED <<path, idx, todo>>

(* Fault: a node that was marked in the meantime is tried again.           *)
balanceMarked(t) ==
  /\ At(t, "balance")
  /\ IF IS_MARKED(see[t].node.vNumMark) THEN Repair(t, todo[t]) ELSE balanceUnmarked(t)
  /\ UNCHANGED <<heap, limbo, script, op, ret, may>>

balance(t) ==
  /\ At(t, "balance")
  /\ IF IS_MARKED(see[t].node.vNumMark) THEN Repair(t, Tail(todo[t])) ELSE balanceUnmarked(t)
  /\ UNCHANGED <<heap, limbo, script, op, ret, may>>

newHeight(a, b) == 1 + Max({a, b})

(* Fault: the versions of the children are not compared.                   *)
HeightUnchecked(s) ==
  <<Word(s.node.node, "height", s.node.height,
         newHeight(s.left.height, s.right.height))>> \o Bump(s.node)

HeightRequest(s) ==
  IfAny(s.left, Same(s.left)) \o IfAny(s.right, Same(s.right))
    \o <<Word(s.node.node, "height", s.node.height,
              newHeight(s.left.height, s.right.height))>>
    \o Bump(s.node)

fixHeight(t) ==
  LET s == see[t] IN
  /\ At(t, "fixHeight")
  /\ \/ /\ s.node.height = newHeight(s.left.height, s.right.height)
        /\ Goto(t, "unnecessary", s,
                <<Load("nodeNow", "node", "vNumMark"), Load("leftNow", "left", "vNumMark"),
                  Load("rightNow", "right", "vNumMark")>>)
        /\ UNCHANGED <<heap, path, idx, todo>>
     \/ /\ s.node.height # newHeight(s.left.height, s.right.height)
        /\ \/ /\ Succeeds(HeightRequest(s))
              /\ Goto(t, "ascend", [node |-> s.node], <<Load("parent", "node", "parent")>>)
              /\ UNCHANGED <<path, idx, todo>>
           \/ /\ CanFail(HeightRequest(s))
              /\ Repair(t, todo[t])
              /\ UNCHANGED heap
  /\ UNCHANGED <<limbo, script, op, ret, may>>

unnecessary(t) ==
  LET s == see[t]
      unchanged(x, now) == s[x].node = NULL \/ s[x].vNumMark = s[now].vNumMark
  IN
  /\ At(t, "unnecessary")
  /\ IF unchanged("node", "nodeNow") /\ unchanged("left", "leftNow")
          /\ unchanged("right", "rightNow")
     THEN Repair(t, Tail(todo[t]))
     ELSE Repair(t, todo[t])
  /\ UNCHANGED <<heap, limbo, script, op, ret, may>>

ascend(t) ==
  /\ At(t, "ascend")
  /\ Repair(t, <<see[t].parent.node>> \o Tail(todo[t]))
  /\ UNCHANGED <<heap, limbo, script, op, ret, may>>

-----------------------------------------------------------------------------
(* Rotations. side is where the subtree is too high: rotateRight() and     *)
(* rotateLeftRight() with "left", their mirror images with "right".        *)

ReadForRotate(side) ==
  ReadParentLinks \o
  <<Load("inner", "child", Opposite(side)), Get("inner", "vNumMark"),
    Load("outer", "child", side), Get("outer", "vNumMark"),
    Load("other", "node", Opposite(side)), Get("other", "vNumMark"),
    Get("node", "height"), Get("child", "height"),
    Get("inner", "height"), Get("other", "height"), Get("outer", "height")>>

ReadForRotateTwice(side) ==
  ReadParentLinks \o
  <<Load("near", "inner", side), Get("near", "vNumMark"),
    Load("far", "inner", Opposite(side)), Get("far", "vNumMark"),
    Load("other", "node", Opposite(side)), Get("other", "vNumMark"),
    Load("outer", "child", side), Get("outer", "vNumMark"),
    Get("node", "height"), Get("child", "height"), Get("inner", "height"),
    Get("far", "height"), Get("other", "height"),
    Get("outer", "height"), Get("near", "height")>>

Single == [left |-> "rotateRight", right |-> "rotateLeft"]
Double == [left |-> "rotateLeftRight", right |-> "rotateRightLeft"]

(* An inner grandchild higher than the outer one is not NULL: the code's   *)
(* test for that cannot succeed.                                           *)
chooseRotation(t, side) ==
  LET s == see[t]
      o == [parent |-> s.parent, node |-> s.node, child |-> s.child]
  IN
  /\ At(t, Heavy[side])
  /\ IF s.inner.height > s.outer.height
     THEN Goto(t, Double[side], With(o, "inner", s.inner), ReadForRotateTwice(side))
     ELSE Goto(t, Single[side], o, ReadForRotate(side))
  /\ UNCHANGED <<heap, limbo, script, op, path, idx, todo, ret, may>>

(* Fault: the subtree that changes sides keeps its version.                *)
RotateUnguarded(s, side) ==
  LET node == s.node.node
      child == s.child.node
      parent == s.parent.node
      nodeHeight == newHeight(s.inner.height, s.other.height)
  IN
  <<Word(parent, SideOf(s, s.node), node, child)>>
    \o IfAny(s.inner, <<Word(s.inner.node, "parent", child, node)>> \o Same(s.inner))
    \o IfAny(s.outer, Same(s.outer)) \o IfAny(s.other, Same(s.other))
    \o <<Word(child, "parent", node, parent),
         Word(node, side, child, s.inner.node),
         Word(child, Opposite(side), s.inner.node, node),
         Word(node, "parent", parent, child),
         Word(node, "height", s.node.height, nodeHeight),
         Word(child, "height", s.child.height, newHeight(s.outer.height, nodeHeight))>>
    \o Bump(s.parent) \o Bump(s.node) \o Bump(s.child)

RotateRequest(s, side) ==
  LET node == s.node.node
      child == s.child.node
      parent == s.parent.node
      nodeHeight == newHeight(s.inner.height, s.other.height)
  IN
  <<Word(parent, SideOf(s, s.node), node, child)>>
    \o IfAny(s.inner, <<Word(s.inner.node, "parent", child, node)>> \o Bump(s.inner))
    \o IfAny(s.outer, Same(s.outer)) \o IfAny(s.other, Same(s.other))
    \o <<Word(child, "parent", node, parent),
         Word(node, side, child, s.inner.node),
         Word(child, Opposite(side), s.inner.node, node),
         Word(node, "parent", parent, child),
         Word(node, "height", s.node.height, nodeHeight),
         Word(child, "height", s.child.height, newHeight(s.outer.height, nodeHeight))>>
    \o Bump(s.parent) \o Bump(s.node) \o Bump(s.child)

rotate(t, side) ==
  LET s == see[t]
      req == RotateRequest(s, side)
      attempted == SideOf(s, s.node) # None
  IN
  /\ At(t, Single[side])
  /\ \/ /\ attempted
        /\ Succeeds(req)
        /\ Repair(t, <<s.node.node, s.child.node, s.parent.node>> \o Tail(todo[t]))
     \/ /\ attempted => CanFail(req)
        /\ Repair(t, todo[t])
        /\ UNCHANGED heap
  /\ UNCHANGED <<limbo, script, op, ret, may>>

RotateTwiceRequest(s, side) ==
  LET node == s.node.node
      child == s.child.node
      inner == s.inner.node
      parent == s.parent.node
      nodeHeight == newHeight(s.far.height, s.other.height)
      childHeight == newHeight(s.outer.height, s.near.height)
  IN
  <<Word(parent, SideOf(s, s.node), node, inner)>>
    \o IfAny(s.near, <<Word(s.near.node, "parent", inner, child)>> \o Bump(s.near))
    \o IfAny(s.far, <<Word(s.far.node, "parent", inner, node)>> \o Bump(s.far))
    \o IfAny(s.other, Same(s.other)) \o IfAny(s.outer, Same(s.outer))
    \o <<Word(inner, "parent", child, parent),
         Word(inner, side, s.near.node, child),
         Word(child, "parent", node, inner),
         Word(inner, Opposite(side), s.far.node, node),
         Word(node, "parent", parent, inner),
         Word(child, Opposite(side), inner, s.near.node),
         Word(node, side, child, s.far.node),
         Word(node, "height", s.node.height, nodeHeight),
         Word(child, "height", s.child.height, childHeight),
         Word(inner, "height", s.inner.height, newHeight(nodeHeight, childHeight))>>
    \o Bump(s.inner) \o Bump(s.parent) \o Bump(s.node) \o Bump(s.child)

(* The caller takes any result but 0 for success, and FAILURE is -1: it    *)
(* repairs the same nodes and moves to the parent also when the double     *)
(* rotation has failed. Only rotateRightLeft() looks at the marks of the   *)
(* subtrees that move.                                                     *)
rotateTwice(t, side) ==
  LET s == see[t]
      req == RotateTwiceRequest(s, side)
      attempted ==
        /\ SideOf(s, s.node) # None
        /\ side = "right" => ~ IS_MARKED(s.near.vNumMark) /\ ~ IS_MARKED(s.far.vNumMark)
  IN
  /\ At(t, Double[side])
  /\ \/ attempted /\ Succeeds(req)
     \/ (attempted => CanFail(req)) /\ UNCHANGED heap
  /\ Repair(t, <<s.node.node, s.child.node, s.inner.node, s.parent.node>> \o Tail(todo[t]))
  /\ UNCHANGED <<limbo, script, op, ret, may>>

-----------------------------------------------------------------------------
Step(t) ==
  \/ call(t) \/ read(t) \/ search(t) \/ validatePath(t) \/ notFound(t)
  \/ createNew(t) \/ internalInsert(t) \/ countChildren(t) \/ oneChild(t) \/ unlink(t)
  \/ getSuccessor(t) \/ gotSuccessor(t) \/ promote(t)
  \/ balance(t) \/ fixHeight(t) \/ unnecessary(t) \/ ascend(t) \/ done(t)
  \/ \E side \in {"left", "right"} :
       chooseRotation(t, side) \/ rotate(t, side) \/ rotateTwice(t, side)

Next == \E t \in Threads : Step(t)

Spec == Init /\ [][Next]_vars

(* The scheduler stops no thread for ever in the middle of an operation.   *)
(* A thread in an operation always has a step to take, so this is weak     *)
(* fairness of Step(t) without the ENABLED that TLC is slow to evaluate.   *)
FairSpec ==
  Spec /\ \A t \in Threads : []<>(pc[t] = "idle") \/ []<><<Step(t)>>_vars

-----------------------------------------------------------------------------
(* Links and marks agree: what hangs in the tree is not marked and knows   *)
(* its parent (validateSubtree(): no "MARKED NODE!", no "IMPROPER          *)
(* PARENT!"), and a value has stayed with its key when keys moved.         *)
LinksAgree ==
  \A n \in Live \cup {root} :
    /\ heap[n].value = heap[n].key
    /\ \A f \in {"left", "right"} :
         heap[n][f] # NULL => heap[n][f] \in Live /\ heap[heap[n][f]].parent = n

(* Nobody leaves a node behind that is out of balance or has a wrong       *)
(* height: when no operation is in progress the tree is an AVL tree        *)
(* (validateSubtree(): no "thinks it has height", no "Imbalanced Node!").  *)
heightOf(n) == IF n = NULL THEN 0 ELSE heap[n].height
BalancedWhenQuiet ==
  (\A t \in Threads : pc[t] = "idle") =>
    \A n \in Live :
      LET l == heightOf(heap[n].left)
          r == heightOf(heap[n].right)
      IN  heap[n].height = newHeight(l, r) /\ l - r \in -1..1

(* The request a thread is about to execute.                               *)
Asked(t) ==
  LET s == see[t]
      k == op[t].key
      rotating(name) == \E side \in {"left", "right"} : At(t, name[side])
      sideOf(name) == CHOOSE side \in {"left", "right"} : pc[t] = name[side]
  IN
  CASE At(t, "insert") /\ ParentSide(s, k) # None -> InsertRequest(s, k)
    [] At(t, "unlink") /\ ParentSide(s, k) # None -> UnlinkRequest(s, k)
    [] At(t, "promote") /\ SideOf(s, s.succ) # None -> PromoteRequest(s, k)
    [] At(t, "fixHeight") -> HeightRequest(s)
    [] rotating(Single) /\ SideOf(s, s.node) # None -> RotateRequest(s, sideOf(Single))
    [] rotating(Double) /\ SideOf(s, s.node) # None -> RotateTwiceRequest(s, sideOf(Double))
    [] OTHER -> <<>>

(* Every request follows the rule on which KCAS rests; and if it can       *)
(* succeed it names no word twice, even when nodes were moved while their  *)
(* words were read. (internalErase() of a key with two children is the     *)
(* exception: a rotation can make the node its own successor, so that its  *)
(* version is there twice, or, on a larger tree, give it a successor with  *)
(* a smaller key, which breaks the rule: see Successor in TreeScenarios.)  *)
RequestsGuarded ==
  \A t \in Threads :
    /\ FollowsDiscipline(Asked(t))
    /\ pc[t] # "promote" /\ CanSucceed(Asked(t)) => Repeated(Asked(t)) = {}

(* What the guards are for: no node that an operation has in its locals,   *)
(* reached over links that may be out of date, can be allocated again.     *)
HeldNodesStay == \A t \in Threads : Held(t) \cap Free = {}

(* Every operation returns, when the operations of the others are finite.  *)
Progress == \A t \in Threads : (pc[t] # "idle") ~> (pc[t] = "idle")
=============================================================================
