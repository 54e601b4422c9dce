----------------------------- MODULE TreeWords ------------------------------
(***************************************************************************)
(* What the two search trees over k-CAS have in common                     *)
(* (src/cpp/ds/sigouin_int_bst_kcas and ..._unbalanced): nodes made of     *)
(* caswords, threads that read one word at a time and remember what they   *)
(* saw, and requests that change several words at once. The k-CAS is taken *)
(* to be what AtomicKCAS says; whether the requests are of the kind for    *)
(* which KCAS implements it is asked in RequestsGuarded. Nodes are         *)
(* allocated, retired and used again by a record manager.                  *)
(***************************************************************************)
EXTENDS Integers, Sequences, FiniteSets, FiniteSetsExt, Functions, TLC

CONSTANTS
  Threads,
  MaxKey,      \* keys are 1..MaxKey; the root has key MaxKey + 1
  Scenarios,   \* what there is at first and who does what: see Init
  Weak         \* execute() may fail for no reason a caller can see (KCASHTM)

VARIABLES
  heap,    \* heap[n]: the words of node n
  limbo,   \* limbo[n], n not in the tree: whose guards keep n from reuse
  script,  \* script[t]: the operations t has still to call
  op,      \* op[t]: the operation t executes, with its key
  pc,      \* where t is: the reads it makes first are in reads[t]
  reads,   \* reads[t]: words t reads before it goes on at pc[t]
  see,     \* see[t][x]: what t has read of the node that it calls x
  path,    \* path[t]: nodes and versions observed on the way down
  idx,     \* idx[t]: where validatePath is on the path
  todo,    \* todo[t]: nodes for fixHeightAndRebalance, innermost call first
  ret,     \* ret[t]: <<the answer>>, once the operation has taken effect
  may      \* may[t]: history, whether the key was there since the call

vars == <<heap, limbo, script, op, pc, reads, see, path, idx, todo, ret, may>>

NULL == 0
root == MaxKey + 1
Infinity == MaxKey + 1
Keys == 1..MaxKey

None == "none"
Links == {"left", "right", "parent"}
Opposite(side) == IF side = "left" THEN "right" ELSE "left"

IS_MARKED(v) == v % 2 = 1

(* The function f but for its value at x, which need not be in its domain. *)
With(f, x, v) == [y \in DOMAIN f \cup {x} |-> IF y = x THEN v ELSE f[y]]

(* Fault: the height of a new node is not initialised.                     *)
createNodeFlat(parent, key) ==
  [key |-> key, vNumMark |-> 0, left |-> NULL, right |-> NULL,
   parent |-> parent, height |-> 0, value |-> key]

createNode(parent, key) ==
  [key |-> key, vNumMark |-> 0, left |-> NULL, right |-> NULL,
   parent |-> parent, height |-> 1, value |-> key]

-----------------------------------------------------------------------------
(* Reading. A read stores field f of node y as what is known of x; if f is *)
(* a link, x becomes the node it leads to. Nothing is read from NULL:      *)
(* getHeight(NULL) is 0, which is what is known of NULL.                   *)

Seen(n) == [node |-> n, vNumMark |-> 0, key |-> 0, height |-> 0, value |-> 0]

Load(x, y, f) == [to |-> x, from |-> y, field |-> f]
Get(x, f) == Load(x, x, f)

AfterRead(s, r) ==
  LET w == heap[s[r.from].node][r.field] IN
  IF r.field \in Links
  THEN With(s, r.to, Seen(w))
  ELSE LET o == IF r.to \in DOMAIN s THEN s[r.to] ELSE Seen(s[r.from].node) IN
       With(s, r.to, [o EXCEPT ![r.field] = w])

Due(s, rs) ==
  LET isNull(x) == x \in DOMAIN s /\ s[x].node = NULL
      real == {i \in DOMAIN rs : ~ isNull(rs[i].from)}
  IN
  IF real = {} THEN <<>> ELSE SubSeq(rs, Min(real), Len(rs))

Goto(t, label, s, rs) ==
  /\ pc' = [pc EXCEPT ![t] = label]
  /\ see' = [see EXCEPT ![t] = s]
  /\ reads' = [reads EXCEPT ![t] = Due(s, rs)]

At(t, label) == pc[t] = label /\ reads[t] = <<>>

read(t) ==
  /\ reads[t] # <<>>
  /\ LET s == AfterRead(see[t], Head(reads[t])) IN
     Goto(t, pc[t], s, Tail(reads[t]))
  /\ UNCHANGED <<heap, limbo, script, op, path, idx, todo, ret, may>>

-----------------------------------------------------------------------------
(* Requests: words with their expected and new contents, in the order of   *)
(* the add() calls.                                                        *)

Word(n, f, old, new) == [node |-> n, field |-> f, old |-> old, new |-> new]

Version(o, d) == <<Word(o.node, "vNumMark", o.vNumMark, o.vNumMark + d)>>
Same(o) == Version(o, 0)
Bump(o) == Version(o, 2)
Mark(o) == Version(o, 3)
IfAny(o, words) == IF o.node = NULL THEN <<>> ELSE words

Holds(e) == heap[e.node][e.field] = e.old

(* A thread that reads while others move nodes about can add a word twice. *)
(* The lock-free k-CAS sorts the request by address, keeps entries of one  *)
(* address in order, and takes the later ones to be locked already: only   *)
(* the first is compared and written. A hardware transaction compares all. *)
Repeated(req) ==
  {i \in DOMAIN req : \E j \in 1..(i - 1) :
     req[j].node = req[i].node /\ req[j].field = req[i].field}
Compared(req) == {req[i] : i \in DOMAIN req \ Repeated(req)}
CanSucceed(req) == \A e \in Compared(req) : Holds(e)

Written(es, n) ==
  [f \in DOMAIN heap[n] |->
     IF \E e \in es : e.node = n /\ e.field = f
     THEN (CHOOSE e \in es : e.node = n /\ e.field = f).new
     ELSE heap[n][f]]

(* execute() returns true, or it may return false.                         *)
Succeeds(req) ==
  /\ CanSucceed(req)
  /\ heap' = [n \in DOMAIN heap |-> Written(Compared(req), n)]
CanFail(req) == Weak \/ \E i \in DOMAIN req : ~ Holds(req[i])

-----------------------------------------------------------------------------
(* The record manager (reclaimer_debra, allocator_new). A node that is not *)
(* part of the tree is in limbo: new and not linked yet, retired, or given *)
(* back. Once those who had a guard when it was retired have let it go,    *)
(* allocate() may return it again; until then it keeps its words.          *)

(* An address that was never used, or is forgotten (GivesUp).              *)
Unused == Min((1..(Max(DOMAIN heap) + 1)) \ DOMAIN heap)
Free == {n \in DOMAIN limbo : limbo[n] = {}} \cup {Unused}

Without(f, x) == Restrict(f, DOMAIN f \ {x})

(* t lets its guard go.                                                    *)
Released(l, t) == [n \in DOMAIN l |-> l[n] \ {t}]

(* The nodes that t has in its locals.                                     *)
Held(t) ==
  {see[t][x].node : x \in DOMAIN see[t]} \cup {path[t][i].node : i \in DOMAIN path[t]}
    \cup {todo[t][i] : i \in DOMAIN todo[t]}

(* The key of the parent is read twice, for two comparisons.               *)
ReadParentKey == <<Get("parent", "key"), Load("again", "parent", "key")>>

(* t allocates and initialises a node, which nobody else should see yet.   *)
Creates(t, parent) ==
  \E n \in Free :
    /\ heap' = With(heap, n, createNode(parent, op[t].key))
    /\ limbo' = With(limbo, n, {t})
    /\ Goto(t, "insert", With(see[t], "new", Seen(n)), ReadParentKey)

(* t gives up its new node n, where limbo is l otherwise. An address that  *)
(* nobody can come across is no different from one that was never used,    *)
(* and is forgotten.                                                       *)
GivesUp(t, n, until, l) ==
  LET known == \/ \E u \in Threads \ {t} : n \in Held(u)
               \/ \E m \in DOMAIN heap \ {n} : \E f \in Links : heap[m][f] = n
  IN
  IF known THEN heap' = heap /\ limbo' = With(l, n, until)
  ELSE heap' = Without(heap, n) /\ limbo' = Without(l, n)

-----------------------------------------------------------------------------
(* The set the tree stands for.                                            *)

Live == {n \in DOMAIN heap \ (DOMAIN limbo \cup {root}) : ~ IS_MARKED(heap[n].vNumMark)}
Contents == {heap[n].key : n \in Live}

(* t has changed the set: what every other operation at work could see.    *)
Pending(t) == pc[t] # "idle" /\ ret[t] = <<>>
Observe(t) ==
  may' = [u \in Threads |->
            IF u # t /\ Pending(u) THEN may[u] \cup {op[u].key \in Contents'}
            ELSE {}]

-----------------------------------------------------------------------------
(* Parts of the operations that the two trees share word for word.         *)

(* Which way the key goes from the parent.                                 *)
ParentSide(s, k) ==
  IF k > s.parent.key THEN "right" ELSE IF k < s.again.key THEN "left" ELSE None

(* On which side of its parent a node was seen, right looked at first.     *)
ReadParentLinks ==
  <<Load("parentRight", "parent", "right"), Load("parentLeft", "parent", "left")>>
SideOf(s, x) ==
  IF s.parentRight.node = x.node THEN "right"
  ELSE IF s.parentLeft.node = x.node THEN "left" ELSE None

(* Fault: a path is valid unless a node on it was marked when it was read. *)
StillUnmarked(o) == ~ IS_MARKED(o.vNumMark)

(* One turn of the loop of validatePath(): a version is read and compared. *)
StillValid(o) == heap[o.node].vNumMark = o.vNumMark /\ ~ IS_MARKED(o.vNumMark)

Return(t, answer) ==
  /\ Goto(t, "idle", <<>>, <<>>)
  /\ ret' = [ret EXCEPT ![t] = answer]
  /\ may' = [may EXCEPT ![t] = {}]
  /\ path' = [path EXCEPT ![t] = <<>>]
  /\ limbo' = Released(limbo, t)
  /\ UNCHANGED <<idx, todo>>

(* A thread calls its next operation, which begins with a search.          *)
Called(t) ==
  /\ At(t, "idle")
  /\ script[t] # <<>>
  /\ op' = [op EXCEPT ![t] = Head(script[t])]
  /\ script' = [script EXCEPT ![t] = Tail(@)]
  /\ ret' = [ret EXCEPT ![t] = <<>>]
  /\ may' = [may EXCEPT ![t] = {Head(script[t]).key \in Contents}]
  /\ UNCHANGED <<heap, limbo, path, idx, todo>>

-----------------------------------------------------------------------------
(* A scenario gives the tree to start with, keys with their children, and  *)
(* the calls of each thread. Nodes of that tree are named by their keys;   *)
(* versions count from 0.                                                  *)

Height(kids) ==
  LET h[k \in DOMAIN kids \cup {NULL}] ==
        IF k = NULL THEN 0 ELSE 1 + Max({h[kids[k][1]], h[kids[k][2]]})
  IN  h
Top(kids) ==
  IF DOMAIN kids = {} THEN NULL
  ELSE CHOOSE k \in DOMAIN kids : \A j \in DOMAIN kids : k \notin {kids[j][1], kids[j][2]}
Planted(kids) ==
  [k \in DOMAIN kids |->
     [key |-> k, vNumMark |-> 0, left |-> kids[k][1], right |-> kids[k][2],
      parent |-> IF k = Top(kids) THEN root
                 ELSE CHOOSE j \in DOMAIN kids : k \in {kids[j][1], kids[j][2]},
      height |-> Height(kids)[k], value |-> k]]

Init ==
  /\ \E s \in Scenarios :
       /\ heap = With(Planted(s.kids), root,
                      [createNode(NULL, Infinity) EXCEPT !.left = Top(s.kids)])
       /\ script = s.calls
  /\ limbo = <<>>
  /\ op = [t \in Threads |-> [name |-> None, key |-> NULL]]
  /\ pc = [t \in Threads |-> "idle"]
  /\ reads = [t \in Threads |-> <<>>]
  /\ see = [t \in Threads |-> <<>>]
  /\ path = [t \in Threads |-> <<>>]
  /\ idx = [t \in Threads |-> 0]
  /\ todo = [t \in Threads |-> <<>>]
  /\ ret = [t \in Threads |-> <<FALSE>>]
  /\ may = [t \in Threads |-> {}]

-----------------------------------------------------------------------------
(* What both trees must provide.                                           *)

(* Links lead to nodes, a new node has height 1 and nothing is lower, and  *)
(* an operation has at most one answer (the types of Node and of the       *)
(* locals of the operations).                                              *)
TypeOK ==
  /\ \A n \in DOMAIN heap :
       heap[n] \in [key : Keys \cup {Infinity}, vNumMark : Nat, height : Nat \ {0},
                   left : DOMAIN heap \cup {NULL}, right : DOMAIN heap \cup {NULL},
                   parent : DOMAIN heap \cup {NULL}, value : Keys \cup {Infinity}]
  /\ DOMAIN limbo \subseteq DOMAIN heap \ {root}
  /\ \A n \in DOMAIN limbo : limbo[n] \subseteq Threads \cup {None}
  /\ \A t \in Threads :
       /\ ret[t] \in {<<>>, <<TRUE>>, <<FALSE>>}
       /\ pc[t] = "idle" => ret[t] # <<>> /\ reads[t] = <<>>
       /\ \A x \in DOMAIN see[t] : see[t][x].node \in DOMAIN heap \cup {NULL}
       /\ \A i \in DOMAIN path[t] : path[t][i].node \in DOMAIN heap

(* The tree is a set with atomic operations (ConcurrentSet): an update     *)
(* takes effect when its k-CAS succeeds, an operation that finds nothing   *)
(* to do answers what was true while it ran, although search() reads word  *)
(* by word and does not validate a path on which it finds the key.         *)
Abstract(t) ==
  IF pc[t] = "idle" THEN [at |-> "returned", answer |-> ret[t][1]]
  ELSE IF ret[t] = <<>> THEN [at |-> "running", op |-> op[t], may |-> may[t]]
  ELSE [at |-> "done", answer |-> ret[t][1]]
Set == INSTANCE ConcurrentSet
         WITH set <- Contents, calls <- [t \in Threads |-> Abstract(t)]
Linearizable == Set!Spec

(* A search that nobody disturbs finds the node of every key: nodes that   *)
(* are not marked are in the tree and in order (validateSubtree(): no      *)
(* "IMPROPER LOCAL TREE!", no "DUPLICATE KEY!").                           *)
SearchPath(k) ==
  LET most == Cardinality(DOMAIN heap)
      next(n) == IF n = NULL \/ heap[n].key = k THEN n
                 ELSE IF k < heap[n].key THEN heap[n].left ELSE heap[n].right
      at[d \in 0..most] == IF d = 0 THEN heap[root].left ELSE next(at[d - 1])
  IN  at[most]
InOrder == \A n \in Live : SearchPath(heap[n].key) = n

(* What validatePath() and every compared version rely on: no word of a    *)
(* node changes without its version going up, and no word of a marked node *)
(* changes at all, whatever was read while the node was being unlinked,    *)
(* until the record manager lets it be allocated again.                    *)
VersionsTell ==
  [][\A n \in (DOMAIN heap \cap DOMAIN heap') \ Free :
       heap'[n] # heap[n] =>
         ~ IS_MARKED(heap[n].vNumMark) /\ heap'[n].vNumMark > heap[n].vNumMark]_heap

(* The rule under which KCAS implements an atomic k-CAS (FollowsDiscipline *)
(* there). The first two words of a Node, key and vNumMark, have no word   *)
(* before them that could vouch for them: they only grow, and what is      *)
(* expected of them was read from them. Any other word is compared with    *)
(* the version of its node, and changes only if the version grows.         *)
FollowsDiscipline(req) ==
  \A i \in DOMAIN req :
    LET e == req[i] IN
    IF e.field \in {"key", "vNumMark"}
    THEN e.old <= heap[e.node][e.field] /\ e.old <= e.new
    ELSE \E j \in DOMAIN req :
           /\ req[j].node = e.node /\ req[j].field = "vNumMark"
           /\ e.new # e.old => req[j].new > req[j].old
=============================================================================
