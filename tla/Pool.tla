--------------------------------- MODULE Pool ---------------------------------
(***************************************************************************)
(* One object pool of pabuf.c.  Free objects hang in shells on a linked    *)
(* list; the shells of objects that are in use wait on a second list, to   *)
(* be used again.  Both lists have a count and a limit of their own.       *)
(*                                                                         *)
(* Shells and objects are memory: addresses that calloc hands out and free *)
(* takes back.  pabuf_get and pabuf_back hold the pool's lock, but allocate*)
(* and free objects outside of it.  Built with PABUF_NOLOCK there is no    *)
(* lock.  The program is built so, and has two kinds of pools: each worker *)
(* its own, and those of the server, which all workers and the accept      *)
(* thread use.  Spec is every pool that can be made; SerialSpec those that *)
(* have a lock or one user.                                                *)
(*                                                                         *)
(* Between lock and unlock pabuf_get and pabuf_back are two steps.  With   *)
(* no lock threads come between any two accesses: of the ways in which a   *)
(* pool that is shared then goes wrong these steps are some.               *)
(***************************************************************************)
EXTENDS Integers, FiniteSets

CONSTANTS Threads,    \* the threads that use the pool
          Objects,    \* addresses of objects; bounds how many exist at a time
          Shells,     \* addresses of shells
          Null,       \* the NULL pointer
          CountMod,   \* size of a uint32_t, as the counts of the lists are: 2^32
          Limits      \* pairs of limits that pools are made with: [remain, eshell]

ASSUME FiniteAssumption == IsFiniteSet(Threads) /\ IsFiniteSet(Objects) /\ IsFiniteSet(Shells)
ASSUME NullAssumption == Null \notin Objects /\ Null \notin Shells
ASSUME CountModAssumption == CountMod \in Nat \ {0}
ASSUME LimitAssumption == Limits \subseteq [remain : 0 .. (CountMod - 1), eshell : 0 .. (CountMod - 1)]

VARIABLES
  users,         \* the threads that use this pool
  locked,        \* it has a lock: built without PABUF_NOLOCK
  max_remain_count, max_eshell_count,
  count,         \* count; memory is always obj_size times that.  It and
  shell_memory,  \*   shell_memory, in shells, are read by nothing: their widths are left out
  remain_count,  \* length of the list of free objects, and
  first,         \*   its first shell
  eshell_count,  \* length of the list of empty shells, and
  first_eshell,  \*   its first shell
  next,          \* next[s], obj[s]: the fields of the shell at address s;
  obj,           \*   Null in memory that is not allocated
  inside,        \* the threads between lock and unlock
  pc,            \* pc[t]: what thread t does next
  shell,         \* shell[t]: its local variable of that name
  object,        \* object[t]: its local variable obj, what it gets or gives back
  owned,         \* owned[t]: the objects it has got
  objectHeap,    \* objects that are allocated
  shellHeap      \* shells that are allocated

listVars == <<remain_count, first, eshell_count, first_eshell, next, obj>>
poolVars == <<users, locked, max_remain_count, max_eshell_count>>
vars == <<poolVars, count, shell_memory, listVars, inside, pc, shell, object, owned,
          objectHeap, shellHeap>>

TypeOK ==
  /\ users \subseteq Threads /\ locked \in BOOLEAN
  /\ max_remain_count \in Nat /\ max_eshell_count \in Nat
  /\ max_remain_count < CountMod /\ max_eshell_count < CountMod
  /\ count \in Nat /\ shell_memory \in Nat /\ remain_count \in Nat /\ eshell_count \in Nat
  /\ first \in Shells \cup {Null} /\ first_eshell \in Shells \cup {Null}
  /\ next \in [Shells -> Shells \cup {Null}] /\ obj \in [Shells -> Objects \cup {Null}]
  /\ inside \subseteq Threads
  /\ pc \in [Threads -> {"idle", "calloc", "pop", "push", "free"}]
  /\ shell \in [Threads -> Shells \cup {Null}]
  /\ object \in [Threads -> Objects \cup {Null}]
  /\ owned \in [Threads -> SUBSET Objects]
  /\ objectHeap \subseteq Objects /\ shellHeap \subseteq Shells

\* _pabuf_init, which its three variants call with other or with default limits; with or
\* without a lock, for any threads.
Init ==
  /\ locked \in BOOLEAN
  /\ users \in (SUBSET Threads) \ {{}}
  /\ \E l \in Limits : max_remain_count = l.remain /\ max_eshell_count = l.eshell
  /\ count = 0 /\ shell_memory = 0
  /\ remain_count = 0 /\ first = Null
  /\ eshell_count = 0 /\ first_eshell = Null
  /\ next = [s \in Shells |-> Null] /\ obj = [s \in Shells |-> Null]
  /\ inside = {}
  /\ pc = [t \in Threads |-> "idle"]
  /\ shell = [t \in Threads |-> Null]
  /\ object = [t \in Threads |-> Null]
  /\ owned = [t \in Threads |-> {}]
  /\ objectHeap = {} /\ shellHeap = {}

\* One more and one less, as uint32_t.
More(n) == IF n = CountMod - 1 THEN 0 ELSE n + 1
Less(n) == IF n = 0 THEN CountMod - 1 ELSE n - 1

\* Mutant of MayEnter: the lock is left out although threads share the pool.
MayEnterAlways(t) == TRUE

\* pthread_mutex_lock returns.
MayEnter(t) == ~ locked \/ inside = {}

-----------------------------------------------------------------------------
(* pabuf_get *)

\* There is no free object.  The pool counts the new one, unlocks, and then allocates.
\* Bound: there are Objects enough.
GetNew(t) ==
  /\ pc[t] = "idle"
  /\ count < Cardinality(Objects)
  /\ MayEnter(t)
  /\ remain_count <= 0
  /\ count' = count + 1
  /\ pc' = [pc EXCEPT ![t] = "calloc"]
  /\ UNCHANGED <<poolVars, shell_memory, listVars, inside, shell, object, owned, objectHeap, shellHeap>>

Calloc(t, o) ==
  /\ pc[t] = "calloc"
  /\ o \notin objectHeap
  /\ objectHeap' = objectHeap \cup {o}
  /\ owned' = [owned EXCEPT ![t] = @ \cup {o}]
  /\ pc' = [pc EXCEPT ![t] = "idle"]
  /\ UNCHANGED <<poolVars, count, shell_memory, listVars, inside, shell, object, shellHeap>>

\* There is a free object: shell = pabuf->first, and obj = shell->obj.  The list is changed in
\* the other step, so that without a lock two threads may be at one shell.  There is no step
\* through a pointer that is Null.
GetFirst(t) ==
  /\ pc[t] = "idle"
  /\ MayEnter(t)
  /\ remain_count > 0
  /\ first # Null
  /\ inside' = inside \cup {t}
  /\ shell' = [shell EXCEPT ![t] = first]
  /\ object' = [object EXCEPT ![t] = obj[first]]
  /\ pc' = [pc EXCEPT ![t] = "pop"]
  /\ UNCHANGED <<poolVars, count, shell_memory, listVars, owned, objectHeap, shellHeap>>

\* Mutant of EshellsFull: one empty shell fewer is kept.
EshellsFullEarly == eshell_count + 1 >= max_eshell_count

EshellsFull == eshell_count >= max_eshell_count

\* Mutant of Linked: the rest of the list is forgotten.
LinkedNot(s, head) == next

\* s->next = head
Linked(s, head) == [next EXCEPT ![s] = head]

\* pabuf_back_eshell: the shell is freed if there are empty ones enough, else it becomes
\* the first of them.
BackEshell(s) ==
  IF EshellsFull
    THEN /\ shell_memory' = shell_memory - 1
         /\ shellHeap' = shellHeap \ {s}
         /\ next' = [next EXCEPT ![s] = Null]
         /\ obj' = [obj EXCEPT ![s] = Null]
         /\ UNCHANGED <<eshell_count, first_eshell>>
    ELSE /\ next' = Linked(s, first_eshell)
         /\ obj' = [obj EXCEPT ![s] = Null]
         /\ first_eshell' = s
         /\ eshell_count' = More(eshell_count)
         /\ UNCHANGED <<shell_memory, shellHeap>>

\* The rest of pabuf_get.
Pop(t) ==
  LET s == shell[t] IN
  /\ pc[t] = "pop"
  /\ first' = next[s]
  /\ owned' = [owned EXCEPT ![t] = @ \cup ({object[t]} \ {Null})]
  /\ BackEshell(s)
  /\ remain_count' = Less(remain_count)
  /\ inside' = inside \ {t}
  /\ shell' = [shell EXCEPT ![t] = Null]
  /\ object' = [object EXCEPT ![t] = Null]
  /\ pc' = [pc EXCEPT ![t] = "idle"]
  /\ UNCHANGED <<poolVars, count, objectHeap>>

-----------------------------------------------------------------------------
(* pabuf_back *)

\* Mutant of Full: off by one.
FullLate == max_remain_count < remain_count

\* The pool keeps free objects enough.
Full == max_remain_count <= remain_count

\* There is no room for the object: the pool forgets this one, unlocks, and then frees it.
BackSurplus(t, o) ==
  /\ pc[t] = "idle"
  /\ o \in owned[t]
  /\ MayEnter(t)
  /\ Full
  /\ count' = count - 1
  /\ object' = [object EXCEPT ![t] = o]
  /\ pc' = [pc EXCEPT ![t] = "free"]
  /\ UNCHANGED <<poolVars, shell_memory, listVars, inside, shell, owned, objectHeap, shellHeap>>

Free(t) ==
  /\ pc[t] = "free"
  /\ objectHeap' = objectHeap \ {object[t]}
  /\ owned' = [owned EXCEPT ![t] = @ \ {object[t]}]
  /\ object' = [object EXCEPT ![t] = Null]
  /\ pc' = [pc EXCEPT ![t] = "idle"]
  /\ UNCHANGED <<poolVars, count, shell_memory, listVars, inside, shell, shellHeap>>

\* Mutant of NoEshell: no empty shell is used again.
NoEshellEver == TRUE

NoEshell == eshell_count = 0

\* pabuf_get_eshell: s is a new shell if there are no empty ones, else the first of them.
TakeEshell(s, o) ==
  IF NoEshell
    THEN /\ s \notin shellHeap
         /\ shellHeap' = shellHeap \cup {s}
         /\ shell_memory' = shell_memory + 1
         /\ obj' = [obj EXCEPT ![s] = o]
         /\ UNCHANGED <<next, first_eshell, eshell_count>>
    ELSE /\ s = first_eshell
         /\ first_eshell' = next[s]
         /\ next' = [next EXCEPT ![s] = Null]
         /\ obj' = [obj EXCEPT ![s] = o]
         /\ eshell_count' = Less(eshell_count)
         /\ UNCHANGED <<shell_memory, shellHeap>>

\* The pool has room for the object and finds a shell for it.
BackShell(t, o, s) ==
  /\ pc[t] = "idle"
  /\ o \in owned[t]
  /\ MayEnter(t)
  /\ ~ Full
  /\ TakeEshell(s, o)
  /\ inside' = inside \cup {t}
  /\ shell' = [shell EXCEPT ![t] = s]
  /\ object' = [object EXCEPT ![t] = o]
  /\ pc' = [pc EXCEPT ![t] = "push"]
  /\ UNCHANGED <<poolVars, count, remain_count, first, owned, objectHeap>>

\* The rest of pabuf_back.
Push(t) ==
  /\ pc[t] = "push"
  /\ next' = Linked(shell[t], first)
  /\ first' = shell[t]
  /\ remain_count' = More(remain_count)
  /\ owned' = [owned EXCEPT ![t] = @ \ {object[t]}]
  /\ inside' = inside \ {t}
  /\ shell' = [shell EXCEPT ![t] = Null]
  /\ object' = [object EXCEPT ![t] = Null]
  /\ pc' = [pc EXCEPT ![t] = "idle"]
  /\ UNCHANGED <<poolVars, count, shell_memory, eshell_count, first_eshell, obj, objectHeap, shellHeap>>

-----------------------------------------------------------------------------
Next ==
  \E t \in users :
    \/ GetNew(t)
    \/ \E o \in Objects : Calloc(t, o)
    \/ GetFirst(t)
    \/ Pop(t)
    \/ \E o \in Objects : BackSurplus(t, o)
    \/ Free(t)
    \/ \E o \in Objects, s \in Shells : BackShell(t, o, s)
    \/ Push(t)

\* Every pool.
Spec == Init /\ [][Next]_vars

\* No two threads are in the pool at a time, because it has a lock or one user.
Serial == locked \/ \E t \in Threads : users = {t}

InitSerial == Init /\ Serial

SerialSpec == InitSerial /\ [][Next]_vars

-----------------------------------------------------------------------------
(* Properties. *)

\* The shells l[1], ..., l[n] are a list of n shells with the given head.
IsList(head, l, n) ==
  /\ head = IF n = 0 THEN Null ELSE l[1]
  /\ \A i \in 1 .. n : next[l[i]] = IF i = n THEN Null ELSE l[i + 1]
  /\ \A i, j \in 1 .. n : l[i] = l[j] => i = j

\* Shells that a thread has taken for an object and not put on the list yet.
InHand == {shell[t] : t \in {u \in Threads : pc[u] = "push"}}

\* Both lists are as long as their counts say and end, and every shell in memory is on
\* one of them or in the hand of one thread: whatever order the threads come in and
\* whichever limit is reached, no shell is lost, freed while it hangs on a list, or on
\* two lists (pabuf.c:19-53).
ListsSound ==
  \E f \in [1 .. remain_count -> Shells], e \in [1 .. eshell_count -> Shells] :
    LET free  == {f[i] : i \in 1 .. remain_count}
        empty == {e[i] : i \in 1 .. eshell_count}
    IN  /\ IsList(first, f, remain_count)
        /\ IsList(first_eshell, e, eshell_count)
        /\ free \cap empty = {}
        /\ InHand \cap (free \cup empty) = {}
        /\ shellHeap = free \cup empty \cup InHand
        /\ \A s \in Shells : obj[s] # Null <=> s \in free \cup InHand

Pooled == {obj[s] : s \in Shells} \ {Null}
AtWork(stage) == {t \in Threads : pc[t] = stage}

\* The counters tell what is there, though they change before an object is allocated and
\* before it is freed (pabuf.c:63, pabuf.c:91); and an object that exists is with a
\* thread or in the pool: none is lost.
Accounting ==
  /\ count + Cardinality(AtWork("free")) = Cardinality(objectHeap) + Cardinality(AtWork("calloc"))
  /\ shell_memory = Cardinality(shellHeap)
  /\ objectHeap = Pooled \cup UNION {owned[t] : t \in Threads}
  /\ remain_count <= max_remain_count /\ eshell_count <= max_eshell_count

\* There are never more shells, empty ones included, than objects that the pool may keep
\* (pabuf.c:22, pabuf.c:88).
ShellsBounded == shell_memory <= max_remain_count

\* With equal limits, which the program gives every pool (pabuf.h:35), no shell is ever
\* freed: the branch of pabuf.c:41 is never taken.
ShellsKept ==
  [][max_eshell_count >= max_remain_count => shellHeap \subseteq shellHeap']_vars

\* What thread t got and is not giving back.
Holds(t) == IF pc[t] \in {"push", "free"} THEN owned[t] \ {object[t]} ELSE owned[t]

\* No two threads use one object at a time, in any pool that the program makes: what the lock
\* that each pool is declared with is for (pabuf.h:16, pabuf.c:58, pabuf.c:86).
OneOwner == \A t, u \in Threads : t # u => Holds(t) \cap Holds(u) = {}

\* Whatever the threads of a pool with a lock do, or the only one of a pool without, the pool
\* behaves as a store in which each object has one owner and that keeps at most
\* max_remain_count spare objects (pabuf.c:55-108).
Store == INSTANCE ObjectStore
           WITH limit <- max_remain_count,
                spare <- Pooled \ {object[t] : t \in AtWork("push")}
StoreSafe == Store!Spec
=============================================================================
