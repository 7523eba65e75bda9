------------------------------ MODULE PoolProofs ------------------------------
(***************************************************************************)
(* Proofs about module Pool, for any number of threads, objects and shells *)
(* and any limits, of a pool with a lock or with one user: what is on the  *)
(* lists, whose an object is, and that the pool implements ObjectStore.    *)
(* Of other pools OneOwner, which ObjectStore implies, does not hold.      *)
(***************************************************************************)
EXTENDS Pool, FiniteSetTheorems, TLAPS

-----------------------------------------------------------------------------
(* The inductive invariant. *)

\* One thread at a time is between lock and unlock, because it has the lock or because
\* nobody else uses the pool; only the threads that use it are at work.
Serialized ==
  /\ inside = AtWork("pop") \cup AtWork("push")
  /\ \A t, u \in inside : t = u
  /\ ~ locked => \E t \in Threads : users = {t}
  /\ \A t \in Threads : pc[t] # "idle" => t \in users

\* What a thread holds while it is at work: the pointer that pabuf_get read is still the
\* first of the list, with the object that it read, and what pabuf_back gives back is still the thread's.
HandOf(t) ==
  /\ pc[t] = "pop" => remain_count > 0 /\ shell[t] = first /\ object[t] = obj[first]
  /\ pc[t] = "push" => shell[t] \in Shells /\ obj[shell[t]] = object[t]
  /\ pc[t] \in {"push", "free"} => object[t] \in owned[t]
Hands == \A t \in Threads : HandOf(t)

\* No object is with two threads or in two shells, and none is in a shell and with a thread,
\* except while pabuf_back moves it.
Owners ==
  /\ \A t, u \in Threads, o \in Objects : o \in owned[t] /\ o \in owned[u] => t = u
  /\ \A s, r \in Shells : obj[s] = obj[r] /\ obj[s] # Null => s = r
  /\ \A s \in Shells, t \in Threads : obj[s] \in owned[t] => pc[t] = "push" /\ shell[t] = s

\* Every shell is counted in one place.
ShellsCounted ==
  shell_memory = remain_count + eshell_count + (IF AtWork("push") = {} THEN 0 ELSE 1)

\* The free objects, as ObjectStore sees them, are as many as the list's count says.
Spare == Pooled \ {object[t] : t \in AtWork("push")}
SpareCounted == Cardinality(Spare) = remain_count

IInv ==
  /\ TypeOK
  /\ Serialized
  /\ Hands
  /\ Owners
  /\ ListsSound
  /\ Accounting
  /\ ShellsCounted
  /\ ShellsBounded
  /\ SpareCounted

-----------------------------------------------------------------------------
(* Linked lists: a list is a head and what the shells' next fields say. *)

ListOf(nx, head, l, n) ==
  /\ head = IF n = 0 THEN Null ELSE l[1]
  /\ \A i \in 1 .. n : nx[l[i]] = IF i = n THEN Null ELSE l[i + 1]
  /\ \A i, j \in 1 .. n : l[i] = l[j] => i = j

On(l, n) == {l[i] : i \in 1 .. n}

Rest(l, n) == [i \in 1 .. n - 1 |-> l[i + 1]]
Longer(s, l, n) == [i \in 1 .. n + 1 |-> IF i = 1 THEN s ELSE l[i - 1]]

\* A list whose shells' next fields stay as they are stays a list.
LEMMA ListKept ==
  ASSUME NEW n \in Nat, NEW l \in [1 .. n -> Shells], NEW nx, NEW ny, NEW head,
         ListOf(nx, head, l, n),
         \A s \in On(l, n) : ny[s] = nx[s]
  PROVE  ListOf(ny, head, l, n)
BY DEF ListOf, On

\* The first shell is taken off by going to its next field, whatever becomes of that.
LEMMA ListRest ==
  ASSUME NEW n \in Nat, n > 0, NEW l \in [1 .. n -> Shells], NEW nx, NEW ny, NEW head,
         ListOf(nx, head, l, n),
         \A s \in On(l, n) : s # head => ny[s] = nx[s]
  PROVE  /\ Rest(l, n) \in [1 .. n - 1 -> Shells]
         /\ head \in Shells /\ head \in On(l, n)
         /\ On(Rest(l, n), n - 1) = On(l, n) \ {head}
         /\ ListOf(ny, nx[head], Rest(l, n), n - 1)
<1> DEFINE r == Rest(l, n)
<1>1. head = l[1] /\ head \in Shells /\ head \in On(l, n)
  BY DEF ListOf, On
<1>2. /\ r \in [1 .. n - 1 -> Shells]
      /\ \A i \in 1 .. n - 1 : r[i] = l[i + 1] /\ i + 1 \in 1 .. n
  BY DEF Rest
<1>3. On(r, n - 1) = On(l, n) \ {head}
  <2>1. ASSUME NEW s \in On(r, n - 1) PROVE s \in On(l, n) \ {head}
    <3>1. PICK i \in 1 .. n - 1 : s = l[i + 1]
      BY <1>2, <2>1 DEF On
    <3>2. i + 1 \in 1 .. n /\ i + 1 # 1 /\ 1 \in 1 .. n
      OBVIOUS
    <3>3. QED
      BY <1>1, <3>1, <3>2 DEF On, ListOf
  <2>2. ASSUME NEW s \in On(l, n), s # head PROVE s \in On(r, n - 1)
    <3>1. PICK i \in 1 .. n : s = l[i]
      BY <2>2 DEF On
    <3>2. i - 1 \in 1 .. n - 1 /\ (i - 1) + 1 = i
      BY <1>1, <2>2, <3>1
    <3>3. s = r[i - 1]
      BY <1>2, <3>1, <3>2
    <3>4. QED
      BY <3>2, <3>3 DEF On
  <2>3. QED
    BY <2>1, <2>2
<1>4. ASSUME NEW i \in 1 .. n - 1
      PROVE  ny[r[i]] = IF i = n - 1 THEN Null ELSE r[i + 1]
  <2>1. i + 1 \in 1 .. n /\ r[i] = l[i + 1] /\ (i = n - 1 <=> i + 1 = n)
    BY <1>2
  <2>2. r[i] \in On(l, n) \ {head}
    BY <1>3 DEF On
  <2>3. ny[r[i]] = nx[l[i + 1]]
    BY <2>1, <2>2
  <2>4. nx[l[i + 1]] = IF i + 1 = n THEN Null ELSE l[(i + 1) + 1]
    BY <2>1 DEF ListOf
  <2>5. i # n - 1 => i + 1 \in 1 .. n - 1 /\ r[i + 1] = l[(i + 1) + 1]
    BY <1>2
  <2>6. QED
    BY <2>1, <2>3, <2>4, <2>5
<1>5. nx[head] = IF n - 1 = 0 THEN Null ELSE r[1]
  <2>1. nx[head] = IF 1 = n THEN Null ELSE l[1 + 1]
    BY <1>1 DEF ListOf
  <2>2. n # 1 => 1 \in 1 .. n - 1 /\ r[1] = l[1 + 1]
    BY <1>2
  <2>3. QED
    BY <2>1, <2>2
<1>6. ASSUME NEW i \in 1 .. n - 1, NEW j \in 1 .. n - 1, r[i] = r[j] PROVE i = j
  <2>1. i + 1 = j + 1
    BY <1>2, <1>6 DEF ListOf
  <2>2. QED
    BY <2>1
<1>7. QED
  BY <1>1, <1>2, <1>3, <1>4, <1>5, <1>6 DEF ListOf

\* A shell that is on no list becomes the first when its next field is set to the head.
LEMMA ListLonger ==
  ASSUME NEW n \in Nat, NEW l \in [1 .. n -> Shells], NEW nx, NEW ny, NEW head,
         NEW s \in Shells, s \notin On(l, n),
         ListOf(nx, head, l, n),
         ny[s] = head,
         \A r \in On(l, n) : ny[r] = nx[r]
  PROVE  /\ Longer(s, l, n) \in [1 .. n + 1 -> Shells]
         /\ On(Longer(s, l, n), n + 1) = On(l, n) \cup {s}
         /\ ListOf(ny, s, Longer(s, l, n), n + 1)
<1> DEFINE k == Longer(s, l, n)
<1>1. /\ k[1] = s
      /\ \A i \in 1 .. n : i + 1 \in 1 .. n + 1 /\ k[i + 1] = l[i]
      /\ k \in [1 .. n + 1 -> Shells]
  BY DEF Longer
<1>2. \A i \in 1 .. n + 1 : i # 1 => i - 1 \in 1 .. n /\ k[i] = l[i - 1]
  BY DEF Longer
<1>3. On(k, n + 1) = On(l, n) \cup {s}
  <2>1. ASSUME NEW r \in On(k, n + 1) PROVE r \in On(l, n) \cup {s}
    BY <1>1, <1>2, <2>1 DEF On
  <2>2. ASSUME NEW r \in On(l, n) PROVE r \in On(k, n + 1)
    BY <1>1, <2>2 DEF On
  <2>3. s \in On(k, n + 1)
    BY <1>1 DEF On
  <2>4. QED
    BY <2>1, <2>2, <2>3
<1>4. ASSUME NEW i \in 1 .. n + 1
      PROVE  ny[k[i]] = IF i = n + 1 THEN Null ELSE k[i + 1]
  <2>1. CASE i = 1
    <3>1. n # 0 => k[1 + 1] = l[1]
      BY <1>1
    <3>2. QED
      BY <1>1, <2>1, <3>1 DEF ListOf
  <2>2. CASE i # 1
    <3> DEFINE j == i - 1
    <3>1. j \in 1 .. n /\ k[i] = l[j] /\ (j = n <=> i = n + 1) /\ j + 1 = i
      BY <1>2, <2>2
    <3>2. ny[k[i]] = nx[l[j]]
      BY <3>1 DEF On
    <3>3. nx[l[j]] = IF j = n THEN Null ELSE l[j + 1]
      BY <3>1 DEF ListOf
    <3>4. i # n + 1 => i \in 1 .. n /\ k[i + 1] = l[i]
      BY <1>1
    <3> QED
      BY <3>1, <3>2, <3>3, <3>4
  <2>3. QED
    BY <2>1, <2>2
<1>5. ASSUME NEW i \in 1 .. n + 1, NEW j \in 1 .. n + 1, k[i] = k[j] PROVE i = j
  <2>1. CASE i = 1 \/ j = 1
    BY <1>1, <1>2, <1>5, <2>1 DEF On
  <2>2. CASE i # 1 /\ j # 1
    <3>1. i - 1 \in 1 .. n /\ j - 1 \in 1 .. n /\ l[i - 1] = l[j - 1]
      BY <1>2, <1>5, <2>2
    <3>2. i - 1 = j - 1
      BY <3>1 DEF ListOf
    <3>3. QED
      BY <3>2
  <2>3. QED
    BY <2>1, <2>2
<1>6. QED
  BY <1>1, <1>3, <1>4, <1>5 DEF ListOf

-----------------------------------------------------------------------------
(* ListsSound, with the memory and the shells in hand as parameters: what each way to *)
(* handle a shell makes of it.                                                        *)

SoundBy(f, e, nx, ob, a, n, b, m, hand, heap) ==
  /\ ListOf(nx, a, f, n)
  /\ ListOf(nx, b, e, m)
  /\ On(f, n) \cap On(e, m) = {}
  /\ hand \cap (On(f, n) \cup On(e, m)) = {}
  /\ heap = On(f, n) \cup On(e, m) \cup hand
  /\ \A s \in Shells : ob[s] # Null <=> s \in On(f, n) \cup hand

Sound(nx, ob, a, n, b, m, hand, heap) ==
  \E f \in [1 .. n -> Shells], e \in [1 .. m -> Shells] :
    SoundBy(f, e, nx, ob, a, n, b, m, hand, heap)

Memory == [Shells -> Shells \cup {Null}]
Contents == [Shells -> Objects \cup {Null}]

LEMMA SoundIs ==
  ListsSound <=>
    Sound(next, obj, first, remain_count, first_eshell, eshell_count, InHand, shellHeap)
BY DEF ListsSound, Sound, SoundBy, IsList, ListOf, On

LEMMA SoundIsThen ==
  ListsSound' <=>
    Sound(next', obj', first', remain_count', first_eshell', eshell_count', InHand', shellHeap')
BY DEF ListsSound, Sound, SoundBy, IsList, ListOf, On

\* pabuf_get takes the first free shell, and frees it or makes it the first empty one.
LEMMA SoundPop ==
  ASSUME NEW nx \in Memory, NEW ob \in Contents, NEW a, NEW n \in Nat, n > 0,
         NEW b, NEW m \in Nat, NEW heap, Sound(nx, ob, a, n, b, m, {}, heap)
  PROVE  /\ a \in Shells /\ a \in heap /\ ob[a] # Null
         /\ Sound([nx EXCEPT ![a] = Null], [ob EXCEPT ![a] = Null],
                  nx[a], n - 1, b, m, {}, heap \ {a})
         /\ Sound([nx EXCEPT ![a] = b], [ob EXCEPT ![a] = Null],
                  nx[a], n - 1, a, m + 1, {}, heap)
<1> PICK f \in [1 .. n -> Shells], e \in [1 .. m -> Shells] :
         SoundBy(f, e, nx, ob, a, n, b, m, {}, heap)
  BY DEF Sound
<1> DEFINE freed == [nx EXCEPT ![a] = Null]
           kept  == [nx EXCEPT ![a] = b]
           bare  == [ob EXCEPT ![a] = Null]
<1>1. /\ ListOf(nx, a, f, n) /\ ListOf(nx, b, e, m)
      /\ On(f, n) \cap On(e, m) = {}
      /\ heap = On(f, n) \cup On(e, m)
      /\ \A s \in Shells : ob[s] # Null <=> s \in On(f, n)
  BY DEF SoundBy
<1>2. /\ \A s : s # a => freed[s] = nx[s] /\ kept[s] = nx[s]
      /\ a \in Shells => kept[a] = b
  BY DEF Memory
<1>3. /\ Rest(f, n) \in [1 .. n - 1 -> Shells]
      /\ a \in Shells /\ a \in On(f, n)
      /\ On(Rest(f, n), n - 1) = On(f, n) \ {a}
      /\ ListOf(freed, nx[a], Rest(f, n), n - 1)
  BY <1>1, <1>2, ListRest
<1>4. ListOf(kept, nx[a], Rest(f, n), n - 1)
  BY <1>1, <1>2, ListRest
<1>5. a \notin On(e, m)
  BY <1>1, <1>3
<1>6. ListOf(freed, b, e, m)
  BY <1>1, <1>2, <1>5, ListKept
<1>7. /\ Longer(a, e, m) \in [1 .. m + 1 -> Shells]
      /\ On(Longer(a, e, m), m + 1) = On(e, m) \cup {a}
      /\ ListOf(kept, a, Longer(a, e, m), m + 1)
  <2>1. kept[a] = b /\ \A s \in On(e, m) : kept[s] = nx[s]
    BY <1>2, <1>3, <1>5
  <2> HIDE DEF kept
  <2>2. QED
    BY <1>1, <1>3, <1>5, <2>1, ListLonger
<1>8. /\ a \in heap /\ ob[a] # Null
      /\ \A s \in Shells : bare[s] # Null <=> s \in On(f, n) \ {a}
  BY <1>1, <1>3 DEF Contents
<1> HIDE DEF freed, kept, bare
<1>9. SoundBy(Rest(f, n), e, freed, bare, nx[a], n - 1, b, m, {}, heap \ {a})
  BY <1>1, <1>3, <1>5, <1>6, <1>8 DEF SoundBy
<1>10. SoundBy(Rest(f, n), Longer(a, e, m), kept, bare, nx[a], n - 1, a, m + 1, {}, heap)
  BY <1>1, <1>3, <1>4, <1>5, <1>7, <1>8 DEF SoundBy
<1>11. QED
  BY <1>3, <1>7, <1>8, <1>9, <1>10 DEF Sound, freed, kept, bare

\* pabuf_back gets a new shell for an object when there is no empty one.
LEMMA SoundNewShell ==
  ASSUME NEW nx \in Memory, NEW ob \in Contents, NEW a, NEW n \in Nat, NEW b, NEW heap,
         Sound(nx, ob, a, n, b, 0, {}, heap),
         NEW s \in Shells, s \notin heap, NEW o \in Objects
  PROVE  Sound(nx, [ob EXCEPT ![s] = o], a, n, b, 0, {s}, heap \cup {s})
<1> PICK f \in [1 .. n -> Shells], e \in [1 .. 0 -> Shells] :
         SoundBy(f, e, nx, ob, a, n, b, 0, {}, heap)
  BY DEF Sound
<1>1. \A r \in Shells : [ob EXCEPT ![s] = o][r] # Null <=> r \in On(f, n) \cup {s}
  BY NullAssumption DEF SoundBy, Contents
<1>2. SoundBy(f, e, nx, [ob EXCEPT ![s] = o], a, n, b, 0, {s}, heap \cup {s})
  BY <1>1 DEF SoundBy
<1>3. QED
  BY <1>2 DEF Sound

\* Or it takes the first of the empty ones.
LEMMA SoundOldShell ==
  ASSUME NEW nx \in Memory, NEW ob \in Contents, NEW a, NEW n \in Nat,
         NEW b, NEW m \in Nat, m > 0, NEW heap,
         Sound(nx, ob, a, n, b, m, {}, heap), NEW o \in Objects
  PROVE  /\ b \in Shells /\ ob[b] = Null
         /\ Sound([nx EXCEPT ![b] = Null], [ob EXCEPT ![b] = o],
                  a, n, nx[b], m - 1, {b}, heap)
<1> PICK f \in [1 .. n -> Shells], e \in [1 .. m -> Shells] :
         SoundBy(f, e, nx, ob, a, n, b, m, {}, heap)
  BY DEF Sound
<1> DEFINE after == [nx EXCEPT ![b] = Null]
           full  == [ob EXCEPT ![b] = o]
<1>1. /\ ListOf(nx, a, f, n) /\ ListOf(nx, b, e, m)
      /\ On(f, n) \cap On(e, m) = {}
      /\ heap = On(f, n) \cup On(e, m)
      /\ \A s \in Shells : ob[s] # Null <=> s \in On(f, n)
  BY DEF SoundBy
<1>2. \A s : s # b => after[s] = nx[s]
  BY DEF Memory
<1>3. /\ Rest(e, m) \in [1 .. m - 1 -> Shells]
      /\ b \in Shells /\ b \in On(e, m)
      /\ On(Rest(e, m), m - 1) = On(e, m) \ {b}
      /\ ListOf(after, nx[b], Rest(e, m), m - 1)
  BY <1>1, <1>2, ListRest
<1>4. b \notin On(f, n)
  BY <1>1, <1>3
<1>5. ListOf(after, a, f, n)
  BY <1>1, <1>2, <1>4, ListKept
<1>6. \A s \in Shells : full[s] # Null <=> s \in On(f, n) \cup {b}
  BY <1>1, <1>3, NullAssumption DEF Contents
<1> HIDE DEF after, full
<1>7. SoundBy(f, Rest(e, m), after, full, a, n, nx[b], m - 1, {b}, heap)
  BY <1>1, <1>3, <1>4, <1>5, <1>6 DEF SoundBy
<1>8. ob[b] = Null
  BY <1>1, <1>3, <1>4
<1>9. QED
  BY <1>3, <1>7, <1>8 DEF Sound, after, full

\* The shell in hand becomes the first free one.
LEMMA SoundPush ==
  ASSUME NEW nx \in Memory, NEW ob \in Contents, NEW a, NEW n \in Nat, NEW b,
         NEW m \in Nat, NEW heap, NEW s \in Shells,
         Sound(nx, ob, a, n, b, m, {s}, heap)
  PROVE  Sound([nx EXCEPT ![s] = a], ob, s, n + 1, b, m, {}, heap)
<1> PICK f \in [1 .. n -> Shells], e \in [1 .. m -> Shells] :
         SoundBy(f, e, nx, ob, a, n, b, m, {s}, heap)
  BY DEF Sound
<1> DEFINE after == [nx EXCEPT ![s] = a]
<1>1. /\ ListOf(nx, a, f, n) /\ ListOf(nx, b, e, m)
      /\ On(f, n) \cap On(e, m) = {}
      /\ s \notin On(f, n) /\ s \notin On(e, m)
      /\ heap = On(f, n) \cup On(e, m) \cup {s}
      /\ \A r \in Shells : ob[r] # Null <=> r \in On(f, n) \cup {s}
  BY DEF SoundBy
<1>2. after[s] = a /\ \A r : r # s => after[r] = nx[r]
  BY DEF Memory
<1> HIDE DEF after
<1>0. \A r \in On(f, n) : after[r] = nx[r]
  BY <1>1, <1>2
<1>3. /\ Longer(s, f, n) \in [1 .. n + 1 -> Shells]
      /\ On(Longer(s, f, n), n + 1) = On(f, n) \cup {s}
      /\ ListOf(after, s, Longer(s, f, n), n + 1)
  BY <1>0, <1>1, <1>2, ListLonger
<1>4. ListOf(after, b, e, m)
  BY <1>1, <1>2, ListKept
<1>5. SoundBy(Longer(s, f, n), e, after, ob, s, n + 1, b, m, {}, heap)
  BY <1>1, <1>3, <1>4 DEF SoundBy
<1>6. QED
  BY <1>3, <1>5 DEF Sound, after

-----------------------------------------------------------------------------
(* What the invariant says of a thread that is about to act. *)

\* A thread that gets the lock finds nobody between lock and unlock.
LEMMA Alone ==
  ASSUME Serialized, NEW t \in users, t \in Threads, pc[t] = "idle", MayEnter(t)
  PROVE  inside = {} /\ AtWork("pop") = {} /\ AtWork("push") = {} /\ InHand = {}
<1>1. inside = {}
  <2>1. CASE locked
    BY <2>1 DEF MayEnter
  <2>2. CASE ~ locked
    BY <2>2 DEF Serialized, AtWork
  <2>3. QED
    BY <2>1, <2>2
<1>2. AtWork("pop") = {} /\ AtWork("push") = {}
  BY <1>1 DEF Serialized
<1>3. QED
  BY <1>1, <1>2 DEF InHand, AtWork

\* A thread in the middle of pabuf_get is alone there.
LEMMA Popping ==
  ASSUME Serialized, NEW t \in Threads, pc[t] = "pop"
  PROVE  inside = {t} /\ AtWork("pop") = {t} /\ AtWork("push") = {} /\ InHand = {}
<1>1. t \in AtWork("pop") /\ t \notin AtWork("push")
  BY DEF AtWork
<1>2. inside = {t} /\ AtWork("pop") = {t} /\ AtWork("push") = {}
  BY <1>1 DEF Serialized
<1>3. QED
  BY <1>2 DEF InHand, AtWork

\* And so is one in the middle of pabuf_back.
LEMMA Pushing ==
  ASSUME Serialized, NEW t \in Threads, pc[t] = "push"
  PROVE  inside = {t} /\ AtWork("push") = {t} /\ AtWork("pop") = {} /\ InHand = {shell[t]}
<1>1. t \in AtWork("push") /\ t \notin AtWork("pop")
  BY DEF AtWork
<1>2. inside = {t} /\ AtWork("push") = {t} /\ AtWork("pop") = {}
  BY <1>1 DEF Serialized
<1>3. QED
  BY <1>2 DEF InHand, AtWork

\* The free shell that pabuf_get takes, and its object.
LEMMA FirstShell ==
  ASSUME TypeOK, Serialized, Hands, ListsSound, NEW t \in Threads, pc[t] = "pop"
  PROVE  /\ shell[t] = first /\ first \in Shells /\ first \in shellHeap
         /\ obj[first] \in Objects /\ obj[first] # Null
         /\ remain_count > 0
<1>1. Sound(next, obj, first, remain_count, first_eshell, eshell_count, {}, shellHeap)
  BY SoundIs, Popping
<1>2. next \in Memory /\ obj \in Contents /\ remain_count \in Nat /\ eshell_count \in Nat
  BY DEF TypeOK, Memory, Contents
<1>3. remain_count > 0 /\ shell[t] = first
  BY DEF Hands, HandOf
<1>4. first \in Shells /\ first \in shellHeap /\ obj[first] # Null
  BY <1>1, <1>2, <1>3, SoundPop
<1>5. QED
  BY <1>2, <1>3, <1>4 DEF Contents

\* The empty shell that pabuf_back takes.
LEMMA EmptyShell ==
  ASSUME TypeOK, ListsSound, InHand = {}, eshell_count > 0
  PROVE  first_eshell \in Shells /\ obj[first_eshell] = Null
<1>1. Sound(next, obj, first, remain_count, first_eshell, eshell_count, {}, shellHeap)
  BY SoundIs
<1>2. next \in Memory /\ obj \in Contents /\ remain_count \in Nat /\ eshell_count \in Nat
  BY DEF TypeOK, Memory, Contents
<1>3. QED
  <2>1. ASSUME NEW o \in Objects PROVE first_eshell \in Shells /\ obj[first_eshell] = Null
    BY <1>1, <1>2, SoundOldShell
  <2>2. CASE Objects = {}
    <3>1. \A s \in Shells : obj[s] = Null
      BY <1>2, <2>2 DEF Contents
    <3>2. first_eshell \in Shells
      <4>1. PICK e \in [1 .. eshell_count -> Shells] :
              ListOf(next, first_eshell, e, eshell_count)
        BY <1>1 DEF Sound, SoundBy
      <4>2. QED
        BY <1>2, <4>1 DEF ListOf
    <3>3. QED
      BY <3>1, <3>2
  <2>3. QED
    BY <2>1, <2>2

\* The counts of the lists do not wrap: there is a shell to take off, or room for one.
LEMMA CountsInWidth ==
  ASSUME TypeOK
  PROVE  /\ remain_count > 0 => Less(remain_count) = remain_count - 1
         /\ ~ NoEshell => Less(eshell_count) = eshell_count - 1
         /\ ~ EshellsFull => More(eshell_count) = eshell_count + 1
BY CountModAssumption DEF TypeOK, Less, More, NoEshell, EshellsFull

\* The shell in hand is counted, so that the list of free objects is not full.
LEMMA RoomToPush ==
  ASSUME TypeOK, ShellsCounted, ShellsBounded, NEW t \in Threads, pc[t] = "push"
  PROVE  remain_count < max_remain_count /\ More(remain_count) = remain_count + 1
<1>1. AtWork("push") # {}
  BY DEF AtWork
<1>2. remain_count < max_remain_count
  BY <1>1 DEF ShellsCounted, ShellsBounded, TypeOK
<1>3. QED
  BY <1>2, CountModAssumption DEF More, TypeOK

-----------------------------------------------------------------------------
(* The lists, the threads and the objects, after each step. *)

\* Whatever a step does to the lists, their counts stay true (pabuf.c:19-53, pabuf.c:72-106).
LEMMA ListsStep ==
  ASSUME TypeOK, Serialized, Hands, ListsSound, ShellsCounted, ShellsBounded, [Next]_vars
  PROVE  ListsSound'
<1>0. /\ Sound(next, obj, first, remain_count, first_eshell, eshell_count, InHand, shellHeap)
      /\ next \in Memory /\ obj \in Contents
      /\ remain_count \in Nat /\ eshell_count \in Nat
      /\ shell \in [Threads -> Shells \cup {Null}]
      /\ pc \in [Threads -> {"idle", "calloc", "pop", "push", "free"}]
      /\ users \subseteq Threads
  BY SoundIs DEF TypeOK, Memory, Contents
<1>1. ASSUME UNCHANGED <<listVars, shellHeap>>, InHand' = InHand PROVE ListsSound'
  BY <1>0, <1>1, SoundIsThen DEF listVars
<1>2. ASSUME NEW t \in users, GetNew(t) PROVE ListsSound'
  BY <1>0, <1>1, <1>2 DEF GetNew, InHand
<1>3. ASSUME NEW t \in users, NEW o \in Objects, Calloc(t, o) PROVE ListsSound'
  BY <1>0, <1>1, <1>3 DEF Calloc, InHand
<1>4. ASSUME NEW t \in users, GetFirst(t) PROVE ListsSound'
  <2>1. InHand = {} /\ UNCHANGED <<listVars, shellHeap>>
    BY <1>0, <1>4, Alone DEF GetFirst
  <2>2. \A u \in Threads : pc[u] # "push" /\ pc'[u] # "push"
    BY <1>0, <1>4, Alone DEF GetFirst, AtWork
  <2>3. InHand' = {}
    BY <2>2 DEF InHand
  <2>4. QED
    BY <1>1, <2>1, <2>3
<1>5. ASSUME NEW t \in users, Pop(t) PROVE ListsSound'
  <2>1. t \in Threads /\ pc[t] = "pop" /\ shell[t] = first /\ InHand = {}
        /\ first \in Shells /\ remain_count > 0
    BY <1>0, <1>5, Popping, FirstShell DEF Pop
  <2>2. InHand' = {}
    BY <1>0, <1>5, <2>1, Popping DEF Pop, InHand, AtWork
  <2>3. /\ Sound([next EXCEPT ![first] = Null], [obj EXCEPT ![first] = Null], next[first],
                 remain_count - 1, first_eshell, eshell_count, {}, shellHeap \ {first})
        /\ Sound([next EXCEPT ![first] = first_eshell], [obj EXCEPT ![first] = Null],
                 next[first], remain_count - 1, first, eshell_count + 1, {}, shellHeap)
    BY <1>0, <2>1, SoundPop
  <2>4. QED
    BY <1>0, <1>5, <2>1, <2>2, <2>3, SoundIsThen, CountsInWidth DEF Pop, BackEshell, Linked
<1>6. ASSUME NEW t \in users, NEW o \in Objects, BackSurplus(t, o) PROVE ListsSound'
  BY <1>0, <1>1, <1>6 DEF BackSurplus, InHand
<1>7. ASSUME NEW t \in users, Free(t) PROVE ListsSound'
  BY <1>0, <1>1, <1>7 DEF Free, InHand
<1>8. ASSUME NEW t \in users, NEW o \in Objects, NEW s \in Shells, BackShell(t, o, s)
      PROVE  ListsSound'
  <2>1. t \in Threads /\ InHand = {} /\ AtWork("push") = {}
    BY <1>0, <1>8, Alone DEF BackShell
  <2>2. InHand' = {s}
    <3>1. \A u \in Threads : /\ pc'[u] = "push" <=> u = t
                             /\ shell'[t] = s
      BY <1>0, <1>8, <2>1 DEF BackShell, AtWork
    <3>2. QED
      BY <2>1, <3>1 DEF InHand
  <2>3. CASE NoEshell
    <3>1. Sound(next, [obj EXCEPT ![s] = o], first, remain_count, first_eshell, 0, {s},
                shellHeap \cup {s})
      BY <1>0, <1>8, <2>1, <2>3, SoundNewShell DEF BackShell, TakeEshell, NoEshell
    <3>2. QED
      BY <1>8, <2>2, <2>3, <3>1, SoundIsThen DEF BackShell, TakeEshell, NoEshell
  <2>4. CASE ~ NoEshell
    <3>1. eshell_count > 0
      BY <1>0, <2>4 DEF NoEshell
    <3>2. Sound([next EXCEPT ![first_eshell] = Null], [obj EXCEPT ![first_eshell] = o],
                first, remain_count, next[first_eshell], eshell_count - 1, {first_eshell},
                shellHeap)
      BY <1>0, <2>1, <3>1, SoundOldShell
    <3>3. QED
      BY <1>8, <2>2, <2>4, <3>2, SoundIsThen, CountsInWidth DEF BackShell, TakeEshell
  <2>5. QED
    BY <2>3, <2>4
<1>9. ASSUME NEW t \in users, Push(t) PROVE ListsSound'
  <2>1. t \in Threads /\ pc[t] = "push" /\ InHand = {shell[t]} /\ shell[t] \in Shells
    BY <1>0, <1>9, Pushing DEF Push, Hands, HandOf
  <2>2. InHand' = {}
    BY <1>0, <1>9, <2>1, Pushing DEF Push, InHand, AtWork
  <2>3. Sound([next EXCEPT ![shell[t]] = first], obj, shell[t], remain_count + 1,
              first_eshell, eshell_count, {}, shellHeap)
    BY <1>0, <2>1, SoundPush
  <2>4. QED
    BY <1>9, <2>1, <2>2, <2>3, SoundIsThen, RoomToPush DEF Push, Linked
<1>10. CASE UNCHANGED vars
  BY <1>1, <1>10 DEF vars, InHand
<1>11. QED
  BY <1>2, <1>3, <1>4, <1>5, <1>6, <1>7, <1>8, <1>9, <1>10 DEF Next

\* The threads that are about to free an object have one each, in memory and not the o
\* of a thread that is not at work: the pool counts at least that one.
LEMMA CountPositive ==
  ASSUME TypeOK, Hands, Owners, Accounting,
         NEW t \in Threads, pc[t] = "idle", NEW o \in owned[t]
  PROVE  count > 0
<1> DEFINE others == objectHeap \ {o}
           g == [u \in AtWork("free") |-> object[u]]
<1>1. /\ owned \in [Threads -> SUBSET Objects] /\ objectHeap \subseteq Objects /\ count \in Nat
      /\ AtWork("free") \subseteq Threads /\ AtWork("calloc") \subseteq Threads
      /\ objectHeap = Pooled \cup UNION {owned[u] : u \in Threads}
      /\ count + Cardinality(AtWork("free")) =
           Cardinality(objectHeap) + Cardinality(AtWork("calloc"))
  BY DEF TypeOK, Accounting, AtWork
<1>2. /\ IsFiniteSet(AtWork("free")) /\ IsFiniteSet(AtWork("calloc"))
      /\ IsFiniteSet(objectHeap) /\ IsFiniteSet(others)
  BY <1>1, FiniteAssumption, FS_Subset
<1>3. /\ Cardinality(AtWork("free")) \in Nat /\ Cardinality(AtWork("calloc")) \in Nat
      /\ Cardinality(objectHeap) \in Nat /\ Cardinality(others) \in Nat
  BY <1>2, FS_CardinalityType
<1>4. o \in objectHeap
  BY <1>1
<1>5. \A u \in AtWork("free") : object[u] \in owned[u] /\ u \in Threads /\ u # t
  BY DEF Hands, HandOf, AtWork
<1>6. \A u \in AtWork("free") : object[u] \in others
  BY <1>1, <1>5 DEF Owners
<1>7. \A u, v \in AtWork("free") : object[u] = object[v] => u = v
  BY <1>1, <1>5 DEF Owners
<1>8. g \in Injection(AtWork("free"), others)
  BY <1>6, <1>7 DEF Injection, IsInjective
<1>9. Cardinality(AtWork("free")) <= Cardinality(others)
  <2> HIDE DEF others, g
  <2> QED
    BY <1>2, <1>8, FS_Injection
<1>10. Cardinality(others) = Cardinality(objectHeap) - 1
  BY <1>2, <1>4, FS_RemoveElement
<1>11. QED
  BY <1>1, <1>3, <1>9, <1>10

\* Types: no counter goes below zero.
LEMMA TypeStep ==
  ASSUME IInv, [Next]_vars
  PROVE  TypeOK'
<1>0. TypeOK /\ Serialized /\ Hands /\ ListsSound /\ ShellsCounted /\ ShellsBounded
  BY DEF IInv
<1>1. ASSUME NEW t \in users, GetNew(t) PROVE TypeOK'
  BY <1>0, <1>1 DEF TypeOK, GetNew, poolVars, listVars
<1>2. ASSUME NEW t \in users, NEW o \in Objects, Calloc(t, o) PROVE TypeOK'
  BY <1>0, <1>2 DEF TypeOK, Calloc, poolVars, listVars
<1>3. ASSUME NEW t \in users, GetFirst(t) PROVE TypeOK'
  BY <1>0, <1>3 DEF TypeOK, GetFirst, poolVars, listVars
<1>4. ASSUME NEW t \in users, Pop(t) PROVE TypeOK'
  <2>1. /\ t \in Threads /\ shell[t] = first /\ first \in Shells
        /\ obj[first] \in Objects /\ remain_count > 0
    BY <1>0, <1>4, FirstShell DEF Pop, TypeOK
  <2>2. shell_memory > 0
    BY <1>0, <2>1 DEF ShellsCounted, TypeOK
  <2>3. /\ remain_count' \in Nat /\ eshell_count' \in Nat /\ shell_memory' \in Nat
    BY <1>0, <1>4, <2>1, <2>2, CountsInWidth DEF TypeOK, Pop, BackEshell
  <2>4. /\ next' \in [Shells -> Shells \cup {Null}] /\ obj' \in [Shells -> Objects \cup {Null}]
        /\ first_eshell' \in Shells \cup {Null} /\ shellHeap' \subseteq Shells
    BY <1>0, <1>4, <2>1 DEF TypeOK, Pop, BackEshell, Linked
  <2>5. QED
    BY <1>0, <1>4, <2>1, <2>3, <2>4 DEF TypeOK, Pop, poolVars
<1>5. ASSUME NEW t \in users, NEW o \in Objects, BackSurplus(t, o) PROVE TypeOK'
  <2>1. count > 0
    BY <1>5, CountPositive DEF BackSurplus, IInv, TypeOK
  <2>2. QED
    BY <1>0, <1>5, <2>1 DEF TypeOK, BackSurplus, poolVars, listVars
<1>6. ASSUME NEW t \in users, Free(t) PROVE TypeOK'
  BY <1>0, <1>6 DEF TypeOK, Free, poolVars, listVars
<1>7. ASSUME NEW t \in users, NEW o \in Objects, NEW s \in Shells, BackShell(t, o, s)
      PROVE  TypeOK'
  <2>1. /\ next' \in [Shells -> Shells \cup {Null}] /\ obj' \in [Shells -> Objects \cup {Null}]
        /\ first_eshell' \in Shells \cup {Null} /\ shellHeap' \subseteq Shells
        /\ eshell_count' \in Nat /\ shell_memory' \in Nat
    BY <1>0, <1>7, CountsInWidth DEF TypeOK, BackShell, TakeEshell, NoEshell
  <2>2. QED
    BY <1>0, <1>7, <2>1 DEF TypeOK, BackShell, poolVars
<1>8. ASSUME NEW t \in users, Push(t) PROVE TypeOK'
  <2>1. shell[t] \in Shells /\ t \in Threads
    BY <1>0, <1>8 DEF Push, Hands, HandOf, TypeOK
  <2>2. next' \in [Shells -> Shells \cup {Null}]
    BY <1>0, <1>8, <2>1 DEF TypeOK, Push, Linked
  <2>3. remain_count' = remain_count + 1
    BY <1>0, <1>8, <2>1, RoomToPush DEF Push
  <2>4. QED
    BY <1>0, <1>8, <2>1, <2>2, <2>3 DEF TypeOK, Push, poolVars
<1>9. CASE UNCHANGED vars
  BY <1>0, <1>9 DEF TypeOK, vars, poolVars, listVars
<1>10. QED
  BY <1>1, <1>2, <1>3, <1>4, <1>5, <1>6, <1>7, <1>8, <1>9 DEF Next

\* The lock is held by one thread and given back by it.
LEMMA SerializedStep ==
  ASSUME TypeOK, Serialized, [Next]_vars
  PROVE  Serialized'
<1>0. /\ users \subseteq Threads
      /\ pc \in [Threads -> {"idle", "calloc", "pop", "push", "free"}]
  BY DEF TypeOK
<1>1. ASSUME UNCHANGED <<poolVars, inside>>, AtWork("pop")' = AtWork("pop"),
             AtWork("push")' = AtWork("push"), \A t \in Threads : pc'[t] # "idle" => t \in users
      PROVE  Serialized'
  BY <1>1 DEF Serialized, poolVars
<1>2. ASSUME NEW t \in users, NEW st \in {"idle", "calloc", "free"}, pc[t] \notin {"pop", "push"},
             pc' = [pc EXCEPT ![t] = st], UNCHANGED <<poolVars, inside>>
      PROVE  Serialized'
  <2>1. AtWork("pop")' = AtWork("pop") /\ AtWork("push")' = AtWork("push")
    BY <1>0, <1>2 DEF AtWork
  <2>2. \A u \in Threads : pc'[u] # "idle" => u \in users
    BY <1>0, <1>2 DEF Serialized
  <2>3. QED
    BY <1>1, <1>2, <2>1, <2>2
<1>3. ASSUME NEW t \in users, NEW st \in {"pop", "push"}, pc[t] = "idle", MayEnter(t),
             inside' = inside \cup {t}, pc' = [pc EXCEPT ![t] = st], UNCHANGED poolVars
      PROVE  Serialized'
  <2>1. inside = {} /\ AtWork("pop") = {} /\ AtWork("push") = {}
    BY <1>0, <1>3, Alone
  <2>2. (AtWork("pop") \cup AtWork("push"))' = {t}
    BY <1>0, <1>3, <2>1 DEF AtWork
  <2>3. \A u \in Threads : pc'[u] # "idle" => u \in users
    BY <1>0, <1>3 DEF Serialized
  <2>4. QED
    BY <1>3, <2>1, <2>2, <2>3 DEF Serialized, poolVars
<1>4. ASSUME NEW t \in users, pc[t] \in {"pop", "push"}, inside' = inside \ {t},
             pc' = [pc EXCEPT ![t] = "idle"], UNCHANGED poolVars
      PROVE  Serialized'
  <2>1. inside = {t}
    BY <1>0, <1>4, Popping, Pushing
  <2>2. (AtWork("pop") \cup AtWork("push"))' = {}
    BY <1>0, <1>4, <2>1 DEF AtWork, Serialized
  <2>3. \A u \in Threads : pc'[u] # "idle" => u \in users
    BY <1>0, <1>4 DEF Serialized
  <2>4. QED
    BY <1>4, <2>1, <2>2, <2>3 DEF Serialized, poolVars
<1>5. ASSUME NEW t \in users,
             GetNew(t) \/ (\E o \in Objects : Calloc(t, o) \/ BackSurplus(t, o)) \/ Free(t)
      PROVE  Serialized'
  BY <1>2, <1>5 DEF GetNew, Calloc, BackSurplus, Free
<1>6. ASSUME NEW t \in users,
             GetFirst(t) \/ \E o \in Objects, s \in Shells : BackShell(t, o, s)
      PROVE  Serialized'
  BY <1>3, <1>6 DEF GetFirst, BackShell
<1>7. ASSUME NEW t \in users, Pop(t) \/ Push(t) PROVE Serialized'
  BY <1>4, <1>7 DEF Pop, Push
<1>8. CASE UNCHANGED vars
  BY <1>0, <1>1, <1>8 DEF vars, AtWork, Serialized
<1>9. QED
  BY <1>5, <1>6, <1>7, <1>8 DEF Next

\* What a thread holds stays right.
LEMMA HandsStep ==
  ASSUME TypeOK, Serialized, Hands, ListsSound, [Next]_vars
  PROVE  Hands'
<1>0. /\ users \subseteq Threads
      /\ pc \in [Threads -> {"idle", "calloc", "pop", "push", "free"}]
      /\ shell \in [Threads -> Shells \cup {Null}]
      /\ object \in [Threads -> Objects \cup {Null}]
      /\ owned \in [Threads -> SUBSET Objects]
      /\ obj \in [Shells -> Objects \cup {Null}]
  BY DEF TypeOK
\* A thread that does nothing keeps what it holds, unless the lists change under its hands.
<1>1. ASSUME NEW u \in Threads, pc'[u] = pc[u], shell'[u] = shell[u], object'[u] = object[u],
             owned'[u] = owned[u], pc[u] = "pop" => UNCHANGED <<remain_count, first>>,
             pc[u] \in {"pop", "push"} => UNCHANGED obj
      PROVE  HandOf(u)'
  BY <1>1 DEF Hands, HandOf
\* One outside of the lock needs an object at most.
<1>2. ASSUME NEW u \in Threads, pc'[u] \in {"idle", "calloc"} PROVE HandOf(u)'
  BY <1>2 DEF HandOf
<1>3. ASSUME NEW t \in users, GetNew(t) PROVE Hands'
  <2>1. ASSUME NEW u \in Threads, u # t PROVE HandOf(u)'
    BY <1>0, <1>1, <1>3, <2>1 DEF GetNew, listVars
  <2>2. pc'[t] = "calloc"
    BY <1>0, <1>3 DEF GetNew
  <2>3. QED
    BY <1>2, <2>1, <2>2 DEF Hands
<1>4. ASSUME NEW t \in users, NEW o \in Objects, Calloc(t, o) PROVE Hands'
  <2>1. ASSUME NEW u \in Threads, u # t PROVE HandOf(u)'
    BY <1>0, <1>1, <1>4, <2>1 DEF Calloc, listVars
  <2>2. pc'[t] = "idle"
    BY <1>0, <1>4 DEF Calloc
  <2>3. QED
    BY <1>2, <2>1, <2>2 DEF Hands
<1>5. ASSUME NEW t \in users, GetFirst(t) PROVE Hands'
  <2>1. ASSUME NEW u \in Threads, u # t PROVE HandOf(u)'
    BY <1>0, <1>1, <1>5, <2>1 DEF GetFirst, listVars
  <2>2. HandOf(t)'
    BY <1>0, <1>5 DEF GetFirst, HandOf, listVars
  <2>3. QED
    BY <2>1, <2>2 DEF Hands
<1>6. ASSUME NEW t \in users, Pop(t) PROVE Hands'
  <2>1. \A u \in Threads : u # t => pc[u] \notin {"pop", "push"}
    BY <1>0, <1>6, Popping DEF Pop, AtWork
  <2>2. ASSUME NEW u \in Threads, u # t PROVE HandOf(u)'
    BY <1>0, <1>1, <1>6, <2>1, <2>2 DEF Pop
  <2>3. pc'[t] = "idle"
    BY <1>0, <1>6 DEF Pop
  <2>4. QED
    BY <1>2, <2>2, <2>3 DEF Hands
<1>7. ASSUME NEW t \in users, NEW o \in Objects, BackSurplus(t, o) PROVE Hands'
  <2>1. ASSUME NEW u \in Threads, u # t PROVE HandOf(u)'
    BY <1>0, <1>1, <1>7, <2>1 DEF BackSurplus, listVars
  <2>2. HandOf(t)'
    BY <1>0, <1>7 DEF BackSurplus, HandOf
  <2>3. QED
    BY <2>1, <2>2 DEF Hands
<1>8. ASSUME NEW t \in users, Free(t) PROVE Hands'
  <2>1. ASSUME NEW u \in Threads, u # t PROVE HandOf(u)'
    BY <1>0, <1>1, <1>8, <2>1 DEF Free, listVars
  <2>2. pc'[t] = "idle"
    BY <1>0, <1>8 DEF Free
  <2>3. QED
    BY <1>2, <2>1, <2>2 DEF Hands
<1>9. ASSUME NEW t \in users, NEW o \in Objects, NEW s \in Shells, BackShell(t, o, s)
      PROVE  Hands'
  <2>1. \A u \in Threads : pc[u] \notin {"pop", "push"}
    BY <1>0, <1>9, Alone DEF BackShell, AtWork
  <2>2. ASSUME NEW u \in Threads, u # t PROVE HandOf(u)'
    BY <1>0, <1>1, <1>9, <2>1, <2>2 DEF BackShell
  <2>3. obj' = [obj EXCEPT ![s] = o]
    BY <1>9 DEF BackShell, TakeEshell
  <2>4. HandOf(t)'
    BY <1>0, <1>9, <2>3 DEF BackShell, HandOf
  <2>5. QED
    BY <2>2, <2>4 DEF Hands
<1>10. ASSUME NEW t \in users, Push(t) PROVE Hands'
  <2>1. \A u \in Threads : u # t => pc[u] \notin {"pop", "push"}
    BY <1>0, <1>10, Pushing DEF Push, AtWork
  <2>2. ASSUME NEW u \in Threads, u # t PROVE HandOf(u)'
    BY <1>0, <1>1, <1>10, <2>1, <2>2 DEF Push
  <2>3. pc'[t] = "idle"
    BY <1>0, <1>10 DEF Push
  <2>4. QED
    BY <1>2, <2>2, <2>3 DEF Hands
<1>11. CASE UNCHANGED vars
  BY <1>1, <1>11 DEF vars, listVars, Hands
<1>12. QED
  BY <1>3, <1>4, <1>5, <1>6, <1>7, <1>8, <1>9, <1>10, <1>11 DEF Next

\* A shell that pabuf_back takes, new or empty, has no object.
LEMMA TakenBare ==
  ASSUME TypeOK, ListsSound, InHand = {}, NEW s \in Shells, NEW o, TakeEshell(s, o)
  PROVE  obj[s] = Null /\ obj' = [obj EXCEPT ![s] = o]
<1>1. CASE NoEshell
  <2>1. Sound(next, obj, first, remain_count, first_eshell, eshell_count, {}, shellHeap)
    BY SoundIs
  <2>2. s \notin shellHeap
    BY <1>1 DEF TakeEshell
  <2>3. obj[s] = Null
    BY <2>1, <2>2 DEF Sound, SoundBy
  <2>4. QED
    BY <1>1, <2>3 DEF TakeEshell
<1>2. CASE ~ NoEshell
  <2>1. eshell_count > 0
    BY <1>2 DEF NoEshell, TypeOK
  <2>2. QED
    BY <1>2, <2>1, EmptyShell DEF TakeEshell
<1>3. QED
  BY <1>1, <1>2

\* Each object keeps to one place.
LEMMA OwnersStep ==
  ASSUME TypeOK, Serialized, Hands, Owners, ListsSound, Accounting, [Next]_vars
  PROVE  Owners'
<1>0. /\ users \subseteq Threads
      /\ pc \in [Threads -> {"idle", "calloc", "pop", "push", "free"}]
      /\ object \in [Threads -> Objects \cup {Null}]
      /\ shell \in [Threads -> Shells \cup {Null}]
      /\ owned \in [Threads -> SUBSET Objects]
      /\ obj \in [Shells -> Objects \cup {Null}]
  BY DEF TypeOK
<1>1. /\ \A t, u \in Threads, o \in Objects : o \in owned[t] /\ o \in owned[u] => t = u
      /\ \A s, r \in Shells : obj[s] = obj[r] /\ obj[s] # Null => s = r
      /\ \A s \in Shells, t \in Threads : obj[s] \in owned[t] => pc[t] = "push" /\ shell[t] = s
  BY DEF Owners
\* Steps that put no object anywhere; a thread that moves one goes on doing so.
<1>2. ASSUME UNCHANGED obj, \A u \in Threads : owned'[u] \subseteq owned[u],
             \A u \in Threads : pc[u] = "push" => pc'[u] = "push" /\ shell'[u] = shell[u]
      PROVE  Owners'
  BY <1>1, <1>2 DEF Owners
<1>3. ASSUME NEW t \in users,
             GetNew(t) \/ GetFirst(t) \/ (\E o \in Objects : BackSurplus(t, o)) \/ Free(t)
      PROVE  Owners'
  <2>1. UNCHANGED obj
    BY <1>3 DEF GetNew, GetFirst, BackSurplus, Free, listVars
  <2>2. \A u \in Threads : owned'[u] \subseteq owned[u]
    BY <1>0, <1>3 DEF GetNew, GetFirst, BackSurplus, Free
  <2>3. \A u \in Threads : pc[u] = "push" => pc'[u] = "push" /\ shell'[u] = shell[u]
    BY <1>0, <1>3 DEF GetNew, GetFirst, BackSurplus, Free
  <2>4. QED
    BY <1>2, <2>1, <2>2, <2>3
<1>4. ASSUME NEW t \in users, NEW o \in Objects, Calloc(t, o) PROVE Owners'
  <2>1. /\ \A u \in Threads : owned'[u] = IF u = t THEN owned[u] \cup {o} ELSE owned[u]
        /\ obj' = obj /\ shell' = shell
        /\ \A u \in Threads : pc'[u] = "push" <=> pc[u] = "push"
    BY <1>0, <1>4 DEF Calloc, listVars
  <2>2. \A u \in Threads : o \notin owned[u]
    BY <1>4 DEF Calloc, Accounting
  <2>3. \A s \in Shells : obj[s] # o
    BY <1>0, <1>4, NullAssumption DEF Calloc, Accounting, Pooled
  <2>4. ASSUME NEW u \in Threads, NEW v \in Threads, NEW p \in Objects,
               p \in owned'[u], p \in owned'[v]
        PROVE  u = v
    <3>1. CASE p = o
      BY <2>1, <2>2, <2>4, <3>1
    <3>2. CASE p # o
      <4>1. p \in owned[u] /\ p \in owned[v]
        BY <2>1, <2>4, <3>2
      <4> QED
        BY <1>1, <4>1
    <3> QED
      BY <3>1, <3>2
  <2>5. ASSUME NEW s \in Shells, NEW u \in Threads, obj'[s] \in owned'[u]
        PROVE  pc'[u] = "push" /\ shell'[u] = s
    <3>1. obj[s] \in owned[u]
      BY <2>1, <2>3, <2>5
    <3> QED
      BY <1>1, <2>1, <3>1
  <2>6. QED
    BY <1>1, <2>1, <2>4, <2>5 DEF Owners
<1>5. ASSUME NEW t \in users, Pop(t) PROVE Owners'
  <2>1. /\ t \in Threads /\ shell[t] = first /\ first \in Shells /\ object[t] = obj[first]
        /\ obj[first] \in Objects /\ obj[first] # Null
        /\ \A u \in Threads : pc[u] # "push"
    BY <1>0, <1>5, FirstShell, Popping DEF Pop, AtWork, Hands, HandOf
  <2>2. \A s \in Shells, u \in Threads : obj[s] \notin owned[u]
    BY <1>1, <2>1
  <2>3. \A u \in Threads : owned'[u] = IF u = t THEN owned[u] \cup {obj[first]} ELSE owned[u]
    BY <1>0, <1>5, <2>1 DEF Pop
  <2>4. \A s \in Shells : obj'[s] = IF s = first THEN Null ELSE obj[s]
    BY <1>0, <1>5, <2>1 DEF Pop, BackEshell
  <2>5. \A u \in Threads : Null \notin owned[u]
    BY <1>0, NullAssumption
  <2>6. ASSUME NEW s \in Shells, NEW u \in Threads PROVE obj'[s] \notin owned'[u]
    <3>1. CASE s = first
      <4>1. obj'[s] = Null /\ Null # obj[first] /\ Null \notin owned[u]
        BY <2>1, <2>4, <2>5, <3>1
      <4>2. owned'[u] \subseteq owned[u] \cup {obj[first]}
        BY <2>3
      <4>3. QED
        BY <4>1, <4>2
    <3>2. CASE s # first
      <4>1. obj'[s] = obj[s] /\ obj[s] # obj[first]
        BY <1>1, <2>1, <2>4, <3>2
      <4>2. QED
        BY <2>2, <2>3, <4>1
    <3>3. QED
      BY <3>1, <3>2
  <2>7. \A s, r \in Shells : obj'[s] = obj'[r] /\ obj'[s] # Null => s = r
    BY <1>1, <2>4
  <2>8. ASSUME NEW u \in Threads, NEW v \in Threads, NEW p \in Objects,
               p \in owned'[u], p \in owned'[v]
        PROVE  u = v
    <3>1. CASE p = obj[first]
      BY <2>1, <2>2, <2>3, <2>8, <3>1
    <3>2. CASE p # obj[first]
      <4>1. p \in owned[u] /\ p \in owned[v]
        BY <2>3, <2>8, <3>2
      <4>2. QED
        BY <1>1, <4>1
    <3>3. QED
      BY <3>1, <3>2
  <2>9. QED
    BY <2>6, <2>7, <2>8 DEF Owners
<1>6. ASSUME NEW t \in users, NEW o \in Objects, NEW s \in Shells, BackShell(t, o, s)
      PROVE  Owners'
  <2>1. /\ t \in Threads /\ InHand = {} /\ \A u \in Threads : pc[u] # "push"
    BY <1>0, <1>6, Alone DEF BackShell, AtWork
  <2>2. obj[s] = Null /\ obj' = [obj EXCEPT ![s] = o]
    BY <1>6, <2>1, TakenBare DEF BackShell
  <2>3. \A r \in Shells, u \in Threads : obj[r] \notin owned[u]
    BY <1>1, <2>1
  <2>4. o \in owned[t] /\ owned' = owned /\ pc'[t] = "push" /\ shell'[t] = s
    BY <1>0, <1>6, <2>1 DEF BackShell
  <2>5. \A r \in Shells : obj'[r] = IF r = s THEN o ELSE obj[r]
    BY <1>0, <2>2
  <2>6. \A r, q \in Shells : obj'[r] = obj'[q] /\ obj'[r] # Null => r = q
    BY <1>1, <2>1, <2>3, <2>4, <2>5
  <2>7. \A r \in Shells, u \in Threads : obj'[r] \in owned'[u] => r = s /\ u = t
    BY <1>1, <2>1, <2>3, <2>4, <2>5
  <2>8. QED
    BY <1>1, <2>4, <2>6, <2>7 DEF Owners
<1>7. ASSUME NEW t \in users, Push(t) PROVE Owners'
  <2>1. /\ t \in Threads /\ obj[shell[t]] = object[t]
        /\ \A u \in Threads : pc[u] = "push" => u = t
    BY <1>0, <1>7, Pushing DEF Push, Hands, HandOf, AtWork
  <2>2. \A u \in Threads : owned'[u] = IF u = t THEN owned[u] \ {object[t]} ELSE owned[u]
    BY <1>0, <1>7 DEF Push
  <2>3. obj' = obj
    BY <1>7 DEF Push
  <2>4. ASSUME NEW s \in Shells, NEW u \in Threads, obj'[s] \in owned'[u] PROVE FALSE
    <3>1. obj[s] \in owned[u]
      BY <2>2, <2>3, <2>4
    <3>2. u = t /\ s = shell[t]
      BY <1>1, <2>1, <3>1
    <3>3. QED
      BY <2>1, <2>2, <2>3, <2>4, <3>2
  <2>5. ASSUME NEW u \in Threads, NEW v \in Threads, NEW p \in Objects,
               p \in owned'[u], p \in owned'[v]
        PROVE  u = v
    <3>1. p \in owned[u] /\ p \in owned[v]
      BY <2>2, <2>5
    <3>2. QED
      BY <1>1, <3>1
  <2>6. QED
    BY <1>1, <2>3, <2>4, <2>5 DEF Owners
<1>8. CASE UNCHANGED vars
  BY <1>1, <1>8 DEF vars, listVars, Owners
<1>9. QED
  BY <1>3, <1>4, <1>5, <1>6, <1>7, <1>8 DEF Next

-----------------------------------------------------------------------------
(* The counters after each step. *)

\* A thread that comes to a stage is counted there, and one that leaves no longer.
LEMMA OneMore ==
  ASSUME NEW S \in SUBSET Threads, NEW t, t \notin S
  PROVE  Cardinality(S \cup {t}) = Cardinality(S) + 1
BY FiniteAssumption, FS_Subset, FS_AddElement

LEMMA OneLess ==
  ASSUME NEW S \in SUBSET Threads, NEW t, t \in S
  PROVE  Cardinality(S \ {t}) = Cardinality(S) - 1
BY FiniteAssumption, FS_Subset, FS_RemoveElement

\* The numbers that Accounting compares are numbers.
LEMMA Numbers ==
  ASSUME TypeOK
  PROVE  /\ IsFiniteSet(objectHeap) /\ IsFiniteSet(shellHeap)
         /\ Cardinality(objectHeap) \in Nat /\ Cardinality(shellHeap) \in Nat
         /\ \A st : Cardinality(AtWork(st)) \in Nat
<1>1. IsFiniteSet(objectHeap) /\ IsFiniteSet(shellHeap)
  BY FiniteAssumption, FS_Subset DEF TypeOK
<1>2. \A st : IsFiniteSet(AtWork(st))
  BY FiniteAssumption, FS_Subset DEF AtWork
<1>3. QED
  BY <1>1, <1>2, FS_CardinalityType

Counted == count + Cardinality(AtWork("free")) = Cardinality(objectHeap) + Cardinality(AtWork("calloc"))

\* count is what exists, but for the objects that are about to come or to go.
LEMMA CountedStep ==
  ASSUME TypeOK, Hands, Counted, objectHeap = Pooled \cup UNION {owned[t] : t \in Threads},
         [Next]_vars
  PROVE  Counted'
<1>0. /\ users \subseteq Threads /\ count \in Nat
      /\ pc \in [Threads -> {"idle", "calloc", "pop", "push", "free"}]
      /\ Cardinality(objectHeap) \in Nat
      /\ Cardinality(AtWork("free")) \in Nat /\ Cardinality(AtWork("calloc")) \in Nat
      /\ IsFiniteSet(objectHeap)
      /\ AtWork("free") \in SUBSET Threads /\ AtWork("calloc") \in SUBSET Threads
  BY Numbers DEF TypeOK, AtWork
<1>1. ASSUME UNCHANGED <<count, objectHeap>>, AtWork("free")' = AtWork("free"),
             AtWork("calloc")' = AtWork("calloc")
      PROVE  Counted'
  BY <1>1 DEF Counted
<1>2. ASSUME NEW t \in users, GetNew(t) PROVE Counted'
  <2>1. /\ pc[t] = "idle" /\ pc' = [pc EXCEPT ![t] = "calloc"] /\ t \in Threads
        /\ count' = count + 1 /\ objectHeap' = objectHeap
    BY <1>0, <1>2 DEF GetNew
  <2>2. /\ AtWork("calloc")' = AtWork("calloc") \cup {t} /\ t \notin AtWork("calloc")
        /\ AtWork("free")' = AtWork("free")
    BY <1>0, <2>1 DEF AtWork
  <2>3. Cardinality(AtWork("calloc")') = Cardinality(AtWork("calloc")) + 1
    BY <1>0, <2>2, OneMore
  <2>4. QED
    BY <1>0, <2>1, <2>2, <2>3 DEF Counted
<1>3. ASSUME NEW t \in users, NEW o \in Objects, Calloc(t, o) PROVE Counted'
  <2>1. /\ pc[t] = "calloc" /\ pc' = [pc EXCEPT ![t] = "idle"] /\ t \in Threads
        /\ count' = count /\ objectHeap' = objectHeap \cup {o} /\ o \notin objectHeap
    BY <1>0, <1>3 DEF Calloc
  <2>2. /\ AtWork("calloc")' = AtWork("calloc") \ {t} /\ t \in AtWork("calloc")
        /\ AtWork("free")' = AtWork("free")
    BY <1>0, <2>1 DEF AtWork
  <2>3. Cardinality(AtWork("calloc")') = Cardinality(AtWork("calloc")) - 1
    BY <1>0, <2>2, OneLess
  <2>4. Cardinality(objectHeap') = Cardinality(objectHeap) + 1
    BY <1>0, <2>1, FS_AddElement
  <2>5. QED
    BY <1>0, <2>1, <2>2, <2>3, <2>4 DEF Counted
<1>4. ASSUME NEW t \in users, NEW o \in Objects, BackSurplus(t, o) PROVE Counted'
  <2>1. /\ pc[t] = "idle" /\ pc' = [pc EXCEPT ![t] = "free"] /\ t \in Threads
        /\ count' = count - 1 /\ objectHeap' = objectHeap
    BY <1>0, <1>4 DEF BackSurplus
  <2>2. /\ AtWork("free")' = AtWork("free") \cup {t} /\ t \notin AtWork("free")
        /\ AtWork("calloc")' = AtWork("calloc")
    BY <1>0, <2>1 DEF AtWork
  <2>3. Cardinality(AtWork("free")') = Cardinality(AtWork("free")) + 1
    BY <1>0, <2>2, OneMore
  <2>4. QED
    BY <1>0, <2>1, <2>2, <2>3 DEF Counted
<1>5. ASSUME NEW t \in users, Free(t) PROVE Counted'
  <2>1. /\ pc[t] = "free" /\ pc' = [pc EXCEPT ![t] = "idle"] /\ t \in Threads
        /\ count' = count /\ objectHeap' = objectHeap \ {object[t]}
    BY <1>0, <1>5 DEF Free
  <2>2. /\ AtWork("free")' = AtWork("free") \ {t} /\ t \in AtWork("free")
        /\ AtWork("calloc")' = AtWork("calloc")
    BY <1>0, <2>1 DEF AtWork
  <2>3. Cardinality(AtWork("free")') = Cardinality(AtWork("free")) - 1
    BY <1>0, <2>2, OneLess
  <2>4. object[t] \in objectHeap
    BY <2>1 DEF Hands, HandOf
  <2>5. Cardinality(objectHeap') = Cardinality(objectHeap) - 1
    <3>1. IsFiniteSet(objectHeap)
      BY <1>0
    <3>2. Cardinality(objectHeap \ {object[t]}) = Cardinality(objectHeap) - 1
      BY <2>4, <3>1, FS_RemoveElement
    <3>3. QED
      BY <2>1, <3>2
  <2>6. Cardinality(AtWork("calloc")') = Cardinality(AtWork("calloc")) /\ count' = count
    BY <2>1, <2>2
  <2>7. /\ count \in Nat /\ Cardinality(objectHeap) \in Nat
        /\ Cardinality(AtWork("free")) \in Nat /\ Cardinality(AtWork("calloc")) \in Nat
    BY <1>0
  <2>8. QED
    BY <2>3, <2>5, <2>6, <2>7 DEF Counted
<1>6. ASSUME NEW t \in users, NEW old \in {"idle", "pop", "push"}, NEW st \in {"idle", "pop", "push"},
             pc[t] = old, old # st, pc' = [pc EXCEPT ![t] = st], UNCHANGED <<count, objectHeap>>
      PROVE  Counted'
  <2>1. AtWork("free")' = AtWork("free") /\ AtWork("calloc")' = AtWork("calloc")
    BY <1>0, <1>6 DEF AtWork
  <2>2. QED
    BY <1>1, <1>6, <2>1
<1>7. ASSUME NEW t \in users, GetFirst(t) \/ \E o \in Objects, s \in Shells : BackShell(t, o, s)
      PROVE  Counted'
  BY <1>6, <1>7 DEF GetFirst, BackShell
<1>8. ASSUME NEW t \in users, Pop(t) \/ Push(t) PROVE Counted'
  BY <1>6, <1>8 DEF Pop, Push
<1>9. CASE UNCHANGED vars
  BY <1>1, <1>9 DEF vars, AtWork
<1>10. QED
  BY <1>2, <1>3, <1>4, <1>5, <1>7, <1>8, <1>9 DEF Next

\* shell_memory is the number of shells in memory, and each is counted on a list or in a hand.
LEMMA ShellsStep ==
  ASSUME TypeOK, Serialized, Hands, ListsSound, ShellsCounted, ShellsBounded,
         remain_count <= max_remain_count, eshell_count <= max_eshell_count,
         shell_memory = Cardinality(shellHeap), [Next]_vars
  PROVE  /\ shell_memory' = Cardinality(shellHeap')
         /\ ShellsCounted' /\ ShellsBounded'
         /\ remain_count' <= max_remain_count' /\ eshell_count' <= max_eshell_count'
         /\ max_eshell_count >= max_remain_count => shellHeap \subseteq shellHeap'
<1> DEFINE Goal == /\ shell_memory' = Cardinality(shellHeap')
                   /\ ShellsCounted' /\ ShellsBounded'
                   /\ remain_count' <= max_remain_count' /\ eshell_count' <= max_eshell_count'
                   /\ max_eshell_count >= max_remain_count => shellHeap \subseteq shellHeap'
<1> SUFFICES Goal
  OBVIOUS
<1>0. /\ users \subseteq Threads
      /\ pc \in [Threads -> {"idle", "calloc", "pop", "push", "free"}]
      /\ shell_memory \in Nat /\ remain_count \in Nat /\ eshell_count \in Nat
      /\ max_remain_count \in Nat /\ max_eshell_count \in Nat
      /\ IsFiniteSet(shellHeap) /\ shell_memory <= max_remain_count
  BY Numbers DEF TypeOK, ShellsBounded
<1>1. ASSUME UNCHANGED <<max_remain_count, max_eshell_count, shell_memory, shellHeap,
                         remain_count, eshell_count>>,
             AtWork("push")' = AtWork("push")
      PROVE  Goal
  BY <1>1 DEF ShellsCounted, ShellsBounded
<1>2. ASSUME NEW t \in users, NEW old, NEW st, old # "push", st # "push", old # st,
             pc[t] = old, pc' = [pc EXCEPT ![t] = st],
             UNCHANGED <<max_remain_count, max_eshell_count, shell_memory, shellHeap,
                         remain_count, eshell_count>>
      PROVE  Goal
  <2>1. AtWork("push")' = AtWork("push")
    BY <1>0, <1>2 DEF AtWork
  <2>2. QED
    BY <1>1, <1>2, <2>1
<1>3. ASSUME NEW t \in users,
             \/ GetNew(t) \/ GetFirst(t) \/ Free(t)
             \/ \E o \in Objects : Calloc(t, o) \/ BackSurplus(t, o)
      PROVE  Goal
  <2> HIDE DEF Goal
  <2>1. CASE GetNew(t)
    BY <1>2, <2>1 DEF GetNew, poolVars, listVars
  <2>2. CASE GetFirst(t)
    BY <1>2, <2>2 DEF GetFirst, poolVars, listVars
  <2>3. CASE Free(t)
    BY <1>2, <2>3 DEF Free, poolVars, listVars
  <2>4. ASSUME NEW o \in Objects, Calloc(t, o) PROVE Goal
    BY <1>2, <2>4 DEF Calloc, poolVars, listVars
  <2>5. ASSUME NEW o \in Objects, BackSurplus(t, o) PROVE Goal
    BY <1>2, <2>5 DEF BackSurplus, poolVars, listVars
  <2>6. QED
    BY <1>3, <2>1, <2>2, <2>3, <2>4, <2>5
<1>4. ASSUME NEW t \in users, Pop(t) PROVE Goal
  <2>1. /\ t \in Threads /\ pc[t] = "pop" /\ pc' = [pc EXCEPT ![t] = "idle"]
        /\ remain_count' = Less(remain_count) /\ BackEshell(shell[t])
        /\ UNCHANGED <<max_remain_count, max_eshell_count>>
    BY <1>0, <1>4 DEF Pop, poolVars
  <2>2. AtWork("push") = {} /\ AtWork("push")' = {}
    BY <1>0, <2>1, Popping DEF AtWork
  <2>3. /\ shell[t] = first /\ first \in shellHeap /\ remain_count > 0
        /\ remain_count' = remain_count - 1
    BY <2>1, FirstShell, CountsInWidth
  <2>4. shell_memory = remain_count + eshell_count
    BY <1>0, <2>2 DEF ShellsCounted
  <2>5. CASE EshellsFull
    <3>1. /\ shell_memory' = shell_memory - 1 /\ shellHeap' = shellHeap \ {first}
          /\ eshell_count' = eshell_count
      BY <2>1, <2>3, <2>5 DEF BackEshell
    <3>2. Cardinality(shellHeap') = shell_memory - 1
      BY <1>0, <2>3, <3>1, FS_RemoveElement
    <3>3. ~ max_eshell_count >= max_remain_count
      BY <1>0, <2>3, <2>4, <2>5 DEF EshellsFull
    <3>4. shell_memory' = remain_count' + eshell_count'
      BY <1>0, <2>3, <2>4, <3>1
    <3>5. ShellsCounted'
      BY <1>0, <2>1, <2>2, <3>1, <3>4 DEF ShellsCounted
    <3>6. QED
      BY <1>0, <2>1, <2>3, <3>1, <3>2, <3>3, <3>5 DEF ShellsBounded
  <2>6. CASE ~ EshellsFull
    <3>1. /\ shell_memory' = shell_memory /\ shellHeap' = shellHeap
          /\ eshell_count' = eshell_count + 1 /\ eshell_count < max_eshell_count
      BY <1>0, <2>1, <2>6, CountsInWidth DEF BackEshell, EshellsFull
    <3>2. shell_memory' = remain_count' + eshell_count'
      BY <1>0, <2>3, <2>4, <3>1
    <3>3. ShellsCounted'
      BY <1>0, <2>1, <2>2, <3>1, <3>2 DEF ShellsCounted
    <3>4. QED
      BY <1>0, <2>1, <2>3, <3>1, <3>3 DEF ShellsBounded
  <2>7. QED
    BY <2>5, <2>6
<1>5. ASSUME NEW t \in users, NEW o \in Objects, NEW s \in Shells, BackShell(t, o, s)
      PROVE  Goal
  <2>1. /\ t \in Threads /\ pc[t] = "idle" /\ pc' = [pc EXCEPT ![t] = "push"] /\ MayEnter(t)
        /\ remain_count' = remain_count /\ TakeEshell(s, o) /\ remain_count < max_remain_count
        /\ UNCHANGED <<max_remain_count, max_eshell_count>>
    BY <1>0, <1>5 DEF BackShell, poolVars, Full
  <2>2. AtWork("push") = {} /\ AtWork("push")' # {}
    BY <1>0, <2>1, Alone DEF AtWork
  <2>3. shell_memory = remain_count + eshell_count
    BY <1>0, <2>2 DEF ShellsCounted
  <2>4. CASE NoEshell
    <3>1. /\ shell_memory' = shell_memory + 1 /\ shellHeap' = shellHeap \cup {s}
          /\ s \notin shellHeap /\ eshell_count = 0 /\ eshell_count' = eshell_count
      BY <2>1, <2>4 DEF TakeEshell, NoEshell
    <3>2. Cardinality(shellHeap') = shell_memory + 1
      BY <1>0, <3>1, FS_AddElement
    <3>3. shell_memory' = remain_count' + eshell_count' + 1
      BY <1>0, <2>1, <2>3, <3>1
    <3>4. ShellsCounted'
      BY <1>0, <2>1, <2>2, <3>1, <3>3 DEF ShellsCounted
    <3>5. shell_memory' <= max_remain_count
      BY <1>0, <2>1, <2>3, <3>1
    <3>6. QED
      BY <1>0, <2>1, <3>1, <3>2, <3>4, <3>5 DEF ShellsBounded
  <2>5. CASE ~ NoEshell
    <3>1. /\ shell_memory' = shell_memory /\ shellHeap' = shellHeap
          /\ eshell_count > 0 /\ eshell_count' = eshell_count - 1
      BY <1>0, <2>1, <2>5, CountsInWidth DEF TakeEshell, NoEshell
    <3>2. shell_memory' = remain_count' + eshell_count' + 1
      BY <1>0, <2>1, <2>3, <3>1
    <3>3. ShellsCounted'
      BY <1>0, <2>1, <2>2, <3>1, <3>2 DEF ShellsCounted
    <3>4. QED
      BY <1>0, <2>1, <3>1, <3>3 DEF ShellsBounded
  <2>6. QED
    BY <2>4, <2>5
<1>6. ASSUME NEW t \in users, Push(t) PROVE Goal
  <2>1. /\ t \in Threads /\ pc[t] = "push" /\ pc' = [pc EXCEPT ![t] = "idle"]
        /\ remain_count' = remain_count + 1
        /\ UNCHANGED <<max_remain_count, max_eshell_count, shell_memory, shellHeap, eshell_count>>
    BY <1>0, <1>6, RoomToPush DEF Push, poolVars
  <2>2. AtWork("push") # {} /\ AtWork("push")' = {}
    BY <1>0, <2>1, Pushing DEF AtWork
  <2>3. shell_memory = remain_count + eshell_count + 1
    BY <1>0, <2>2 DEF ShellsCounted
  <2>4. ShellsCounted'
    BY <1>0, <2>1, <2>2, <2>3 DEF ShellsCounted
  <2>5. QED
    BY <1>0, <2>1, <2>3, <2>4 DEF ShellsBounded
<1>7. CASE UNCHANGED vars
  BY <1>1, <1>7 DEF vars, poolVars, listVars, AtWork
<1>8. QED
  <2> HIDE DEF Goal
  <2> QED
    BY <1>3, <1>4, <1>5, <1>6, <1>7 DEF Next

-----------------------------------------------------------------------------
(* Where the objects are: what each step does to the spare ones. *)

\* pabuf_get takes an object off the list.
LEMMA PopMoves ==
  ASSUME TypeOK, Serialized, Hands, Owners, ListsSound, NEW t \in Threads, Pop(t)
  PROVE  /\ obj[first] \in Objects /\ obj[first] \in Pooled
         /\ owned' = [owned EXCEPT ![t] = @ \cup {obj[first]}]
         /\ Pooled' = Pooled \ {obj[first]}
         /\ Spare = Pooled /\ Spare' = Pooled'
         /\ \A u \in Threads : obj[first] \notin owned[u]
<1>1. /\ pc[t] = "pop" /\ shell[t] = first /\ first \in Shells /\ object[t] = obj[first]
      /\ obj[first] \in Objects /\ obj[first] # Null
      /\ AtWork("push") = {}
  BY FirstShell, Popping DEF Pop, Hands, HandOf
<1>2. owned' = [owned EXCEPT ![t] = @ \cup {obj[first]}]
  BY <1>1 DEF Pop
<1>3. \A s \in Shells : obj'[s] = IF s = first THEN Null ELSE obj[s]
  BY <1>1 DEF Pop, BackEshell, TypeOK
<1>4. obj[first] \in Pooled
  BY <1>1 DEF Pooled
<1>5. Pooled' = Pooled \ {obj[first]}
  <2>1. ASSUME NEW o \in Pooled' PROVE o \in Pooled \ {obj[first]}
    <3>1. PICK s \in Shells : o = obj'[s] /\ o # Null
      BY <2>1 DEF Pooled
    <3>2. s # first /\ o = obj[s]
      BY <1>3, <3>1
    <3>3. QED
      BY <1>1, <3>1, <3>2 DEF Pooled, Owners
  <2>2. ASSUME NEW o \in Pooled, o # obj[first] PROVE o \in Pooled'
    <3>1. PICK s \in Shells : o = obj[s] /\ o # Null
      BY <2>2 DEF Pooled
    <3>2. o = obj'[s]
      BY <1>3, <2>2, <3>1
    <3>3. QED
      BY <3>1, <3>2 DEF Pooled
  <2>3. QED
    BY <2>1, <2>2
<1>6. AtWork("push")' = {}
  BY <1>1 DEF Pop, AtWork, TypeOK
<1>7. Spare = Pooled /\ Spare' = Pooled'
  BY <1>1, <1>6 DEF Spare
<1>8. \A u \in Threads : pc[u] # "push"
  BY <1>1 DEF AtWork
<1>9. \A u \in Threads : obj[first] \notin owned[u]
  BY <1>1, <1>8 DEF Owners
<1>10. QED
  BY <1>1, <1>2, <1>4, <1>5, <1>7, <1>9

\* pabuf_back puts an object in a shell: it is in the pool, but still the thread's.
LEMMA BackShellMoves ==
  ASSUME TypeOK, Serialized, Owners, ListsSound,
         NEW t \in users, NEW o \in Objects, NEW s \in Shells, BackShell(t, o, s)
  PROVE  Pooled' = Pooled \cup {o} /\ Spare' = Spare
<1>1. /\ t \in Threads /\ pc[t] = "idle" /\ AtWork("push") = {} /\ InHand = {}
  BY Alone DEF BackShell, TypeOK
<1>2. obj[s] = Null /\ obj' = [obj EXCEPT ![s] = o]
  BY <1>1, TakenBare DEF BackShell
<1>3. /\ obj[s] = Null /\ o # Null
      /\ \A r \in Shells : obj'[r] = IF r = s THEN o ELSE obj[r]
  BY <1>2, NullAssumption DEF TypeOK
<1>4. Pooled' = Pooled \cup {o}
  <2>1. ASSUME NEW p \in Pooled' PROVE p \in Pooled \cup {o}
    <3>1. PICK r \in Shells : p = obj'[r] /\ p # Null
      BY <2>1 DEF Pooled
    <3>2. QED
      BY <1>3, <3>1 DEF Pooled
  <2>2. ASSUME NEW p \in Pooled PROVE p \in Pooled'
    <3>1. PICK r \in Shells : p = obj[r] /\ p # Null
      BY <2>2 DEF Pooled
    <3>2. p = obj'[r]
      BY <1>3, <3>1
    <3>3. QED
      BY <3>1, <3>2 DEF Pooled
  <2>3. o \in Pooled'
    BY <1>3 DEF Pooled
  <2>4. QED
    BY <2>1, <2>2, <2>3
<1>5. o \notin Pooled
  <2>1. \A r \in Shells : obj[r] # o
    BY <1>1 DEF Owners, BackShell
  <2>2. QED
    BY <2>1 DEF Pooled
<1>6. AtWork("push")' = {t} /\ object'[t] = o
  BY <1>1 DEF BackShell, AtWork, TypeOK
<1>7. Spare = Pooled /\ Spare' = Pooled' \ {o}
  BY <1>1, <1>6 DEF Spare
<1>8. QED
  BY <1>4, <1>5, <1>7

\* With the shell on the list the object is spare.
LEMMA PushMoves ==
  ASSUME TypeOK, Serialized, Hands, NEW t \in Threads, Push(t)
  PROVE  /\ object[t] \in owned[t] /\ object[t] \in Objects
         /\ owned' = [owned EXCEPT ![t] = @ \ {object[t]}]
         /\ Pooled' = Pooled /\ object[t] \in Pooled
         /\ Spare = Pooled \ {object[t]} /\ Spare' = Pooled
<1>1. /\ pc[t] = "push" /\ AtWork("push") = {t} /\ shell[t] \in Shells
      /\ obj[shell[t]] = object[t] /\ object[t] \in owned[t]
  BY Pushing DEF Push, Hands, HandOf
<1>2. object[t] \in Objects /\ object[t] # Null
  BY <1>1, NullAssumption DEF TypeOK
<1>3. Pooled' = Pooled /\ object[t] \in Pooled
  BY <1>1, <1>2 DEF Push, Pooled
<1>4. AtWork("push")' = {}
  BY <1>1 DEF Push, AtWork, TypeOK
<1>5. Spare = Pooled \ {object[t]} /\ Spare' = Pooled
  BY <1>1, <1>3, <1>4 DEF Spare
<1>6. QED
  BY <1>1, <1>2, <1>3, <1>5 DEF Push

\* The other steps leave the shells' objects alone.
LEMMA PooledKept ==
  ASSUME TypeOK, NEW t \in users,
         \/ GetNew(t) \/ GetFirst(t) \/ Free(t)
         \/ \E o \in Objects : Calloc(t, o) \/ BackSurplus(t, o)
  PROVE  Pooled' = Pooled /\ Spare' = Spare
<1>1. obj' = obj
  BY DEF GetNew, GetFirst, Free, Calloc, BackSurplus, listVars
<1>2. /\ AtWork("push")' = AtWork("push")
      /\ \A u \in AtWork("push") : object'[u] = object[u]
  BY DEF GetNew, GetFirst, Free, Calloc, BackSurplus, AtWork, TypeOK
<1>3. QED
  BY <1>1, <1>2 DEF Pooled, Spare

\* An object that exists is with a thread or in the pool: none is lost.
Housed == objectHeap = Pooled \cup UNION {owned[t] : t \in Threads}

LEMMA HousedStep ==
  ASSUME TypeOK, Serialized, Hands, Owners, ListsSound, Housed, [Next]_vars
  PROVE  Housed'
<1>0. users \subseteq Threads /\ owned \in [Threads -> SUBSET Objects]
  BY DEF TypeOK
<1>1. \A o : o \in objectHeap <=> o \in Pooled \/ \E u \in Threads : o \in owned[u]
  BY DEF Housed
<1>2. ASSUME \A o : o \in objectHeap' <=> o \in Pooled' \/ \E u \in Threads : o \in owned'[u]
      PROVE  Housed'
  BY <1>2 DEF Housed
<1>3. ASSUME UNCHANGED <<objectHeap, owned>>, Pooled' = Pooled PROVE Housed'
  BY <1>3 DEF Housed
<1>4. ASSUME NEW t \in users,
             GetNew(t) \/ GetFirst(t) \/ \E o \in Objects : BackSurplus(t, o)
      PROVE  Housed'
  <2>1. Pooled' = Pooled
    BY <1>4, PooledKept
  <2>2. UNCHANGED <<objectHeap, owned>>
    BY <1>4 DEF GetNew, GetFirst, BackSurplus
  <2>3. QED
    BY <1>3, <2>1, <2>2
<1>5. ASSUME NEW t \in users, NEW o \in Objects, Calloc(t, o) PROVE Housed'
  <2>1. Pooled' = Pooled
    BY <1>5, PooledKept
  <2>2. /\ t \in Threads /\ objectHeap' = objectHeap \cup {o}
        /\ \A u \in Threads : owned'[u] = IF u = t THEN owned[u] \cup {o} ELSE owned[u]
    BY <1>0, <1>5 DEF Calloc
  <2>3. \A p : (\E u \in Threads : p \in owned'[u]) <=>
                 p = o \/ \E u \in Threads : p \in owned[u]
    BY <2>2
  <2>4. QED
    BY <1>1, <1>2, <2>1, <2>2, <2>3
<1>6. ASSUME NEW t \in users, Pop(t) PROVE Housed'
  <2>1. /\ t \in Threads /\ objectHeap' = objectHeap
        /\ obj[first] \in Pooled /\ Pooled' = Pooled \ {obj[first]}
        /\ owned' = [owned EXCEPT ![t] = @ \cup {obj[first]}]
    BY <1>0, <1>6, PopMoves DEF Pop
  <2>2. \A p : (\E u \in Threads : p \in owned'[u]) <=>
                 p = obj[first] \/ \E u \in Threads : p \in owned[u]
    BY <1>0, <2>1
  <2>3. QED
    BY <1>1, <1>2, <2>1, <2>2
<1>7. ASSUME NEW t \in users, Free(t) PROVE Housed'
  <2>1. Pooled' = Pooled
    BY <1>7, PooledKept
  <2>2. /\ t \in Threads /\ pc[t] = "free" /\ object[t] \in owned[t]
        /\ objectHeap' = objectHeap \ {object[t]}
        /\ owned' = [owned EXCEPT ![t] = @ \ {object[t]}]
    BY <1>0, <1>7 DEF Free, Hands, HandOf
  <2>3. object[t] \notin Pooled
    BY <2>2 DEF Owners, Pooled
  <2>4. object[t] \in Objects /\ \A u \in Threads : u # t => object[t] \notin owned[u]
    BY <1>0, <2>2 DEF Owners
  <2>5. \A p : (\E u \in Threads : p \in owned'[u]) <=>
                 p # object[t] /\ \E u \in Threads : p \in owned[u]
    BY <1>0, <2>2, <2>4
  <2>6. QED
    BY <1>1, <1>2, <2>1, <2>2, <2>3, <2>5
<1>8. ASSUME NEW t \in users, NEW o \in Objects, NEW s \in Shells, BackShell(t, o, s)
      PROVE  Housed'
  <2>1. Pooled' = Pooled \cup {o}
    BY <1>8, BackShellMoves
  <2>2. t \in Threads /\ o \in owned[t] /\ UNCHANGED <<objectHeap, owned>>
    BY <1>0, <1>8 DEF BackShell
  <2>3. QED
    BY <1>1, <1>2, <2>1, <2>2
<1>9. ASSUME NEW t \in users, Push(t) PROVE Housed'
  <2>1. /\ t \in Threads /\ object[t] \in owned[t]
        /\ owned' = [owned EXCEPT ![t] = @ \ {object[t]}]
        /\ Pooled' = Pooled /\ object[t] \in Pooled
        /\ objectHeap' = objectHeap
    BY <1>0, <1>9, PushMoves DEF Push
  <2>2. \A p : (\E u \in Threads : p \in owned'[u]) \/ p = object[t] <=>
                 (\E u \in Threads : p \in owned[u]) \/ p = object[t]
    BY <1>0, <2>1
  <2>3. QED
    BY <1>1, <1>2, <2>1, <2>2
<1>10. CASE UNCHANGED vars
  BY <1>3, <1>10 DEF vars, listVars, Pooled
<1>11. QED
  BY <1>4, <1>5, <1>6, <1>7, <1>8, <1>9, <1>10 DEF Next

\* The list's count is the number of spare objects.
LEMMA SpareStep ==
  ASSUME TypeOK, Serialized, Hands, Owners, ListsSound, ShellsCounted, ShellsBounded,
         SpareCounted, [Next]_vars
  PROVE  SpareCounted'
<1>0. /\ users \subseteq Threads /\ remain_count \in Nat /\ IsFiniteSet(Pooled)
      /\ IsFiniteSet(Spare)
  <2>1. Pooled \subseteq Objects /\ Spare \subseteq Pooled
    BY DEF TypeOK, Pooled, Spare
  <2>2. IsFiniteSet(Pooled)
    BY <2>1, FiniteAssumption, FS_Subset
  <2>3. QED
    BY <2>1, <2>2, FS_Subset DEF TypeOK
<1>1. ASSUME Spare' = Spare, remain_count' = remain_count PROVE SpareCounted'
  BY <1>1 DEF SpareCounted
<1>2. ASSUME NEW t \in users,
             \/ GetNew(t) \/ GetFirst(t) \/ Free(t)
             \/ \E o \in Objects : Calloc(t, o) \/ BackSurplus(t, o)
      PROVE  SpareCounted'
  <2>1. remain_count' = remain_count
    BY <1>2 DEF GetNew, GetFirst, Free, Calloc, BackSurplus, listVars
  <2>2. QED
    BY <1>1, <1>2, <2>1, PooledKept
<1>3. ASSUME NEW t \in users, Pop(t) PROVE SpareCounted'
  <2>1. /\ remain_count' = remain_count - 1
        /\ obj[first] \in Spare /\ Spare' = Spare \ {obj[first]}
    BY <1>0, <1>3, PopMoves, FirstShell, CountsInWidth DEF Pop
  <2>2. Cardinality(Spare \ {obj[first]}) = Cardinality(Spare) - 1
    BY <1>0, <2>1, FS_RemoveElement
  <2>3. QED
    BY <2>1, <2>2 DEF SpareCounted
<1>4. ASSUME NEW t \in users, NEW o \in Objects, NEW s \in Shells, BackShell(t, o, s)
      PROVE  SpareCounted'
  BY <1>1, <1>4, BackShellMoves DEF BackShell
<1>5. ASSUME NEW t \in users, Push(t) PROVE SpareCounted'
  <2>1. /\ remain_count' = remain_count + 1
        /\ object[t] \notin Spare /\ Spare' = Spare \cup {object[t]}
    BY <1>0, <1>5, PushMoves, RoomToPush DEF Push
  <2>2. Cardinality(Spare \cup {object[t]}) = Cardinality(Spare) + 1
    BY <1>0, <2>1, FS_AddElement
  <2>3. QED
    BY <2>1, <2>2 DEF SpareCounted
<1>6. CASE UNCHANGED vars
  BY <1>1, <1>6 DEF vars, listVars, Spare, Pooled, AtWork
<1>7. QED
  BY <1>2, <1>3, <1>4, <1>5, <1>6 DEF Next

-----------------------------------------------------------------------------
(* The invariant. *)

LEMMA InitInv == InitSerial => IInv
<1> SUFFICES ASSUME Init, Serial PROVE IInv
  BY DEF InitSerial
<1>1. TypeOK
  BY LimitAssumption, CountModAssumption DEF Init, TypeOK
<1>2. \A st : st # "idle" => AtWork(st) = {}
  BY DEF Init, AtWork
<1>3. Serialized
  BY <1>2 DEF Init, Serial, Serialized
<1>4. Hands
  BY DEF Init, Hands, HandOf
<1>5. Owners
  BY DEF Init, Owners
<1>6. InHand = {}
  BY DEF Init, InHand
<1>7. ListsSound
  <2> DEFINE none == [i \in 1 .. 0 |-> Null]
  <2>1. none \in [1 .. 0 -> Shells]
    OBVIOUS
  <2>2. SoundBy(none, none, next, obj, Null, 0, Null, 0, {}, {})
    BY DEF Init, SoundBy, ListOf, On
  <2>3. Sound(next, obj, Null, 0, Null, 0, {}, {})
    BY <2>1, <2>2 DEF Sound
  <2>4. QED
    BY <1>6, <2>3, SoundIs DEF Init
<1>8. Pooled = {}
  BY DEF Init, Pooled
<1>9. Accounting
  <2>1. objectHeap = {} /\ shellHeap = {} /\ UNION {owned[t] : t \in Threads} = {}
    BY DEF Init
  <2>2. AtWork("free") = {} /\ AtWork("calloc") = {}
    BY <1>2
  <2>3. Counted /\ shell_memory = Cardinality(shellHeap)
    BY <2>1, <2>2, FS_EmptySet DEF Init, Counted
  <2>4. Housed
    BY <1>8, <2>1 DEF Housed
  <2>5. remain_count <= max_remain_count /\ eshell_count <= max_eshell_count
    BY <1>1 DEF Init, TypeOK
  <2>6. QED
    BY <2>3, <2>4, <2>5 DEF Accounting, Counted, Housed
<1>10. ShellsCounted /\ ShellsBounded
  BY <1>1, <1>2 DEF Init, ShellsCounted, ShellsBounded, TypeOK
<1>11. SpareCounted
  <2>1. Spare = {}
    BY <1>8 DEF Spare
  <2>2. QED
    BY <2>1, FS_EmptySet DEF Init, SpareCounted
<1>12. QED
  BY <1>1, <1>3, <1>4, <1>5, <1>7, <1>9, <1>10, <1>11 DEF IInv

LEMMA NextInv == IInv /\ [Next]_vars => IInv'
<1> SUFFICES ASSUME IInv, [Next]_vars PROVE IInv'
  OBVIOUS
<1>0. /\ TypeOK /\ Serialized /\ Hands /\ Owners /\ ListsSound /\ Accounting
      /\ ShellsCounted /\ ShellsBounded /\ SpareCounted
  BY DEF IInv
<1>1. /\ Counted /\ Housed /\ shell_memory = Cardinality(shellHeap)
      /\ remain_count <= max_remain_count /\ eshell_count <= max_eshell_count
  BY <1>0 DEF Accounting, Counted, Housed
<1>2. TypeOK'
  BY TypeStep
<1>3. Serialized' /\ Hands' /\ ListsSound'
  BY <1>0, SerializedStep, HandsStep, ListsStep
<1>4. Owners' /\ Housed' /\ SpareCounted'
  BY <1>0, <1>1, OwnersStep, HousedStep, SpareStep
<1>5. Counted'
  BY <1>0, <1>1, CountedStep DEF Housed
<1>6. /\ shell_memory' = Cardinality(shellHeap')
      /\ ShellsCounted' /\ ShellsBounded'
      /\ remain_count' <= max_remain_count' /\ eshell_count' <= max_eshell_count'
  BY <1>0, <1>1, ShellsStep
<1>7. Accounting'
  BY <1>4, <1>5, <1>6 DEF Accounting, Counted, Housed
<1>8. QED
  BY <1>2, <1>3, <1>4, <1>6, <1>7 DEF IInv

\* The invariant holds at any time of a pool that has a lock or one user.
THEOREM Invariant == SerialSpec => []IInv
BY InitInv, NextInv, PTL DEF SerialSpec

\* Every variable keeps its type; in particular no counter goes below zero
\* (pabuf.c:38, pabuf.c:64, pabuf.c:81).
THEOREM TypeCorrect == SerialSpec => []TypeOK
<1>1. IInv => TypeOK
  BY DEF IInv
<1>2. QED
  BY <1>1, Invariant, PTL

\* Both lists are what their counts say, and every shell is in one place
\* (pabuf.c:19-53, pabuf.c:72-106).
THEOREM ListsStaySound == SerialSpec => []ListsSound
<1>1. IInv => ListsSound
  BY DEF IInv
<1>2. QED
  BY <1>1, Invariant, PTL

\* The counters tell what exists, but for what is about to come or to go
\* (pabuf.c:63, pabuf.c:91), and no object is lost.
THEOREM AccountsBalance == SerialSpec => []Accounting
<1>1. IInv => Accounting
  BY DEF IInv
<1>2. QED
  BY <1>1, Invariant, PTL

\* Never more shells than objects that the pool may keep (pabuf.c:22, pabuf.c:88).
THEOREM ShellsWithinLimit == SerialSpec => []ShellsBounded
<1>1. IInv => ShellsBounded
  BY DEF IInv
<1>2. QED
  BY <1>1, Invariant, PTL

\* With limits that agree no shell is ever freed (pabuf.c:41).
THEOREM NoShellFreed == SerialSpec => ShellsKept
<1>1. IInv /\ [Next]_vars => [max_eshell_count >= max_remain_count => shellHeap \subseteq shellHeap']_vars
  BY ShellsStep DEF IInv, Accounting
<1>2. QED
  BY <1>1, Invariant, PTL DEF SerialSpec, ShellsKept

-----------------------------------------------------------------------------
(* The pool implements the store of module ObjectStore. *)

\* The instance of ObjectStore has its own copy of Cardinality, the same function.
LEMMA CardSame ==
  ASSUME NEW S
  PROVE  Store!Cardinality(S) = Cardinality(S)
BY DEF Store!Cardinality, Cardinality

\* A new pool is an empty store.
LEMMA InitMaps == Init => Store!Init
BY LimitAssumption, CountModAssumption DEF Init, Store!Init, Pooled

\* A step of the store is one of its three actions.
LEMMA StoreStep ==
  ASSUME NEW t \in Threads, NEW o \in Objects, UNCHANGED max_remain_count,
         Store!Get(t, o) \/ Store!Keep(t, o) \/ Store!Drop(t, o)
  PROVE  Store!Next
BY DEF Store!Next

\* A step of a thread gets an object, keeps it, drops it, or is one the store does not see.
LEMMA NextMaps == IInv /\ [Next]_vars => [Store!Next]_<<max_remain_count, owned, Spare>>
<1> SUFFICES ASSUME IInv, [Next]_vars
             PROVE  [Store!Next]_<<max_remain_count, owned, Spare>>
  OBVIOUS
<1>0. /\ TypeOK /\ Serialized /\ Hands /\ Owners /\ ListsSound /\ Accounting
      /\ ShellsCounted /\ ShellsBounded /\ SpareCounted
      /\ users \subseteq Threads /\ owned \in [Threads -> SUBSET Objects]
      /\ max_remain_count \in Nat /\ remain_count \in Nat /\ eshell_count \in Nat
  BY DEF IInv, TypeOK
<1> DEFINE Unseen == UNCHANGED <<max_remain_count, owned, Spare>>
<1>1. ASSUME NEW t \in users,
             GetNew(t) \/ GetFirst(t) \/ \E o \in Objects : BackSurplus(t, o)
      PROVE  Unseen
  <2>1. Spare' = Spare
    BY <1>0, <1>1, PooledKept
  <2>2. QED
    BY <1>1, <2>1 DEF GetNew, GetFirst, BackSurplus, poolVars
<1>2. ASSUME NEW t \in users, NEW o \in Objects, Calloc(t, o) PROVE Store!Next
  <2>1. /\ t \in Threads /\ o \notin objectHeap /\ UNCHANGED max_remain_count
        /\ owned' = [owned EXCEPT ![t] = @ \cup {o}]
    BY <1>0, <1>2 DEF Calloc, poolVars
  <2>2. o \notin Spare /\ \A u \in Threads : o \notin owned[u]
    BY <1>0, <2>1 DEF Accounting, Spare
  <2>3. Spare' = Spare \ {o}
    BY <1>0, <1>2, <2>2, PooledKept
  <2>4. Store!Get(t, o)
    BY <2>1, <2>2, <2>3 DEF Store!Get, Spare
  <2>5. QED
    BY <2>1, <2>4, StoreStep
<1>3. ASSUME NEW t \in users, Pop(t) PROVE Store!Next
  <2>1. t \in Threads /\ UNCHANGED max_remain_count
    BY <1>0, <1>3 DEF Pop, poolVars
  <2>2. /\ obj[first] \in Objects
        /\ owned' = [owned EXCEPT ![t] = @ \cup {obj[first]}]
        /\ Spare' = Spare \ {obj[first]}
        /\ \A u \in Threads : obj[first] \notin owned[u]
    BY <1>0, <1>3, <2>1, PopMoves
  <2>3. PICK o \in Objects : o = obj[first]
    BY <2>2
  <2>4. Store!Get(t, o)
    BY <2>1, <2>2, <2>3 DEF Store!Get, Spare
  <2>5. QED
    BY <2>1, <2>4, StoreStep
<1>4. ASSUME NEW t \in users, Free(t) PROVE Store!Next
  <2>1. /\ t \in Threads /\ object[t] \in owned[t] /\ UNCHANGED max_remain_count
        /\ owned' = [owned EXCEPT ![t] = @ \ {object[t]}]
    BY <1>0, <1>4 DEF Free, Hands, HandOf, poolVars
  <2>2. Spare' = Spare
    BY <1>0, <1>4, PooledKept
  <2>3. PICK o \in Objects : o = object[t]
    BY <1>0, <2>1
  <2>4. Store!Drop(t, o)
    BY <2>1, <2>2, <2>3 DEF Store!Drop, Spare
  <2>5. QED
    BY <2>1, <2>4, StoreStep
<1>5. ASSUME NEW t \in users, NEW o \in Objects, NEW s \in Shells, BackShell(t, o, s)
      PROVE  Unseen
  <2>1. Spare' = Spare
    BY <1>0, <1>5, BackShellMoves
  <2>2. QED
    BY <1>5, <2>1 DEF BackShell, poolVars
<1>6. ASSUME NEW t \in users, Push(t) PROVE Store!Next
  <2>1. t \in Threads /\ UNCHANGED max_remain_count /\ pc[t] = "push"
    BY <1>0, <1>6 DEF Push, poolVars
  <2>2. /\ object[t] \in owned[t] /\ object[t] \in Objects
        /\ owned' = [owned EXCEPT ![t] = @ \ {object[t]}]
        /\ Spare' = Spare \cup {object[t]}
    BY <1>0, <1>6, <2>1, PushMoves
  <2>3. remain_count < max_remain_count
    BY <1>0, <2>1, RoomToPush
  <2>4. Store!Cardinality(Spare) < max_remain_count
    BY <1>0, <2>3, CardSame DEF SpareCounted
  <2>5. PICK o \in Objects : o = object[t]
    BY <2>2
  <2>6. Store!Keep(t, o)
    BY <2>1, <2>2, <2>4, <2>5 DEF Store!Keep, Spare
  <2>7. QED
    BY <2>1, <2>6, StoreStep
<1>7. CASE UNCHANGED vars
  BY <1>7 DEF vars, poolVars, listVars, Spare, Pooled, AtWork
<1>8. QED
  BY <1>1, <1>2, <1>3, <1>4, <1>5, <1>6, <1>7 DEF Next

\* Whatever the threads of a pool with a lock do, or the only user of one without, and in
\* whatever order, an object that a thread gets from the pool is nobody else's until it is
\* given back, and the pool keeps no more than its limit (pabuf.c:55-108).
THEOREM PoolImplementsStore == SerialSpec => StoreSafe
<1>1. IInv /\ [Next]_vars =>
        [Store!Next]_<<max_remain_count, owned, Pooled \ {object[t] : t \in AtWork("push")}>>
  BY NextMaps DEF Spare
<1>2. QED
  BY <1>1, InitMaps, Invariant, PTL DEF SerialSpec, InitSerial, StoreSafe, Store!Spec
=============================================================================
