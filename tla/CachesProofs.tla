---------------------------- MODULE CachesProofs ----------------------------
(***************************************************************************)
(* Proofs about ManifestCache and DiskCache, for any number of requests,   *)
(* manifests, identities, download tasks and blobs, and any limits.        *)
(***************************************************************************)
EXTENDS MCCaches, FiniteSetTheorems, TLAPS

-----------------------------------------------------------------------------
(* Sums.  MapThenSumSet is a recursive function on the subsets of a set,    *)
(* and what it computes has to be shown by induction on finite sets: here   *)
(* always by looking at a smallest set for which a claim fails.             *)

Chosen(s) == CHOOSE x \in s : TRUE

(* g sums the weights w of the elements, for every subset of U. *)
IsSum(g, w, U) ==
    g = [s \in SUBSET U |-> IF s = {} THEN 0 ELSE w[Chosen(s)] + g[s \ {Chosen(s)}]]

(* A set of finite sets has a smallest one. *)
LEMMA Smallest ==
    ASSUME NEW U, IsFiniteSet(U), NEW T \in SUBSET (SUBSET U), T # {}
    PROVE  \E t \in T : \A s \in SUBSET t : s # t => s \notin T
  <1>1. IsWellFoundedOn(StrictSubsetOrdering(U), SUBSET U)
    BY FS_StrictSubsetOrderingWellFounded, FS_FiniteSubsetsOfFinite
  <1>2. PICK t \in T : \A s \in T : <<s, t>> \notin StrictSubsetOrdering(U)
    BY <1>1, WFMin
  <1>. QED  BY <1>2 DEF StrictSubsetOrdering

(* One step of a sum. *)
LEMMA SumStep ==
    ASSUME NEW g, NEW w, NEW U, IsSum(g, w, U), NEW s \in SUBSET U
    PROVE  /\ s = {} => g[s] = 0
           /\ s # {} => Chosen(s) \in s /\ g[s] = w[Chosen(s)] + g[s \ {Chosen(s)}]
  <1>1. s # {} => Chosen(s) \in s
    BY DEF Chosen
  <1>. QED  BY <1>1 DEF IsSum

(* Sums over two sets agree where the weights do. *)
LEMMA SumsAgree ==
    ASSUME NEW A, NEW B, IsFiniteSet(A), NEW v, NEW w, NEW f, NEW g,
           IsSum(f, v, A), IsSum(g, w, B),
           NEW s \in SUBSET A, s \in SUBSET B, \A x \in s : v[x] = w[x]
    PROVE  f[s] = g[s]
  <1>. DEFINE T == {t \in SUBSET s : f[t] # g[t]}
  <1>1. SUFFICES ASSUME T # {}  PROVE FALSE
    OBVIOUS
  <1>2. IsFiniteSet(s) /\ T \in SUBSET (SUBSET s)
    BY FS_Subset
  <1>3. PICK t \in T : \A u \in SUBSET t : u # t => u \notin T
    <2>. HIDE DEF T
    <2>. QED  BY <1>1, <1>2, Smallest
  <1>4. t \in SUBSET A /\ t \in SUBSET B /\ t \in SUBSET s
    OBVIOUS
  <1>5. t # {}
    BY <1>3, <1>4, SumStep
  <1>6. Chosen(t) \in t /\ f[t \ {Chosen(t)}] = g[t \ {Chosen(t)}]
    BY <1>3, <1>4, <1>5, SumStep
  <1>7. f[t] = v[Chosen(t)] + f[t \ {Chosen(t)}]
    BY <1>4, <1>5, SumStep
  <1>8. g[t] = w[Chosen(t)] + g[t \ {Chosen(t)}]
    BY <1>4, <1>5, SumStep
  <1>. QED  BY <1>3, <1>4, <1>6, <1>7, <1>8

(* The recursive definition has a solution. *)
LEMMA SumExists ==
    ASSUME NEW U, IsFiniteSet(U), NEW w
    PROVE  \E g : IsSum(g, w, U)
  <1>. DEFINE T == {t \in SUBSET U : ~\E g : IsSum(g, w, t)}
  <1>1. SUFFICES ASSUME T # {}  PROVE FALSE
    OBVIOUS
  <1>2. PICK t \in T : \A u \in SUBSET t : u # t => u \notin T
    <2>1. T \in SUBSET (SUBSET U)
      OBVIOUS
    <2>. HIDE DEF T
    <2>. QED  BY <1>1, <2>1, Smallest
  <1>. DEFINE h(s) == CHOOSE g : IsSum(g, w, s)
              rest(s) == s \ {Chosen(s)}
              f == [s \in SUBSET t |-> IF s = {} THEN 0 ELSE w[Chosen(s)] + h(rest(s))[rest(s)]]
  <1>3. ASSUME NEW s \in SUBSET t, s # t  PROVE IsSum(h(s), w, s) /\ IsFiniteSet(s)
    <2>1. \E g : IsSum(g, w, s)
      BY <1>2, <1>3
    <2>. QED  BY <2>1, FS_Subset
  <1>4. ASSUME NEW s \in SUBSET t, s # {}  PROVE rest(s) \in SUBSET t /\ rest(s) # t /\ rest(s) \in SUBSET s
    BY <1>4 DEF Chosen
  <1>. HIDE DEF h
  <1>5. ASSUME NEW u \in SUBSET t, u # t  PROVE f[u] = h(u)[u]
    <2>1. IsSum(h(u), w, u) /\ IsFiniteSet(u)
      BY <1>3, <1>5
    <2>2. CASE u = {}
      BY <2>1, <2>2, SumStep
    <2>3. CASE u # {}
      <3>1. h(u)[u] = w[Chosen(u)] + h(u)[rest(u)]
        BY <2>1, <2>3, SumStep
      <3>2. rest(u) \in SUBSET t /\ rest(u) # t /\ rest(u) \in SUBSET u
        BY <1>4, <2>3
      <3>3. IsSum(h(rest(u)), w, rest(u))
        BY <1>3, <3>2
      <3>4. h(u)[rest(u)] = h(rest(u))[rest(u)]
        <4>. DEFINE r == rest(u)
        <4>1. IsSum(h(r), w, r) /\ r \in SUBSET u /\ r \in SUBSET r /\ \A x \in r : w[x] = w[x]
          BY <3>2, <3>3
        <4>. HIDE DEF r, rest, f
        <4>2. h(u)[r] = h(r)[r]
          BY <2>1, <4>1, SumsAgree
        <4>. QED  BY <4>2 DEF r
      <3>. QED  BY <2>3, <3>1, <3>4
    <2>. QED  BY <2>2, <2>3
  <1>6. ASSUME NEW s \in SUBSET t, s # {}  PROVE f[s] = w[Chosen(s)] + f[rest(s)]
    <2>1. f[rest(s)] = h(rest(s))[rest(s)]
      BY <1>4, <1>5, <1>6
    <2>. QED  BY <1>6, <2>1
  <1>7. f[{}] = 0 /\ DOMAIN f = SUBSET t
    OBVIOUS
  <1>8. f = [s \in DOMAIN f |-> f[s]]
    OBVIOUS
  <1>. HIDE DEF f
  <1>9. IsSum(f, w, t)
    BY <1>6, <1>7, <1>8 DEF IsSum
  <1>. QED  BY <1>2, <1>9

(* A sum of natural numbers is one. *)
LEMMA SumNat ==
    ASSUME NEW U, IsFiniteSet(U), NEW w, \A x \in U : w[x] \in Nat,
           NEW g, IsSum(g, w, U), NEW s \in SUBSET U
    PROVE  g[s] \in Nat
  <1>. DEFINE T == {t \in SUBSET U : g[t] \notin Nat}
  <1>1. SUFFICES ASSUME T # {}  PROVE FALSE
    OBVIOUS
  <1>2. PICK t \in T : \A u \in SUBSET t : u # t => u \notin T
    <2>1. T \in SUBSET (SUBSET U)
      OBVIOUS
    <2>. HIDE DEF T
    <2>. QED  BY <1>1, <2>1, Smallest
  <1>3. t # {}
    <2>1. t \in SUBSET U /\ g[t] \notin Nat
      OBVIOUS
    <2>2. t = {} => g[t] = 0
      BY <2>1, SumStep
    <2>. QED  BY <2>1, <2>2
  <1>4. Chosen(t) \in t /\ g[t] = w[Chosen(t)] + g[t \ {Chosen(t)}]
    BY <1>3, SumStep
  <1>5. g[t \ {Chosen(t)}] \in Nat
    BY <1>2, <1>4
  <1>. QED  BY <1>2, <1>4, <1>5

(* The order in which the elements are taken does not matter. *)
LEMMA SumRemove ==
    ASSUME NEW U, IsFiniteSet(U), NEW w, \A x \in U : w[x] \in Nat,
           NEW g, IsSum(g, w, U), NEW s \in SUBSET U, NEW x \in s
    PROVE  g[s] = w[x] + g[s \ {x}]
  <1>. DEFINE T == {t \in SUBSET U : \E y \in t : g[t] # w[y] + g[t \ {y}]}
  <1>1. SUFFICES ASSUME T # {}  PROVE FALSE
    OBVIOUS
  <1>2. PICK t \in T : \A u \in SUBSET t : u # t => u \notin T
    <2>1. T \in SUBSET (SUBSET U)
      OBVIOUS
    <2>. HIDE DEF T
    <2>. QED  BY <1>1, <2>1, Smallest
  <1>3. PICK y \in t : g[t] # w[y] + g[t \ {y}]
    BY <1>2
  <1>. DEFINE c == Chosen(t)
              both == t \ {c, y}
  <1>4. c \in t /\ g[t] = w[c] + g[t \ {c}]
    BY <1>3, SumStep
  <1>5. y # c
    BY <1>3, <1>4
  <1>6. g[t \ {c}] = w[y] + g[both]
    <2>1. t \ {c} \notin T /\ y \in t \ {c} /\ (t \ {c}) \ {y} = both
      BY <1>2, <1>4, <1>5
    <2>. QED  BY <2>1
  <1>7. g[t \ {y}] = w[c] + g[both]
    <2>1. t \ {y} \notin T /\ c \in t \ {y} /\ (t \ {y}) \ {c} = both
      BY <1>2, <1>4, <1>5
    <2>. QED  BY <2>1
  <1>8. w[c] \in Nat /\ w[y] \in Nat /\ g[both] \in Nat
    BY <1>4, SumNat
  <1>. HIDE DEF c, both
  <1>. QED  BY <1>3, <1>4, <1>6, <1>7, <1>8

-----------------------------------------------------------------------------
(* The sizes of sets of files *)

Sized(S) == IsFiniteSet(S) /\ \A f \in S : f.size \in Nat
SizesOf(S) == [f \in S |-> f.size]

(* Bytes is a sum in the sense above. *)
LEMMA BytesSum ==
    ASSUME NEW S, IsFiniteSet(S)
    PROVE  \E g : IsSum(g, SizesOf(S), S) /\ Disk!Bytes(S) = g[S]
  <1>. DEFINE P(g) == g = [s \in SUBSET S |-> IF s = {} THEN 0
                               ELSE (CHOOSE x \in s : TRUE).size + g[s \ {CHOOSE x \in s : TRUE}]]
  <1>1. \A g : IsSum(g, SizesOf(S), S) <=> P(g)
    BY DEF IsSum, Chosen, SizesOf
  <1>2. Disk!Bytes(S) = (CHOOSE g : P(g))[S]
    BY Zenon DEF Disk!Bytes, Disk!MapThenSumSet, Disk!MapThenFoldSet
  <1>. HIDE DEF P
  <1>3. \E g : P(g)
    BY <1>1, SumExists
  <1>4. P(CHOOSE g : P(g))
    BY <1>3
  <1>. QED  BY <1>1, <1>2, <1>4

(* No files have no bytes. *)
LEMMA BytesEmpty == Disk!Bytes({}) = 0
  <1>1. PICK g : IsSum(g, SizesOf({}), {}) /\ Disk!Bytes({}) = g[{}]
    BY BytesSum, FS_EmptySet
  <1>. QED  BY <1>1, SumStep

(* The bytes of a set of files are a number. *)
LEMMA BytesNat ==
    ASSUME NEW S, Sized(S)
    PROVE  Disk!Bytes(S) \in Nat
  <1>1. PICK g : IsSum(g, SizesOf(S), S) /\ Disk!Bytes(S) = g[S]
    BY BytesSum DEF Sized
  <1>2. \A x \in S : SizesOf(S)[x] \in Nat
    BY DEF Sized, SizesOf
  <1>. QED  BY <1>1, <1>2, SumNat DEF Sized

(* Another file adds its size. *)
LEMMA BytesAdd ==
    ASSUME NEW S, Sized(S), NEW x, x \notin S, x.size \in Nat
    PROVE  /\ Sized(S \cup {x})
           /\ Disk!Bytes(S \cup {x}) = Disk!Bytes(S) + x.size
  <1>. DEFINE R == S \cup {x}
  <1>1. Sized(R)
    BY FS_AddElement DEF Sized
  <1>2. PICK g : IsSum(g, SizesOf(R), R) /\ Disk!Bytes(R) = g[R]
    BY <1>1, BytesSum DEF Sized
  <1>3. PICK h : IsSum(h, SizesOf(S), S) /\ Disk!Bytes(S) = h[S]
    BY BytesSum DEF Sized
  <1>4. \A y \in R : SizesOf(R)[y] \in Nat /\ SizesOf(R)[y] = y.size
    BY <1>1 DEF Sized, SizesOf
  <1>5. \A y \in S : SizesOf(R)[y] = SizesOf(S)[y]
    BY DEF SizesOf
  <1>6. R \ {x} = S /\ x \in R /\ S \in SUBSET R /\ S \in SUBSET S /\ R \in SUBSET R
    OBVIOUS
  <1>. HIDE DEF R
  <1>7. g[R] = SizesOf(R)[x] + g[R \ {x}]
    BY <1>1, <1>2, <1>4, <1>6, SumRemove DEF Sized
  <1>8. g[S] = h[S]
    BY <1>1, <1>2, <1>3, <1>5, <1>6, SumsAgree DEF Sized
  <1>9. Disk!Bytes(S) \in Nat
    BY BytesNat
  <1>10. Disk!Bytes(R) = Disk!Bytes(S) + x.size
    <2>1. g[R] = x.size + g[S]
      BY <1>4, <1>6, <1>7
    <2>2. Disk!Bytes(R) = x.size + Disk!Bytes(S)
      BY <1>2, <1>3, <1>8, <2>1
    <2>. QED  BY <1>9, <2>2
  <1>. QED  BY <1>1, <1>10 DEF R

(* A file less takes its size away. *)
LEMMA BytesRemove ==
    ASSUME NEW S, Sized(S), NEW x \in S
    PROVE  /\ Sized(S \ {x})
           /\ Disk!Bytes(S \ {x}) = Disk!Bytes(S) - x.size
           /\ Disk!Bytes(S) \in Nat /\ x.size \in Nat
  <1>. DEFINE R == S \ {x}
  <1>1. Sized(R) /\ x.size \in Nat /\ x \notin R /\ R \cup {x} = S
    BY FS_RemoveElement DEF Sized
  <1>. HIDE DEF R
  <1>2. Disk!Bytes(R \cup {x}) = Disk!Bytes(R) + x.size
    BY <1>1, BytesAdd
  <1>3. Disk!Bytes(R) \in Nat /\ Disk!Bytes(S) \in Nat
    BY <1>1, BytesNat
  <1>4. Disk!Bytes(R) = Disk!Bytes(S) - x.size
    BY <1>1, <1>2, <1>3
  <1>. QED  BY <1>1, <1>3, <1>4 DEF R

(* Disjoint sets of files. *)
LEMMA BytesUnion ==
    ASSUME NEW P, NEW Q, Sized(P), Sized(Q), P \cap Q = {}
    PROVE  Disk!Bytes(P \cup Q) = Disk!Bytes(P) + Disk!Bytes(Q)
  <1>. DEFINE T == {q \in SUBSET Q : Disk!Bytes(P \cup q) # Disk!Bytes(P) + Disk!Bytes(q)}
  <1>1. SUFFICES ASSUME T # {}  PROVE FALSE
    OBVIOUS
  <1>2. PICK q \in T : \A u \in SUBSET q : u # q => u \notin T
    <2>1. T \in SUBSET (SUBSET Q)
      OBVIOUS
    <2>. HIDE DEF T
    <2>. QED  BY <1>1, <2>1, Smallest DEF Sized
  <1>3. q \in SUBSET Q /\ Disk!Bytes(P \cup q) # Disk!Bytes(P) + Disk!Bytes(q)
    BY <1>2
  <1>4. Disk!Bytes(P) \in Nat
    BY BytesNat
  <1>5. PICK x \in q : TRUE
    <2>1. CASE q = {}
      <3>1. P \cup q = P
        BY <2>1
      <3>. QED  BY <1>3, <1>4, <2>1, <3>1, BytesEmpty
    <2>. QED  BY <2>1
  <1>. DEFINE r == q \ {x}
              pr == P \cup r
  <1>6. /\ Sized(r) /\ Sized(pr)
        /\ x \notin r /\ x \notin pr /\ x.size \in Nat
        /\ r \cup {x} = q /\ pr \cup {x} = P \cup q
    <2>1. IsFiniteSet(r)
      BY <1>3, FS_Subset DEF Sized
    <2>2. IsFiniteSet(pr)
      BY <2>1, FS_Union DEF Sized
    <2>. QED  BY <1>3, <1>5, <2>1, <2>2 DEF Sized
  <1>7. Disk!Bytes(pr) = Disk!Bytes(P) + Disk!Bytes(r)
    <2>1. r \notin T /\ r \in SUBSET Q
      BY <1>2, <1>3, <1>5
    <2>. QED  BY <2>1
  <1>. HIDE DEF r, pr
  <1>8. Disk!Bytes(q) = Disk!Bytes(r) + x.size /\ Disk!Bytes(P \cup q) = Disk!Bytes(pr) + x.size
    BY <1>6, BytesAdd
  <1>9. Disk!Bytes(r) \in Nat
    BY <1>6, BytesNat
  <1>. QED  BY <1>3, <1>4, <1>6, <1>7, <1>8, <1>9

(* Fewer files have no more bytes. *)
LEMMA BytesMonotone ==
    ASSUME NEW Q, Sized(Q), NEW P \in SUBSET Q
    PROVE  Sized(P) /\ Disk!Bytes(P) <= Disk!Bytes(Q)
  <1>. DEFINE R == Q \ P
  <1>1. Sized(P) /\ Sized(R) /\ P \cap R = {} /\ P \cup R = Q
    BY FS_Subset, FS_Difference DEF Sized
  <1>. HIDE DEF R
  <1>2. Disk!Bytes(P \cup R) = Disk!Bytes(P) + Disk!Bytes(R)
    BY <1>1, BytesUnion
  <1>. QED  BY <1>1, <1>2, BytesNat

-----------------------------------------------------------------------------
(* The counter of the blob cache *)

Records == [id : Nat, size : Sizes, blob : BOOLEAN]

DiskTypes ==
    /\ files \subseteq Records /\ IsFiniteSet(files)
    /\ written \in Nat /\ on_disk \in Nat /\ total \in Nat /\ phantom \in Nat
    /\ writer \in [Writers -> {"idle", "committed", "evict", "scan", "load", "remove"}]
    /\ blob \in [Writers -> SUBSET Records]
    /\ lock \in Writers \cup {None, "clear"}
    /\ IsFiniteSet(Disk!Uncounted)

(* Files have their ids from the counter; what a task has to count is its   *)
(* own, and a blob.                                                         *)
OwnFiles ==
    /\ \A f \in files : f.id <= written
    /\ \A w \in Writers : \A f \in blob[w] : f.id <= written /\ f.blob
    /\ \A w \in Writers : writer[w] # "committed" => blob[w] = {}
    /\ \A w \in Writers : writer[w] = "committed" => \E f \in blob[w] : blob[w] = {f}
    /\ \A v, w \in Writers : v # w => blob[v] \cap blob[w] = {}

(* evict_lock belongs to the one task that evicts. *)
LockOwned ==
    \A w \in Writers : lock = w <=> writer[w] \in {"scan", "load", "remove"}

(* Counted so far: the counter, or the evictor's copy once it removes. *)
Removing == \E w \in Writers : writer[w] = "remove"
Counted == IF Removing THEN total ELSE on_disk

(* What is counted and what will be is there, but for what clear took.      *)
(* While clear removes files nothing is promised.                           *)
CountedIsThere ==
    lock # "clear" => Counted + Disk!Bytes(Disk!Uncounted) <= Disk!Bytes(Disk!Blobs) + phantom

DiskInv == DiskTypes /\ OwnFiles /\ LockOwned /\ CountedIsThere

(* What the proofs use of the constants. *)
LEMMA DiskConstants ==
    /\ None \notin Writers /\ "clear" \notin Writers \cup {None}
    /\ MaxDisk \in Nat /\ Sizes \subseteq Nat
  BY DiskAssumption DEF DiskAssumption, Disk!CacheAssumption

(* Files on disk and files to be counted can be summed up. *)
LEMMA DiskSized ==
    ASSUME DiskTypes
    PROVE  /\ Sized(files) /\ Sized(Disk!Blobs) /\ Sized(Disk!Uncounted)
           /\ Disk!Blobs \subseteq files /\ Disk!Uncounted \subseteq Records
  <1>1. Disk!Blobs \subseteq files /\ Disk!Uncounted \subseteq Records
    BY DEF DiskTypes, Disk!Blobs, Disk!Uncounted
  <1>2. \A f \in Records : f.size \in Nat
    BY DiskConstants DEF Records
  <1>. QED  BY <1>1, <1>2, FS_Subset DEF DiskTypes, Sized

(* A step that moves a task and the lock, and leaves the files, the counter *)
(* and what is to be counted alone.                                         *)
LEMMA DiskMoves ==
    ASSUME DiskInv, NEW w \in Writers,
           NEW l \in {"idle", "scan", "load", "remove"}, writer[w] \in {"evict", "scan", "load"},
           writer' = [writer EXCEPT ![w] = l],
           lock' \in Writers \cup {None},
           lock' = w <=> l \in {"scan", "load", "remove"},
           \A v \in Writers : v # w => (lock' = v <=> lock = v),
           l = "remove" => total' = on_disk,
           l # "remove" => total' = total,
           lock # "clear",
           UNCHANGED <<files, written, on_disk, blob, phantom>>
    PROVE  DiskInv'
  <1>. USE DiskConstants
  <1>1. Disk!Uncounted' = Disk!Uncounted /\ Disk!Blobs' = Disk!Blobs
    BY DEF Disk!Uncounted, Disk!Blobs
  <1>2. DiskTypes'
    BY <1>1 DEF DiskInv, DiskTypes
  <1>3. OwnFiles'
    BY DEF DiskInv, DiskTypes, OwnFiles
  <1>4. LockOwned'
    BY DEF DiskInv, DiskTypes, LockOwned
  <1>5. Counted' = Counted
    <2>1. l = "remove" => ~Removing /\ Removing'
      BY DEF DiskInv, DiskTypes, LockOwned, Removing
    <2>2. l # "remove" => (Removing' <=> Removing)
      BY DEF DiskInv, DiskTypes, Removing
    <2>. QED  BY <2>1, <2>2 DEF Counted
  <1>6. CountedIsThere'
    BY <1>1, <1>5 DEF DiskInv, CountedIsThere
  <1>. QED  BY <1>2, <1>3, <1>4, <1>6 DEF DiskInv

(* A new file gets an id nobody has. *)
LEMMA NewFileIsNew ==
    ASSUME DiskInv, NEW z \in Sizes, NEW b \in BOOLEAN
    PROVE  /\ Disk!NewFile(z, b) \in Records
           /\ Disk!NewFile(z, b).size \in Nat /\ Disk!NewFile(z, b).blob = b
           /\ Disk!NewFile(z, b).id = written + 1
           /\ Disk!NewFile(z, b) \notin files /\ Disk!NewFile(z, b) \notin Disk!Uncounted
  <1>. DEFINE f == Disk!NewFile(z, b)
  <1>1. f \in Records /\ f.size \in Nat /\ f.blob = b /\ f.id = written + 1
    BY DiskConstants DEF Disk!NewFile, Records, DiskInv, DiskTypes
  <1>. HIDE DEF f
  <1>2. f \notin files /\ f \notin Disk!Uncounted
    BY <1>1 DEF DiskInv, DiskTypes, OwnFiles, Disk!Uncounted, Records
  <1>. QED  BY <1>1, <1>2 DEF f

(* A blob appears: it is there, and it is to be counted. *)
LEMMA RenameInv ==
    ASSUME DiskInv, NEW w \in Writers, NEW z \in Sizes, Disk!Rename(w, z)
    PROVE  DiskInv'
  <1>. USE DiskConstants
  <1>. DEFINE f == Disk!NewFile(z, TRUE)
  <1>1. /\ f \in Records /\ f.size \in Nat /\ f.blob /\ f.id = written + 1
        /\ f \notin files /\ f \notin Disk!Uncounted
    BY NewFileIsNew
  <1>2. /\ writer[w] = "idle" /\ written' = written + 1 /\ files' = files \cup {f}
        /\ blob' = [blob EXCEPT ![w] = {f}] /\ writer' = [writer EXCEPT ![w] = "committed"]
        /\ UNCHANGED <<on_disk, lock, total, phantom>>
    BY DEF Disk!Rename, Disk!Write, Disk!Goto
  <1>. HIDE DEF f
  <1>3. Disk!Blobs' = Disk!Blobs \cup {f} /\ f \notin Disk!Blobs
    BY <1>1, <1>2 DEF Disk!Blobs
  <1>4. blob[w] = {}
    BY <1>2 DEF DiskInv, OwnFiles
  <1>5. Disk!Uncounted' = Disk!Uncounted \cup {f}
    BY <1>2, <1>4 DEF Disk!Uncounted, DiskInv, DiskTypes
  <1>6. DiskTypes'
    <2>1. IsFiniteSet(files') /\ IsFiniteSet(Disk!Uncounted')
      BY <1>2, <1>5, FS_AddElement DEF DiskInv, DiskTypes
    <2>2. blob' \in [Writers -> SUBSET Records] /\ files' \subseteq Records
      BY <1>1, <1>2 DEF DiskInv, DiskTypes
    <2>. QED  BY <1>2, <2>1, <2>2 DEF DiskInv, DiskTypes
  <1>7. OwnFiles'
    <2>1. \A g \in files \cup Disk!Uncounted : g.id \in Nat /\ g.id <= written
      BY DEF DiskInv, DiskTypes, OwnFiles, Disk!Uncounted, Records
    <2>2. \A v \in Writers : v # w => blob'[v] = blob[v] /\ writer'[v] = writer[v] /\ f \notin blob[v]
      BY <1>1, <1>2 DEF DiskInv, DiskTypes, Disk!Uncounted
    <2>3. blob'[w] = {f} /\ writer'[w] = "committed"
      BY <1>2 DEF DiskInv, DiskTypes
    <2>4. \A v \in Writers : \A g \in blob'[v] : g.id <= written' /\ g.blob
      BY <1>1, <1>2, <2>1, <2>2, <2>3 DEF DiskInv, DiskTypes, OwnFiles, Disk!Uncounted
    <2>5. \A g \in files' : g.id <= written'
      BY <1>1, <1>2, <2>1 DEF DiskInv, DiskTypes
    <2>. QED  BY <2>2, <2>3, <2>4, <2>5 DEF DiskInv, OwnFiles
  <1>8. LockOwned' /\ Counted' = Counted
    BY <1>2 DEF DiskInv, DiskTypes, LockOwned, Counted, Removing
  <1>9. CountedIsThere'
    <2>1. /\ Disk!Bytes(Disk!Blobs') = Disk!Bytes(Disk!Blobs) + f.size
          /\ Disk!Bytes(Disk!Uncounted') = Disk!Bytes(Disk!Uncounted) + f.size
      BY <1>1, <1>3, <1>5, BytesAdd, DiskSized DEF DiskInv
    <2>2. Disk!Bytes(Disk!Blobs) \in Nat /\ Disk!Bytes(Disk!Uncounted) \in Nat /\ Counted \in Nat /\ phantom \in Nat
      BY BytesNat, DiskSized DEF DiskInv, DiskTypes, Counted
    <2>. QED  BY <1>1, <1>2, <1>8, <2>1, <2>2 DEF DiskInv, CountedIsThere
  <1>. QED  BY <1>6, <1>7, <1>8, <1>9 DEF DiskInv

(* A blob is counted: nothing is added that was not to be. *)
LEMMA CommittedInv ==
    ASSUME DiskInv, NEW w \in Writers, Disk!committed(w)
    PROVE  DiskInv'
  <1>. USE DiskConstants
  <1>1. /\ writer[w] = "committed" /\ on_disk' = on_disk + Disk!Bytes(blob[w])
        /\ blob' = [blob EXCEPT ![w] = {}]
        /\ \E l \in {"evict", "idle"} : writer' = [writer EXCEPT ![w] = l]
        /\ UNCHANGED <<files, written, lock, total, phantom>>
    BY DEF Disk!committed, Disk!Goto
  <1>2. PICK f \in blob[w] : blob[w] = {f}
    BY <1>1 DEF DiskInv, OwnFiles
  <1>3. f \in Disk!Uncounted /\ Disk!Uncounted' = Disk!Uncounted \ {f}
    <2>1. \A v \in Writers : v # w => f \notin blob[v] /\ blob'[v] = blob[v]
      BY <1>1, <1>2 DEF DiskInv, DiskTypes, OwnFiles
    <2>2. blob'[w] = {}
      BY <1>1 DEF DiskInv, DiskTypes
    <2>. QED  BY <1>2, <2>1, <2>2 DEF Disk!Uncounted
  <1>4. Disk!Blobs' = Disk!Blobs
    BY <1>1 DEF Disk!Blobs
  <1>5. /\ f.size \in Nat /\ Disk!Bytes(Disk!Uncounted) \in Nat
        /\ Disk!Bytes(Disk!Uncounted') = Disk!Bytes(Disk!Uncounted) - f.size
    BY <1>3, BytesRemove, DiskSized DEF DiskInv
  <1>6. Disk!Bytes(blob[w]) = f.size
    <2>1. Sized({}) /\ f \notin {} /\ {} \cup {f} = blob[w]
      BY <1>2, FS_EmptySet DEF Sized
    <2>2. Disk!Bytes({} \cup {f}) = Disk!Bytes({}) + f.size
      BY <1>5, <2>1, BytesAdd
    <2>3. Disk!Bytes(blob[w]) = 0 + f.size
      BY <2>1, <2>2, BytesEmpty
    <2>. QED  BY <1>5, <2>3
  <1>7. DiskTypes'
    <2>1. IsFiniteSet(Disk!Uncounted') /\ on_disk' \in Nat
      BY <1>1, <1>3, <1>5, <1>6, FS_RemoveElement DEF DiskInv, DiskTypes
    <2>. QED  BY <1>1, <2>1 DEF DiskInv, DiskTypes
  <1>8. OwnFiles'
    BY <1>1 DEF DiskInv, DiskTypes, OwnFiles
  <1>9. LockOwned' /\ (Removing' <=> Removing)
    BY <1>1 DEF DiskInv, DiskTypes, LockOwned, Removing
  <1>10. CountedIsThere'
    <2>1. Counted' = Counted \/ Counted' = Counted + f.size
      BY <1>1, <1>6, <1>9 DEF Counted
    <2>2. Disk!Bytes(Disk!Blobs) \in Nat /\ Counted \in Nat /\ phantom \in Nat
      BY BytesNat, DiskSized DEF DiskInv, DiskTypes, Counted
    <2>. QED  BY <1>1, <1>4, <1>5, <2>1, <2>2 DEF DiskInv, CountedIsThere
  <1>. QED  BY <1>7, <1>8, <1>9, <1>10 DEF DiskInv

(* A part file is not counted. *)
LEMMA LeavePartInv ==
    ASSUME DiskInv, NEW z \in Sizes, Disk!LeavePart(z)
    PROVE  DiskInv'
  <1>. DEFINE f == Disk!NewFile(z, FALSE)
  <1>1. f \in Records /\ ~f.blob /\ f.id = written + 1
    BY NewFileIsNew
  <1>2. /\ written' = written + 1 /\ files' = files \cup {f}
        /\ UNCHANGED <<on_disk, writer, blob, lock, total, phantom>>
    BY DEF Disk!LeavePart, Disk!Write
  <1>. HIDE DEF f
  <1>3. Disk!Blobs' = Disk!Blobs /\ Disk!Uncounted' = Disk!Uncounted
    BY <1>1, <1>2 DEF Disk!Blobs, Disk!Uncounted
  <1>4. DiskTypes'
    BY <1>1, <1>2, <1>3, FS_AddElement DEF DiskInv, DiskTypes
  <1>5. OwnFiles'
    <2>1. \A g \in files' : g.id <= written'
      BY <1>1, <1>2 DEF DiskInv, DiskTypes, OwnFiles, Records
    <2>2. \A v \in Writers : \A g \in blob[v] : g.id <= written'
      BY <1>2 DEF DiskInv, DiskTypes, OwnFiles, Records
    <2>. QED  BY <1>2, <2>1, <2>2 DEF DiskInv, OwnFiles
  <1>6. LockOwned' /\ CountedIsThere'
    BY <1>2, <1>3 DEF DiskInv, LockOwned, CountedIsThere, Counted, Removing
  <1>. QED  BY <1>4, <1>5, <1>6 DEF DiskInv

(* No blob is larger than what the eviction leaves in the cache. *)
SmallBlobs == \A z \in Sizes : z <= Disk!Target

(* The evictor's copy falls with what is on disk.  A blob larger than the   *)
(* target could take the copy to zero and leave the difference behind.      *)
LEMMA RemoveOldestInv ==
    ASSUME SmallBlobs, DiskInv, NEW w \in Writers, Disk!RemoveOldest(w)
    PROVE  DiskInv'
  <1>. USE DiskConstants
  <1>. DEFINE f == Disk!Oldest(scan)
  <1>1. /\ writer[w] = "remove" /\ total > Disk!Target
        /\ \/ f \in files /\ files' = files \ {f} /\ total' = Disk!SaturatingSub(total, f.size)
           \/ UNCHANGED <<files, total>>
        /\ UNCHANGED <<written, on_disk, writer, blob, lock, phantom>>
    BY DEF Disk!RemoveOldest
  <1>. HIDE DEF f
  <1>2. Removing /\ Removing' /\ Disk!Uncounted' = Disk!Uncounted /\ LockOwned'
    BY <1>1 DEF Removing, Disk!Uncounted, DiskInv, LockOwned
  <1>3. CASE UNCHANGED <<files, total>>
    BY <1>1, <1>2, <1>3
       DEF DiskInv, DiskTypes, OwnFiles, CountedIsThere, Counted, Disk!Blobs
  <1>4. CASE f \in files /\ files' = files \ {f} /\ total' = Disk!SaturatingSub(total, f.size)
    <2>1. f.size \in Nat /\ f.size <= Disk!Target /\ f \in Records
      BY <1>4 DEF DiskInv, DiskTypes, Records, SmallBlobs
    <2>2. Disk!Target \in Int
      BY DEF Disk!Target
    <2>3. total \in Nat /\ total' = total - f.size /\ total' \in Nat
      BY <1>1, <1>4, <2>1, <2>2 DEF Disk!SaturatingSub, DiskInv, DiskTypes
    <2>4. IsFiniteSet(files')
      BY <1>4, FS_RemoveElement DEF DiskInv, DiskTypes
    <2>5. DiskTypes'
      BY <1>1, <1>2, <1>4, <2>3, <2>4 DEF DiskInv, DiskTypes
    <2>6. OwnFiles'
      BY <1>1, <1>4 DEF DiskInv, OwnFiles
    <2>7. Disk!Bytes(Disk!Blobs) \in Nat /\ Disk!Bytes(Disk!Blobs') >= Disk!Bytes(Disk!Blobs) - f.size
          /\ Disk!Bytes(Disk!Blobs') \in Nat
      <3>1. CASE f.blob
        <4>1. f \in Disk!Blobs /\ Disk!Blobs' = Disk!Blobs \ {f}
          BY <1>4, <3>1 DEF Disk!Blobs
        <4>2. /\ Disk!Bytes(Disk!Blobs \ {f}) = Disk!Bytes(Disk!Blobs) - f.size
              /\ Disk!Bytes(Disk!Blobs) \in Nat /\ Disk!Bytes(Disk!Blobs \ {f}) \in Nat
          BY <4>1, BytesRemove, BytesNat, DiskSized DEF DiskInv
        <4>. QED  BY <2>1, <4>1, <4>2
      <3>2. CASE ~f.blob
        <4>1. Disk!Blobs' = Disk!Blobs
          BY <1>4, <3>2 DEF Disk!Blobs
        <4>2. Disk!Bytes(Disk!Blobs) \in Nat
          BY BytesNat, DiskSized DEF DiskInv
        <4>. QED  BY <2>1, <4>1, <4>2
      <3>. QED  BY <3>1, <3>2
    <2>8. CountedIsThere'
      <3>1. Disk!Bytes(Disk!Uncounted) \in Nat /\ phantom \in Nat
        BY BytesNat, DiskSized DEF DiskInv, DiskTypes
      <3>. QED  BY <1>1, <1>2, <2>1, <2>3, <2>7, <3>1 DEF DiskInv, CountedIsThere, Counted
    <2>. QED  BY <1>2, <2>5, <2>6, <2>8 DEF DiskInv
  <1>. QED  BY <1>1, <1>3, <1>4

(* The copy becomes the counter; additions in between are lost. *)
LEMMA StoreTotalInv ==
    ASSUME DiskInv, NEW w \in Writers, Disk!StoreTotal(w)
    PROVE  DiskInv'
  <1>. USE DiskConstants
  <1>1. /\ writer[w] = "remove" /\ on_disk' = total /\ total' = 0 /\ lock' = None
        /\ writer' = [writer EXCEPT ![w] = "idle"]
        /\ UNCHANGED <<files, written, blob, phantom>>
    BY DEF Disk!StoreTotal, Disk!Goto
  <1>2. Disk!Uncounted' = Disk!Uncounted /\ Disk!Blobs' = Disk!Blobs
    BY <1>1 DEF Disk!Uncounted, Disk!Blobs
  <1>3. lock = w
    BY <1>1 DEF DiskInv, LockOwned
  <1>4. DiskTypes' /\ OwnFiles'
    BY <1>1, <1>2 DEF DiskInv, DiskTypes, OwnFiles
  <1>5. LockOwned' /\ Removing /\ ~Removing'
    BY <1>1, <1>3 DEF DiskInv, DiskTypes, LockOwned, Removing
  <1>6. CountedIsThere'
    BY <1>1, <1>2, <1>3, <1>5 DEF DiskInv, CountedIsThere, Counted
  <1>. QED  BY <1>4, <1>5, <1>6 DEF DiskInv

(* clear ends: what is to be counted and is not there any more is phantom. *)
LEMMA ClearStoreInv ==
    ASSUME DiskInv, Disk!ClearStore
    PROVE  DiskInv'
  <1>. USE DiskConstants
  <1>1. /\ lock = "clear" /\ on_disk' = 0 /\ lock' = None
        /\ phantom' = Disk!Bytes(Disk!Uncounted \ files)
        /\ UNCHANGED <<files, written, writer, blob, total>>
    BY DEF Disk!ClearStore
  <1>2. Disk!Uncounted' = Disk!Uncounted /\ Disk!Blobs' = Disk!Blobs
    BY <1>1 DEF Disk!Uncounted, Disk!Blobs
  <1>. DEFINE here == Disk!Uncounted \cap files
              gone == Disk!Uncounted \ files
  <1>3. here \in SUBSET Disk!Blobs
    BY DEF DiskInv, OwnFiles, Disk!Uncounted, Disk!Blobs
  <1>4. Sized(here) /\ Sized(gone) /\ here \cap gone = {} /\ here \cup gone = Disk!Uncounted
    <2>1. here \in SUBSET Disk!Uncounted /\ gone \in SUBSET Disk!Uncounted
      OBVIOUS
    <2>2. Sized(here) /\ Sized(gone)
      BY <2>1, DiskSized, BytesMonotone DEF DiskInv
    <2>. QED  BY <2>2
  <1>5. phantom' = Disk!Bytes(gone)
    BY <1>1
  <1>. HIDE DEF here, gone
  <1>6. Disk!Bytes(Disk!Uncounted) = Disk!Bytes(here) + Disk!Bytes(gone)
    BY <1>4, BytesUnion
  <1>7. Disk!Bytes(here) <= Disk!Bytes(Disk!Blobs)
    BY <1>3, BytesMonotone, DiskSized DEF DiskInv
  <1>8. Disk!Bytes(here) \in Nat /\ Disk!Bytes(gone) \in Nat /\ Disk!Bytes(Disk!Blobs) \in Nat
    BY <1>4, BytesNat, DiskSized DEF DiskInv
  <1>9. DiskTypes' /\ OwnFiles'
    BY <1>1, <1>2, <1>5, <1>8 DEF DiskInv, DiskTypes, OwnFiles
  <1>10. LockOwned' /\ ~Removing'
    BY <1>1 DEF DiskInv, DiskTypes, LockOwned, Removing
  <1>11. CountedIsThere'
    BY <1>1, <1>2, <1>5, <1>6, <1>7, <1>8, <1>10 DEF CountedIsThere, Counted
  <1>. QED  BY <1>9, <1>10, <1>11 DEF DiskInv

(* Every step keeps the invariant. *)
LEMMA DiskNext ==
    ASSUME SmallBlobs, DiskInv, [Disk!Next]_(Disk!vars)
    PROVE  DiskInv'
  <1>. USE DiskConstants
  <1>1. ASSUME NEW w \in Writers, Disk!EvictLock(w)  PROVE DiskInv'
    <2>1. /\ writer[w] = "evict" /\ lock = None
          /\ UNCHANGED <<files, written, on_disk, blob, total, phantom>>
          /\ \/ writer' = [writer EXCEPT ![w] = "idle"] /\ lock' = lock
             \/ writer' = [writer EXCEPT ![w] = "scan"] /\ lock' = w
      BY <1>1 DEF Disk!EvictLock, Disk!Goto
    <2>. QED  BY <2>1, DiskMoves
  <1>2. ASSUME NEW w \in Writers, Disk!ScanFiles(w)  PROVE DiskInv'
    <2>1. /\ writer[w] = "scan" /\ UNCHANGED <<files, written, on_disk, blob, total, phantom>>
          /\ \/ writer' = [writer EXCEPT ![w] = "load"] /\ lock' = lock
             \/ writer' = [writer EXCEPT ![w] = "idle"] /\ lock' = None
      BY <1>2 DEF Disk!ScanFiles, Disk!Goto
    <2>2. lock = w
      BY <2>1 DEF DiskInv, LockOwned
    <2>. QED  BY <2>1, <2>2, DiskMoves
  <1>3. ASSUME NEW w \in Writers, Disk!LoadTotal(w)  PROVE DiskInv'
    <2>1. /\ writer[w] = "load" /\ UNCHANGED <<files, written, on_disk, blob, lock, phantom>>
          /\ writer' = [writer EXCEPT ![w] = "remove"] /\ total' = on_disk
      BY <1>3 DEF Disk!LoadTotal, Disk!Goto
    <2>2. lock = w
      BY <2>1 DEF DiskInv, LockOwned
    <2>. QED  BY <2>1, <2>2, DiskMoves
  <1>4. CASE Disk!ClearLock
    <2>1. /\ lock = None /\ lock' = "clear"
          /\ UNCHANGED <<files, written, on_disk, writer, blob, total, phantom>>
      BY <1>4 DEF Disk!ClearLock
    <2>. QED  BY <2>1 DEF DiskInv, DiskTypes, OwnFiles, LockOwned, CountedIsThere, Disk!Uncounted
  <1>5. CASE Disk!ClearRemove
    <2>1. /\ lock = "clear" /\ \E f : files' = files \ {f}
          /\ UNCHANGED <<written, on_disk, writer, blob, lock, total, phantom>>
      BY <1>5 DEF Disk!ClearRemove
    <2>2. IsFiniteSet(files') /\ files' \subseteq files
      BY <2>1, FS_Subset DEF DiskInv, DiskTypes
    <2>. QED  BY <2>1, <2>2 DEF DiskInv, DiskTypes, OwnFiles, LockOwned, CountedIsThere, Disk!Uncounted
  <1>6. CASE Disk!Restart
    <2>1. /\ on_disk' = Disk!Bytes(Disk!Blobs) /\ writer' = [w \in Writers |-> "idle"]
          /\ blob' = [w \in Writers |-> {}] /\ lock' = None /\ total' = 0 /\ phantom' = 0
          /\ UNCHANGED <<files, written>>
      BY <1>6 DEF Disk!Restart, Disk!scan_bytes
    <2>2. Disk!Uncounted' = {} /\ Disk!Blobs' = Disk!Blobs /\ ~Removing'
      BY <2>1 DEF Disk!Uncounted, Disk!Blobs, Removing
    <2>3. Disk!Bytes(Disk!Blobs) \in Nat
      BY BytesNat, DiskSized DEF DiskInv
    <2>4. DiskTypes' /\ OwnFiles' /\ LockOwned'
      BY <2>1, <2>2, <2>3, FS_EmptySet DEF DiskInv, DiskTypes, OwnFiles, LockOwned
    <2>5. Counted' = Disk!Bytes(Disk!Blobs)
      BY <2>1, <2>2 DEF Counted
    <2>6. CountedIsThere'
      BY <2>1, <2>2, <2>3, <2>5, BytesEmpty DEF CountedIsThere
    <2>. QED  BY <2>4, <2>6 DEF DiskInv
  <1>7. CASE UNCHANGED Disk!vars
    BY <1>7 DEF Disk!vars, DiskInv, DiskTypes, OwnFiles, LockOwned, CountedIsThere, Counted, Removing,
                Disk!Uncounted, Disk!Blobs
  <1>. QED  BY <1>1, <1>2, <1>3, <1>4, <1>5, <1>6, <1>7,
               RenameInv, CommittedInv, LeavePartInv, RemoveOldestInv, StoreTotalInv, ClearStoreInv
            DEF Disk!Next, Disk!Evictor

(* The counter never claims bytes that are not there, except those of blobs *)
(* that clear took before they were counted: for any number of tasks, files *)
(* and crashes, if no blob exceeds the target of the eviction.              *)
THEOREM CounterNeverOvercounts ==
    ASSUME SmallBlobs
    PROVE  Disk!Spec => []NeverOvercounts
  <1>1. Disk!Init => DiskInv
    <2>. SUFFICES ASSUME Disk!Init  PROVE DiskInv
      OBVIOUS
    <2>1. Disk!Uncounted = {} /\ Disk!Blobs = {} /\ ~Removing
      BY DEF Disk!Init, Disk!Uncounted, Disk!Blobs, Removing
    <2>2. DiskTypes /\ OwnFiles /\ LockOwned
      BY <2>1, FS_EmptySet, DiskConstants DEF Disk!Init, DiskTypes, OwnFiles, LockOwned
    <2>3. CountedIsThere
      BY <2>1, BytesEmpty DEF Disk!Init, CountedIsThere, Counted
    <2>. QED  BY <2>2, <2>3 DEF DiskInv
  <1>2. DiskInv /\ [Disk!Next]_(Disk!vars) => DiskInv'
    BY SmallBlobs, DiskNext
  <1>3. DiskInv => NeverOvercounts
    <2>. SUFFICES ASSUME DiskInv, lock = None
                  PROVE  on_disk + Disk!Bytes(Disk!Uncounted) <= Disk!Bytes(Disk!Blobs) + phantom
      BY DEF NeverOvercounts, Disk!NeverOvercounts
    <2>1. ~Removing /\ lock # "clear"
      BY DiskConstants DEF DiskInv, DiskTypes, LockOwned, Removing
    <2>. QED  BY <2>1 DEF DiskInv, CountedIsThere, Counted
  <1>. QED  BY <1>1, <1>2, <1>3, PTL DEF Disk!Spec

-----------------------------------------------------------------------------
(* Manifests: who gets them, and how old they are *)

Manifests == [ver : Nat, stored : Nat]

ManifestTypes ==
    /\ now \in Nat
    /\ version \in [Paths -> Nat] /\ \A p \in Paths : version[p] \in Versions
    /\ retired \in [Paths -> [Versions -> Nat]]
    /\ entries \in [Keys -> Manifests \cup {NoEntry}]
    /\ pc \in [Requests -> {"idle", "fetch", "put", "serve", "refused"}]
    /\ path \in [Requests -> Paths \cup {NoEntry}] /\ ident \in [Requests -> Identities \cup {NoEntry}]
    /\ begun \in [Requests -> Nat] /\ got \in [Requests -> Nat]
    /\ DOMAIN head = Requests

(* Version v of a manifest was still the current one at time t. *)
CurrentAt(p, v, t) == v \in Versions /\ (v # version[p] => v < version[p] /\ retired[p][v] >= t)

(* A fetch lasts no longer than it may, and brings what was current after   *)
(* it began.                                                                *)
Fetching ==
    \A r \in Requests :
        /\ pc[r] # "idle" => path[r] \in Paths /\ ident[r] \in Identities
        /\ pc[r] \in {"fetch", "put"} => begun[r] <= now /\ now <= begun[r] + MaxFetch
        /\ pc[r] = "put" => CurrentAt(path[r], got[r], begun[r])

(* An entry was current one fetch before it was stored, and only somebody   *)
(* who is allowed to see it stored it.                                      *)
Stored ==
    \A p \in Paths, a \in Identities : entries[Key(p, a)] # NoEntry =>
        /\ Allowed(a, p)
        /\ entries[Key(p, a)].stored <= now
        /\ CurrentAt(p, entries[Key(p, a)].ver, entries[Key(p, a)].stored - MaxFetch)

(* What is about to be served: an entry is at most this old. *)
Slack == IF TTL = 0 THEN 0 ELSE TTL - 1
Served ==
    \A r \in Requests :
        /\ pc[r] \in {"put", "serve"} => Allowed(ident[r], path[r])
        /\ pc[r] = "serve" => CurrentAt(path[r], got[r], now - MaxFetch - Slack)

ManifestInv == ManifestTypes /\ Fetching /\ Stored /\ Served

(* What the proofs use of the constants. *)
LEMMA ManifestConstants ==
    /\ TTL \in Nat /\ MaxFetch \in Nat /\ MaxBytes \in Nat /\ MaxEntries \in Nat
    /\ MaxVersion \in Nat \ {0}
    /\ NoEntry \notin Manifests /\ IsFiniteSet(Keys)
    /\ Slack \in Nat
  BY ManifestAssumption, FS_Product DEF ManifestAssumption, Manifests, Keys, Slack

(* Looking up a key, by its two parts. *)
LEMMA KeysArePairs ==
    /\ \A p \in Paths, a \in Identities : Key(p, a) \in Keys
    /\ \A p, q \in Paths, a, b \in Identities : Key(p, a) = Key(q, b) <=> p = q /\ a = b
  BY DEF Key, Keys

(* A hit serves an entry that is still fresh; a miss starts a fetch. *)
LEMMA AskManifest ==
    ASSUME ManifestInv, NEW r \in Requests, NEW p \in Paths, NEW a \in Identities, NEW h \in BOOLEAN,
           Ask(r, p, a, h)
    PROVE  ManifestInv'
  <1>. USE ManifestConstants
  <1>. DEFINE e == entries[Key(p, a)]
  <1>1. /\ pc[r] = "idle" /\ path' = [path EXCEPT ![r] = p] /\ ident' = [ident EXCEPT ![r] = a]
        /\ head' = [head EXCEPT ![r] = h] /\ begun' = [begun EXCEPT ![r] = now]
        /\ UNCHANGED <<now, entries, version, retired>>
        /\ \/ /\ e # NoEntry /\ now - e.stored < TTL
              /\ pc' = [pc EXCEPT ![r] = "serve"] /\ got' = [got EXCEPT ![r] = e.ver]
           \/ pc' = [pc EXCEPT ![r] = "fetch"] /\ got' = got
    BY DEF Ask, Goto, Usable, Fresh, cache, upstream
  <1>2. e \in Manifests \cup {NoEntry}
    BY KeysArePairs DEF ManifestInv, ManifestTypes
  <1>3. e # NoEntry => /\ e.ver \in Nat /\ e.stored \in Nat /\ Allowed(a, p)
                       /\ CurrentAt(p, e.ver, e.stored - MaxFetch)
    BY <1>2 DEF Manifests, ManifestInv, Stored
  <1>4. e # NoEntry /\ now - e.stored < TTL => CurrentAt(p, e.ver, now - MaxFetch - Slack)
    BY <1>3 DEF CurrentAt, ManifestInv, ManifestTypes, Slack
  <1>. HIDE DEF e
  <1>5. ManifestTypes'
    BY <1>1, <1>3 DEF ManifestInv, ManifestTypes
  <1>6. Stored'
    BY <1>1 DEF ManifestInv, Stored, CurrentAt
  <1>7. \A s \in Requests : s # r => /\ pc'[s] = pc[s] /\ path'[s] = path[s] /\ ident'[s] = ident[s]
                                     /\ begun'[s] = begun[s] /\ got'[s] = got[s]
    BY <1>1 DEF ManifestInv, ManifestTypes
  <1>8. /\ path'[r] = p /\ ident'[r] = a /\ begun'[r] = now
        /\ \/ pc'[r] = "fetch"
           \/ pc'[r] = "serve" /\ got'[r] = e.ver /\ e # NoEntry /\ now - e.stored < TTL
    BY <1>1 DEF ManifestInv, ManifestTypes
  <1>9. Fetching'
    BY <1>1, <1>7, <1>8 DEF ManifestInv, ManifestTypes, Fetching, CurrentAt
  <1>10. Served'
    BY <1>1, <1>3, <1>4, <1>7, <1>8 DEF ManifestInv, ManifestTypes, Served, CurrentAt
  <1>. QED  BY <1>5, <1>6, <1>9, <1>10 DEF ManifestInv

(* The upstream answers with the current version, if it answers. *)
LEMMA FetchedManifest ==
    ASSUME ManifestInv, NEW r \in Requests, Fetched(r)
    PROVE  ManifestInv'
  <1>. USE ManifestConstants
  <1>1. /\ pc[r] = "fetch" /\ UNCHANGED <<now, entries, version, retired, path, ident, head, begun>>
        /\ \/ pc' = [pc EXCEPT ![r] = "refused"] /\ got' = got
           \/ /\ Allowed(ident[r], path[r]) /\ got' = [got EXCEPT ![r] = version[path[r]]]
              /\ \E l \in {"serve", "put"} : pc' = [pc EXCEPT ![r] = l]
    BY DEF Fetched, Goto, cache, upstream
  <1>2. /\ path[r] \in Paths /\ version[path[r]] \in Nat /\ version[path[r]] \in Versions
        /\ begun[r] \in Nat /\ begun[r] <= now /\ now <= begun[r] + MaxFetch
    BY <1>1 DEF ManifestInv, ManifestTypes, Fetching
  <1>3. ManifestTypes'
    BY <1>1, <1>2 DEF ManifestInv, ManifestTypes
  <1>4. Stored'
    BY <1>1 DEF ManifestInv, Stored, CurrentAt
  <1>5. \A s \in Requests : s # r => pc'[s] = pc[s] /\ got'[s] = got[s]
    BY <1>1 DEF ManifestInv, ManifestTypes
  <1>6. \/ pc'[r] = "refused"
        \/ /\ Allowed(ident[r], path[r]) /\ got'[r] = version[path[r]]
           /\ pc'[r] \in {"serve", "put"}
    BY <1>1 DEF ManifestInv, ManifestTypes
  <1>7. Fetching'
    BY <1>1, <1>2, <1>5, <1>6 DEF ManifestInv, ManifestTypes, Fetching, CurrentAt
  <1>8. Served'
    BY <1>1, <1>2, <1>5, <1>6 DEF ManifestInv, ManifestTypes, Served, CurrentAt
  <1>. QED  BY <1>3, <1>4, <1>7, <1>8 DEF ManifestInv

(* What put does to the map: it keeps entries or drops them, and may add    *)
(* its own.                                                                 *)
LEMMA PutEntries ==
    ASSUME ManifestInv, NEW r \in Requests, Put(r)
    PROVE  /\ path[r] \in Paths /\ ident[r] \in Identities /\ Key(path[r], ident[r]) \in Keys
           /\ [ver |-> got[r], stored |-> now] \in Manifests
           /\ entries' \in [Keys -> Manifests \cup {NoEntry}]
           /\ \A k \in Keys :
                 entries'[k] \in {entries[k], NoEntry} \/
                 (k = Key(path[r], ident[r]) /\ entries'[k] = [ver |-> got[r], stored |-> now])
  <1>. DEFINE k == Key(path[r], ident[r])
              n == got[r]
              e == [ver |-> n, stored |-> now]
  <1>1. path[r] \in Paths /\ ident[r] \in Identities /\ n \in Nat
    BY DEF Put, ManifestInv, ManifestTypes, Fetching
  <1>2. k \in Keys /\ e \in Manifests
    BY <1>1, KeysArePairs DEF Manifests, ManifestInv, ManifestTypes
  <1>3. \/ entries' = entries
        \/ entries' = [j \in Keys |-> IF j = k THEN e ELSE NoEntry]
        \/ entries' = [Retained EXCEPT ![k] = e]
    BY DEF Put, cache
  <1>4. /\ Retained \in [Keys -> Manifests \cup {NoEntry}]
        /\ \A j \in Keys : Retained[j] \in {entries[j], NoEntry}
    BY DEF Retained, ManifestInv, ManifestTypes
  <1>5. entries \in [Keys -> Manifests \cup {NoEntry}]
    BY DEF ManifestInv, ManifestTypes
  <1>. HIDE DEF k, e
  <1>6. /\ entries' \in [Keys -> Manifests \cup {NoEntry}]
        /\ \A j \in Keys : entries'[j] \in {entries[j], NoEntry} \/ (j = k /\ entries'[j] = e)
    BY <1>2, <1>3, <1>4, <1>5
  <1>. QED  BY <1>1, <1>2, <1>6 DEF k, e

(* A slow fetch restarts the clock of what it stores, by one fetch at most. *)
LEMMA PutManifest ==
    ASSUME ManifestInv, NEW r \in Requests, Put(r)
    PROVE  ManifestInv'
  <1>. USE ManifestConstants
  <1>. DEFINE e == [ver |-> got[r], stored |-> now]
  <1>1. /\ pc[r] = "put" /\ pc' = [pc EXCEPT ![r] = "serve"]
        /\ UNCHANGED <<now, version, retired, path, ident, head, begun, got>>
    BY DEF Put, Goto, upstream
  <1>2. /\ path[r] \in Paths /\ ident[r] \in Identities
        /\ begun[r] \in Nat /\ begun[r] <= now /\ now <= begun[r] + MaxFetch
        /\ CurrentAt(path[r], got[r], begun[r]) /\ Allowed(ident[r], path[r])
    BY <1>1 DEF ManifestInv, ManifestTypes, Fetching, Served
  <1>3. CurrentAt(path[r], got[r], now - MaxFetch) /\ CurrentAt(path[r], got[r], now - MaxFetch - Slack)
    BY <1>2 DEF CurrentAt, ManifestInv, ManifestTypes
  <1>4. e.ver = got[r] /\ e.stored = now
    OBVIOUS
  <1>5. /\ entries' \in [Keys -> Manifests \cup {NoEntry}]
        /\ \A k \in Keys : entries'[k] \in {entries[k], NoEntry}
                            \/ (k = Key(path[r], ident[r]) /\ entries'[k] = e)
    BY PutEntries
  <1>. HIDE DEF e
  <1>6. ManifestTypes'
    BY <1>1, <1>5 DEF ManifestInv, ManifestTypes
  <1>7. Stored'
    <2>. SUFFICES ASSUME NEW p \in Paths, NEW a \in Identities, entries'[Key(p, a)] # NoEntry
                  PROVE  /\ Allowed(a, p)
                         /\ entries'[Key(p, a)].stored <= now
                         /\ CurrentAt(p, entries'[Key(p, a)].ver, entries'[Key(p, a)].stored - MaxFetch)
      BY <1>1 DEF Stored, CurrentAt
    <2>1. \/ entries'[Key(p, a)] = entries[Key(p, a)]
          \/ p = path[r] /\ a = ident[r] /\ entries'[Key(p, a)] = e
      BY <1>2, <1>5, KeysArePairs
    <2>. QED  BY <1>2, <1>3, <1>4, <2>1 DEF ManifestInv, ManifestTypes, Stored
  <1>8. \A s \in Requests : (s # r => pc'[s] = pc[s]) /\ (s = r => pc'[s] = "serve")
    BY <1>1 DEF ManifestInv, ManifestTypes
  <1>9. Fetching'
    BY <1>1, <1>8 DEF ManifestInv, Fetching, CurrentAt
  <1>10. Served'
    <2>1. /\ \A s \in Requests : pc'[s] \in {"put", "serve"} => Allowed(ident[s], path[s])
          /\ \A s \in Requests : pc'[s] = "serve" => CurrentAt(path[s], got[s], now - MaxFetch - Slack)
      BY <1>2, <1>3, <1>8 DEF ManifestInv, Served
    <2>. QED  BY <1>1, <2>1 DEF Served, CurrentAt
  <1>. QED  BY <1>6, <1>7, <1>9, <1>10 DEF ManifestInv

(* The tag moves on: what was current until now was current at any earlier  *)
(* time.                                                                    *)
LEMMA PublishManifest ==
    ASSUME ManifestInv, NEW p \in Paths, Publish(p)
    PROVE  ManifestInv'
  <1>. USE ManifestConstants
  <1>1. /\ version[p] < MaxVersion /\ version' = [version EXCEPT ![p] = version[p] + 1]
        /\ retired' = [retired EXCEPT ![p][version[p]] = now]
        /\ UNCHANGED <<now, entries, pc, path, ident, head, begun, got>>
    BY DEF Publish, cache, request
  <1>2. version[p] \in Versions /\ version[p] \in Nat /\ version[p] + 1 \in Versions
    BY <1>1 DEF ManifestInv, ManifestTypes, Versions
  <1>3. ManifestTypes'
    <2>1. version' \in [Paths -> Nat] /\ \A q \in Paths : version'[q] \in Versions
      BY <1>1, <1>2 DEF ManifestInv, ManifestTypes
    <2>2. retired' \in [Paths -> [Versions -> Nat]]
      BY <1>1, <1>2 DEF ManifestInv, ManifestTypes
    <2>. QED  BY <1>1, <2>1, <2>2 DEF ManifestInv, ManifestTypes
  <1>4. ASSUME NEW q \in Paths, NEW v, NEW t \in Int, t <= now, CurrentAt(q, v, t)
        PROVE  CurrentAt(q, v, t)'
    <2>1. CASE q # p
      <3>1. version'[q] = version[q] /\ retired'[q] = retired[q]
        BY <1>1, <2>1 DEF ManifestInv, ManifestTypes
      <3>. QED  BY <1>4, <3>1 DEF CurrentAt
    <2>2. CASE q = p /\ v = version[p]
      <3>1. version'[p] = version[p] + 1 /\ retired'[p][version[p]] = now
        BY <1>1, <1>2 DEF ManifestInv, ManifestTypes
      <3>. QED  BY <1>2, <1>4, <2>2, <3>1 DEF CurrentAt, ManifestInv, ManifestTypes
    <2>3. CASE q = p /\ v # version[p]
      <3>1. v \in Versions /\ v < version[p] /\ retired[p][v] >= t
        BY <1>4, <2>3 DEF CurrentAt
      <3>2. version'[p] = version[p] + 1 /\ retired'[p][v] = retired[p][v]
        BY <1>1, <1>2, <2>3, <3>1 DEF ManifestInv, ManifestTypes
      <3>. QED  BY <1>2, <2>3, <3>1, <3>2 DEF CurrentAt, Versions
    <2>. QED  BY <2>1, <2>2, <2>3
  <1>5. Fetching'
    BY <1>1, <1>4 DEF ManifestInv, ManifestTypes, Fetching
  <1>6. Stored'
    <2>. SUFFICES ASSUME NEW q \in Paths, NEW a \in Identities, entries[Key(q, a)] # NoEntry
                  PROVE  CurrentAt(q, entries[Key(q, a)].ver, entries[Key(q, a)].stored - MaxFetch)'
      BY <1>1 DEF ManifestInv, Stored
    <2>1. entries[Key(q, a)].stored \in Nat /\ entries[Key(q, a)].stored <= now
      BY KeysArePairs DEF ManifestInv, ManifestTypes, Manifests, Stored
    <2>2. /\ entries[Key(q, a)].stored - MaxFetch \in Int
          /\ entries[Key(q, a)].stored - MaxFetch <= now
      BY <2>1 DEF ManifestInv, ManifestTypes
    <2>3. CurrentAt(q, entries[Key(q, a)].ver, entries[Key(q, a)].stored - MaxFetch)
      BY DEF ManifestInv, Stored
    <2>. QED  BY <1>1, <1>4, <2>2, <2>3
  <1>7. Served'
    <2>1. now - MaxFetch - Slack \in Int /\ now - MaxFetch - Slack <= now
      BY DEF ManifestInv, ManifestTypes
    <2>. QED  BY <1>1, <1>4, <2>1 DEF ManifestInv, ManifestTypes, Served, Fetching
  <1>. QED  BY <1>3, <1>5, <1>6, <1>7 DEF ManifestInv

(* Every step keeps the invariant. *)
LEMMA ManifestNext == ManifestInv /\ [Next]_vars => ManifestInv'
  <1>. SUFFICES ASSUME ManifestInv, [Next]_vars  PROVE ManifestInv'
    OBVIOUS
  <1>. USE ManifestConstants
  <1>1. ASSUME NEW r \in Requests, Respond(r)  PROVE ManifestInv'
    <2>1. /\ pc' = [pc EXCEPT ![r] = "idle"] /\ begun' = [begun EXCEPT ![r] = 0]
          /\ got' = [got EXCEPT ![r] = 1] /\ path' = [path EXCEPT ![r] = NoEntry]
          /\ ident' = [ident EXCEPT ![r] = NoEntry] /\ head' = [head EXCEPT ![r] = FALSE]
          /\ UNCHANGED <<now, entries, version, retired>>
      BY <1>1 DEF Respond, Goto, cache, upstream
    <2>2. ManifestTypes'
      BY <2>1 DEF ManifestInv, ManifestTypes
    <2>3. \A s \in Requests :
             /\ s # r => /\ pc'[s] = pc[s] /\ path'[s] = path[s] /\ ident'[s] = ident[s]
                         /\ begun'[s] = begun[s] /\ got'[s] = got[s]
             /\ s = r => pc'[s] = "idle"
      BY <2>1 DEF ManifestInv, ManifestTypes
    <2>4. Stored' /\ Fetching' /\ Served'
      BY <2>1, <2>3 DEF ManifestInv, Stored, Fetching, Served, CurrentAt
    <2>. QED  BY <2>2, <2>4 DEF ManifestInv
  <1>2. CASE Clear
    <2>1. /\ entries' = [k \in Keys |-> NoEntry]
          /\ UNCHANGED <<now, version, retired, pc, path, ident, head, begun, got>>
      BY <1>2 DEF Clear, upstream, request
    <2>2. ManifestTypes'
      BY <2>1 DEF ManifestInv, ManifestTypes
    <2>3. Stored'
      BY <2>1, KeysArePairs DEF Stored
    <2>4. Fetching' /\ Served'
      BY <2>1 DEF ManifestInv, Fetching, Served, CurrentAt
    <2>. QED  BY <2>2, <2>3, <2>4 DEF ManifestInv
  <1>3. CASE Tick
    <2>1. /\ now' = now + 1
          /\ \A r \in Requests : pc[r] # "serve" /\ (pc[r] \in {"fetch", "put"} => now - begun[r] < MaxFetch)
          /\ UNCHANGED <<entries, version, retired, pc, path, ident, head, begun, got>>
      BY <1>3 DEF Tick, cache, upstream, request
    <2>2. ManifestTypes'
      BY <2>1 DEF ManifestInv, ManifestTypes
    <2>3. Fetching'
      BY <2>1 DEF ManifestInv, ManifestTypes, Fetching, CurrentAt
    <2>4. Served'
      BY <2>1 DEF ManifestInv, Served
    <2>5. Stored'
      <3>1. \A p \in Paths, a \in Identities : entries[Key(p, a)] # NoEntry => entries[Key(p, a)].stored \in Nat
        BY KeysArePairs DEF ManifestInv, ManifestTypes, Manifests
      <3>2. now \in Nat
        BY DEF ManifestInv, ManifestTypes
      <3>. QED  BY <2>1, <3>1, <3>2 DEF ManifestInv, Stored, CurrentAt
    <2>. QED  BY <2>2, <2>3, <2>4, <2>5 DEF ManifestInv
  <1>4. CASE UNCHANGED vars
    <2>1. UNCHANGED <<now, entries, version, retired, pc, path, ident, head, begun, got>>
      BY <1>4 DEF vars, cache, upstream, request
    <2>. QED  BY <2>1 DEF ManifestInv, ManifestTypes, Fetching, Stored, Served, CurrentAt
  <1>. QED  BY <1>1, <1>2, <1>3, <1>4, AskManifest, FetchedManifest, PutManifest, PublishManifest DEF Next

(* The cache is empty and nobody has asked. *)
LEMMA ManifestInit == Init => ManifestInv
  <1>. SUFFICES ASSUME Init  PROVE ManifestInv
    OBVIOUS
  <1>1. ManifestTypes
    BY ManifestConstants DEF Init, ManifestTypes, Versions
  <1>. QED  BY <1>1, KeysArePairs DEF Init, ManifestInv, Fetching, Stored, Served

(* Nobody is served a manifest the upstream would not give them, whoever    *)
(* filled the cache and in whichever order.                                 *)
THEOREM ManifestsDoNotLeak == Spec => []NoLeak
  <1>1. ManifestInv => NoLeak
    BY DEF ManifestInv, Served, NoLeak
  <1>. QED  BY <1>1, ManifestInit, ManifestNext, PTL DEF Spec

(* A manifest that is served was current less than TTL and one fetch ago,   *)
(* for any number of racing fetches and of versions.                        *)
THEOREM ManifestsAreRecent == Spec => []StalenessBounded
  <1>1. ManifestInv => StalenessBounded
    <2>. SUFFICES ASSUME ManifestInv, NEW r \in Requests, pc[r] = "serve", got[r] # version[path[r]]
                  PROVE  \/ now - retired[path[r]][got[r]] < TTL + MaxFetch
                         \/ now - retired[path[r]][got[r]] <= MaxFetch
      BY DEF StalenessBounded
    <2>1. /\ path[r] \in Paths /\ got[r] \in Versions
          /\ retired[path[r]][got[r]] >= now - MaxFetch - Slack
      BY DEF ManifestInv, Fetching, Served, CurrentAt
    <2>2. retired[path[r]][got[r]] \in Nat /\ now \in Nat
      BY <2>1 DEF ManifestInv, ManifestTypes
    <2>. QED  BY <2>1, <2>2, ManifestConstants DEF Slack
  <1>. QED  BY <1>1, ManifestInit, ManifestNext, PTL DEF Spec
-----------------------------------------------------------------------------
(* The limits of the manifest cache *)

Maps == [Keys -> Manifests \cup {NoEntry}]
Weights(m) == [k \in Keys |-> Size(m, k)]

(* BytesOf is a sum in the sense above. *)
LEMMA BytesOfSum ==
    ASSUME NEW m
    PROVE  \E g : IsSum(g, Weights(m), Keys) /\ BytesOf(m) = g[Keys]
  <1>. DEFINE P(g) == g = [s \in SUBSET Keys |-> IF s = {} THEN 0
                               ELSE Size(m, CHOOSE x \in s : TRUE) + g[s \ {CHOOSE x \in s : TRUE}]]
  <1>1. \A g : IsSum(g, Weights(m), Keys) <=> P(g)
    BY DEF IsSum, Chosen, Weights
  <1>2. BytesOf(m) = (CHOOSE g : P(g))[Keys]
    BY Zenon DEF BytesOf, MapThenSumSet, MapThenFoldSet
  <1>. HIDE DEF P
  <1>3. \E g : P(g)
    BY <1>1, SumExists, ManifestConstants
  <1>4. P(CHOOSE g : P(g))
    BY <1>3
  <1>. QED  BY <1>1, <1>2, <1>4

(* Entries have sizes. *)
LEMMA SizeNat ==
    ASSUME NEW m \in Maps, NEW k \in Keys
    PROVE  Size(m, k) \in Nat /\ Weights(m)[k] = Size(m, k)
  BY DEF Size, Maps, Manifests, Weights

(* Another entry under one key changes the bytes by the difference. *)
LEMMA ChangeOne ==
    ASSUME NEW m \in Maps, NEW n \in Maps, NEW k \in Keys, \A j \in Keys \ {k} : n[j] = m[j]
    PROVE  /\ BytesOf(n) = BytesOf(m) - Size(m, k) + Size(n, k)
           /\ BytesOf(m) \in Nat
  <1>1. PICK f : IsSum(f, Weights(m), Keys) /\ BytesOf(m) = f[Keys]
    BY BytesOfSum
  <1>2. PICK g : IsSum(g, Weights(n), Keys) /\ BytesOf(n) = g[Keys]
    BY BytesOfSum
  <1>. DEFINE rest == Keys \ {k}
  <1>3. /\ \A x \in Keys : Weights(m)[x] \in Nat /\ Weights(n)[x] \in Nat
        /\ Weights(m)[k] = Size(m, k) /\ Weights(n)[k] = Size(n, k)
    BY SizeNat
  <1>4. \A x \in rest : Weights(m)[x] = Weights(n)[x]
    BY SizeNat DEF Size
  <1>5. rest \in SUBSET Keys /\ Keys \in SUBSET Keys
    OBVIOUS
  <1>6. f[Keys] = Weights(m)[k] + f[rest] /\ g[Keys] = Weights(n)[k] + g[rest]
    <2>1. f[Keys] = Weights(m)[k] + f[Keys \ {k}]
      BY <1>1, <1>3, <1>5, SumRemove, ManifestConstants
    <2>2. g[Keys] = Weights(n)[k] + g[Keys \ {k}]
      BY <1>2, <1>3, <1>5, SumRemove, ManifestConstants
    <2>. QED  BY <2>1, <2>2
  <1>7. f[rest] \in Nat
    BY <1>1, <1>3, <1>5, SumNat, ManifestConstants
  <1>. HIDE DEF rest
  <1>8. f[rest] = g[rest]
    BY <1>1, <1>2, <1>4, <1>5, SumsAgree, ManifestConstants
  <1>9. Size(m, k) \in Nat /\ Size(n, k) \in Nat
    BY SizeNat
  <1>. QED  BY <1>1, <1>2, <1>3, <1>6, <1>7, <1>8, <1>9

(* The empty map has no bytes and no entries. *)
LEMMA EmptyMap ==
    ASSUME NEW m, \A k \in Keys : m[k] = NoEntry
    PROVE  BytesOf(m) = 0 /\ Present(m) = {}
  <1>1. PICK g : IsSum(g, Weights(m), Keys) /\ BytesOf(m) = g[Keys]
    BY BytesOfSum
  <1>. DEFINE T == {t \in SUBSET Keys : g[t] # 0}
  <1>2. \A k \in Keys : Weights(m)[k] = 0
    BY DEF Weights, Size
  <1>3. SUFFICES ASSUME T # {}  PROVE FALSE
    BY <1>1 DEF Present
  <1>4. PICK t \in T : \A u \in SUBSET t : u # t => u \notin T
    <2>1. T \in SUBSET (SUBSET Keys)
      OBVIOUS
    <2>. HIDE DEF T
    <2>. QED  BY <1>3, <2>1, Smallest, ManifestConstants
  <1>5. t # {}
    BY <1>1, <1>4, SumStep
  <1>6. Chosen(t) \in t /\ g[t] = Weights(m)[Chosen(t)] + g[t \ {Chosen(t)}]
    BY <1>1, <1>5, SumStep
  <1>7. g[t \ {Chosen(t)}] = 0
    BY <1>4, <1>6
  <1>. QED  BY <1>2, <1>4, <1>6, <1>7

(* The counter is what put computed, whichever way it took, and neither     *)
(* limit is passed: a map at a limit is emptied before the entry goes in.   *)
LEMMA PutWithinLimits ==
    ASSUME ManifestInv, MapWithinLimits, NEW r \in Requests, Put(r)
    PROVE  MapWithinLimits'
  <1>. DEFINE k == Key(path[r], ident[r])
              n == got[r]
              m == Retained
              e == [ver |-> n, stored |-> now]
  <1>1. k \in Keys /\ e \in Manifests /\ n \in Nat /\ e.ver = n /\ e # NoEntry
    BY PutEntries, ManifestConstants DEF Manifests
  <1>2. m \in Maps
    BY DEF Retained, Maps, ManifestInv, ManifestTypes
  <1>3. \/ UNCHANGED cache
        \/ /\ n <= MaxBytes /\ Full(m, k, n) /\ bytes' = n
           /\ entries' = [j \in Keys |-> IF j = k THEN e ELSE NoEntry]
        \/ /\ n <= MaxBytes /\ ~Full(m, k, n) /\ bytes' = NextBytes(m, k, n)
           /\ entries' = [m EXCEPT ![k] = e]
    BY <1>1, ManifestConstants DEF Put
  <1>. HIDE DEF k, n, m, e
  <1>4. CASE UNCHANGED cache
    BY <1>4 DEF cache, MapWithinLimits
  <1>5. CASE /\ n <= MaxBytes /\ bytes' = n
             /\ entries' = [j \in Keys |-> IF j = k THEN e ELSE NoEntry]
    <2>. DEFINE none == [j \in Keys |-> NoEntry]
    <2>1. none \in Maps /\ entries' \in Maps /\ \A j \in Keys \ {k} : entries'[j] = none[j]
      BY <1>1, <1>5 DEF Maps
    <2>2. Size(none, k) = 0 /\ Size(entries', k) = n
      BY <1>1, <1>5 DEF Size
    <2>3. BytesOf(none) = 0
      BY EmptyMap
    <2>. HIDE DEF none
    <2>4. BytesOf(entries') = n
      BY <1>1, <2>1, <2>2, <2>3, ChangeOne
    <2>5. Present(entries') = {k}
      BY <1>1, <1>5 DEF Present
    <2>6. Cardinality(Present(entries')) = 1
      BY <2>5, FS_Singleton
    <2>. QED  BY <1>5, <2>4, <2>6 DEF MapWithinLimits
  <1>6. CASE /\ ~Full(m, k, n) /\ bytes' = NextBytes(m, k, n)
             /\ entries' = [m EXCEPT ![k] = e]
    <2>1. entries' \in Maps /\ \A j \in Keys \ {k} : entries'[j] = m[j]
      BY <1>1, <1>2, <1>6 DEF Maps
    <2>2. Size(entries', k) = n
      BY <1>1, <1>2, <1>6 DEF Size, Maps
    <2>3. BytesOf(entries') = bytes'
      BY <1>1, <1>2, <1>6, <2>1, <2>2, ChangeOne DEF NextBytes
    <2>4. NextBytes(m, k, n) \in Int
      BY <1>1, <1>2, <2>1, ChangeOne, SizeNat DEF NextBytes
    <2>5. bytes' <= MaxBytes
      BY <1>6, <2>4, ManifestConstants DEF Full
    <2>6. Present(m) \in SUBSET Keys /\ Present(entries') = Present(m) \cup {k}
      BY <1>1, <1>2, <1>6 DEF Present, Maps
    <2>7. IsFiniteSet(Present(m))
      BY <2>6, FS_Subset, ManifestConstants
    <2>8. Cardinality(Present(m)) \in Nat /\ Cardinality(Present(m)) < MaxEntries
      BY <1>6, <2>7, FS_CardinalityType, ManifestConstants DEF Full
    <2>9. \/ Cardinality(Present(entries')) = Cardinality(Present(m))
          \/ Cardinality(Present(entries')) = Cardinality(Present(m)) + 1
      BY <2>6, <2>7, FS_AddElement
    <2>10. Cardinality(Present(entries')) <= MaxEntries
      BY <2>8, <2>9, ManifestConstants
    <2>. QED  BY <2>3, <2>5, <2>10 DEF MapWithinLimits
  <1>. QED  BY <1>3, <1>4, <1>5, <1>6

(* The byte counter of the manifest cache is the size of what it holds, and *)
(* the map respects both of its limits, for any limits and any number of    *)
(* requests that fetch and put at the same time.                            *)
THEOREM ManifestsWithinLimits == Spec => []MapWithinLimits
  <1>1. Init => MapWithinLimits
    <2>. SUFFICES ASSUME Init  PROVE MapWithinLimits
      OBVIOUS
    <2>1. BytesOf(entries) = 0 /\ Present(entries) = {} /\ bytes = 0
      BY EmptyMap DEF Init
    <2>2. Cardinality(Present(entries)) = 0
      BY <2>1, FS_EmptySet
    <2>. QED  BY <2>1, <2>2, ManifestConstants DEF MapWithinLimits
  <1>2. ManifestInv /\ MapWithinLimits /\ [Next]_vars => MapWithinLimits'
    <2>. SUFFICES ASSUME ManifestInv, MapWithinLimits, [Next]_vars  PROVE MapWithinLimits'
      OBVIOUS
    <2>1. CASE UNCHANGED <<entries, bytes>>
      BY <2>1 DEF MapWithinLimits
    <2>2. CASE Clear
      <3>1. BytesOf(entries') = 0 /\ Present(entries') = {} /\ bytes' = 0
        BY <2>2, EmptyMap DEF Clear
      <3>2. Cardinality(Present(entries')) = 0
        BY <3>1, FS_EmptySet
      <3>. QED  BY <3>1, <3>2, ManifestConstants DEF MapWithinLimits
    <2>3. \/ UNCHANGED <<entries, bytes>> \/ Clear \/ \E r \in Requests : Put(r)
      BY DEF Next, Ask, Fetched, Respond, Publish, Tick, vars, cache
    <2>. QED  BY <2>1, <2>2, <2>3, PutWithinLimits
  <1>. QED  BY <1>1, <1>2, ManifestInit, ManifestNext, PTL DEF Spec
-----------------------------------------------------------------------------
(* What the run checks is a behaviour of each cache: the theorems above,    *)
(* about each of them alone, hold for the two of them side by side.         *)
THEOREM CachesApart == BothSpec => Spec /\ Disk!Spec
  <1>1. BothInit => Init /\ Disk!Init
    BY DEF BothInit
  <1>2. [BothNext]_<<part, vars, disk>> => [Next]_vars /\ [Disk!Next]_(Disk!vars)
    BY DEF BothNext, disk, Disk!vars
  <1>. QED  BY <1>1, <1>2, PTL DEF BothSpec, Spec, Disk!Spec
=============================================================================
