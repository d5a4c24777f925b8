--------------------------- MODULE CowPagingProofs ---------------------------
(***************************************************************************)
(* Proofs about CowPaging, for any number of processes, of frames and of   *)
(* calls of process_exec.                                                  *)
(***************************************************************************)
EXTENDS CowPaging, TLAPS, FiniteSetTheorems, WellFoundedInduction

-----------------------------------------------------------------------------
(* The inductive invariant: what every page table entry, every fork and    *)
(* every copy look like at each place of the code.                         *)

Places ==
  {"user", "unborn", "exited", "destroyed", "panic", "map_page", "copy_alloc", "copy_lock",
   "copying", "copy_release", "nested_fault", "copy_panic", "clone_table", "clone_count",
   "exec", "exit"}

CowTypeOK ==
  /\ phy_frames_map \subseteq Frames
  /\ frame_cow_ref_counts \in [Frames -> Nat]
  /\ page_dir \in [Processes -> 0..NumFrames]
  /\ pde \in [Processes -> 0..NumFrames]
  /\ pte \in [Processes -> [present : BOOLEAN, rw : BOOLEAN, frame : 0..NumFrames]]
  /\ page_copy_lock \in BOOLEAN
  /\ copy_page \in 0..NumFrames
  /\ memory \in [Frames -> Values \cup {Tables}]
  /\ new_frame \in [Processes -> 0..NumFrames]
  /\ child \in [Processes -> Processes]
  /\ execs \in 0..MaxExecs
  /\ pc \in [Processes -> Places]

\* The entries of a process agree with each other and with where it is.
EntryFits(p) ==
  /\ pte[p].rw => pte[p].present
  /\ pte[p].present <=> pte[p].frame # NoFrame
  /\ pte[p].present => pde[p] # NoFrame
  /\ pc[p] \in {"user", "clone_table"} /\ pde[p] # NoFrame => pte[p].present
  /\ pc[p] \in {"map_page", "exec", "exit", "exited", "destroyed"} => ~pte[p].present
  /\ pc[p] = "map_page" => pde[p] # NoFrame
  /\ pc[p] \in {"exited", "destroyed"} => pde[p] = NoFrame
  /\ pc[p] = "copy_release" => pte[p].present
  /\ Copying(p) \/ pc[p] = "clone_count" => pte[p].present /\ ~pte[p].rw
  /\ pc[p] = "unborn" => ~pte[p].rw
  /\ pc[p] # "unborn" => page_dir[p] # NoFrame
  /\ new_frame[p] # NoFrame <=> pc[p] \in {"copy_lock", "copying", "nested_fault"}

EntriesFit == \A p \in Processes : EntryFits(p)

\* A process has a child that is not born exactly while it forks; the tables of the
\* child are as far as the fork is.
ForkFits(p) ==
  /\ child[p] # p => /\ pc[child[p]] = "unborn"
                     /\ page_dir[child[p]] # NoFrame
                     /\ pc[p] \in {"clone_table", "clone_count", "panic"}
  /\ pc[p] \in {"clone_table", "clone_count"} => child[p] # p
  /\ pc[p] = "clone_table" => /\ pde[child[p]] = NoFrame
                              /\ pte[child[p]] = NotPresent
  /\ pc[p] = "clone_count" => /\ pde[child[p]] # NoFrame
                              /\ pte[child[p]] = pte[p]
  /\ Free(p) => /\ page_dir[p] = NoFrame
                /\ pde[p] = NoFrame
                /\ pte[p] = NotPresent

\* It is the child of one process only.
ForksFit ==
  /\ \A p \in Processes : ForkFits(p)
  /\ \A p, q \in Processes :
       child[p] = child[q] /\ child[p] # p /\ child[q] # q => p = q

\* page_copy_lock is held by the only process that copies; the window shows its new
\* frame, or has been unmapped by the process that copied before.
CopiesFit ==
  /\ \A p \in Processes :
       /\ pc[p] \in {"copying", "nested_fault"} => page_copy_lock
       /\ pc[p] = "copying" => copy_page \in {NoFrame, new_frame[p]}
  /\ \A p, q \in Processes :
       pc[p] \in {"copying", "nested_fault"} /\ pc[q] \in {"copying", "nested_fault"}
         => p = q

\* The frame a process maps and is counted for.
Mapped ==
  [p \in Processes |->
     IF pte[p].present /\ ~Copying(p) /\ pc[p] # "unborn" THEN pte[p].frame ELSE NoFrame]

\* Every allocated frame is a directory, a table, the target of a copy or a page, and
\* only one of them; only a page can belong to several processes.
FramesExact ==
  /\ \A f \in Frames :
       f \in phy_frames_map <=>
         \E p \in Processes : f \in {page_dir[p], pde[p], new_frame[p], Mapped[p]}
  /\ \A p, q \in Processes :
       /\ p # q /\ page_dir[p] # NoFrame => page_dir[p] # page_dir[q]
       /\ p # q /\ pde[p] # NoFrame => pde[p] # pde[q]
       /\ p # q /\ new_frame[p] # NoFrame => new_frame[p] # new_frame[q]
       /\ page_dir[p] # NoFrame => page_dir[p] \notin {pde[q], new_frame[q], Mapped[q]}
       /\ pde[p] # NoFrame => pde[p] \notin {new_frame[q], Mapped[q]}
       /\ new_frame[p] # NoFrame => new_frame[p] # Mapped[q]

CowInv ==
  /\ CowTypeOK
  /\ EntriesFit
  /\ ForksFit
  /\ CopiesFit
  /\ FramesExact
  /\ CountIsOtherSharers
  /\ WriterIsAlone

-----------------------------------------------------------------------------
(***************************************************************************)
(* Counts and frames, apart from the rest of the state: m is a value of    *)
(* phy_frames_map, n of frame_cow_ref_counts, d of page_dir, t of pde, c   *)
(* of new_frame and g of Mapped.                                           *)
(***************************************************************************)
FrameFun == [Processes -> 0..NumFrames]

\* h is g but for f at p.
Becomes(h, g, p, f) ==
  /\ h \in FrameFun
  /\ h[p] = f
  /\ \A q \in Processes : q # p => h[q] = g[q]

\* The processes that g maps to f.
Sh(g, f) == {p \in Processes : g[p] = f}

\* CountIsOtherSharers, of n and g.
Counted(n, g) ==
  \A f \in Frames : n[f] = IF Sh(g, f) = {} THEN 0 ELSE Cardinality(Sh(g, f)) - 1

\* The counts after change_cow_frame_refcount.
Changed(n, f, delta) ==
  [n EXCEPT ![f] = IF n[f] + delta > 0 THEN n[f] + delta ELSE 0]

\* FramesExact, of m, d, t, c and g.
Exact(m, d, t, c, g) ==
  /\ \A f \in Frames :
       f \in m <=> \E p \in Processes : f \in {d[p], t[p], c[p], g[p]}
  /\ \A p, q \in Processes :
       /\ p # q /\ d[p] # NoFrame => d[p] # d[q]
       /\ p # q /\ t[p] # NoFrame => t[p] # t[q]
       /\ p # q /\ c[p] # NoFrame => c[p] # c[q]
       /\ d[p] # NoFrame => d[p] \notin {t[q], c[q], g[q]}
       /\ t[p] # NoFrame => t[p] \notin {c[q], g[q]}
       /\ c[p] # NoFrame => c[p] # g[q]

\* WriterIsAlone, of page table entries e and g.
Alone(e, g) ==
  \A p \in Processes : e[p].rw =>
    /\ g[p] = e[p].frame
    /\ \A q \in Processes : g[q] = e[p].frame => q = p

\* A set of natural numbers that is not empty has a least element.
LEMMA LeastNatural ==
  ASSUME NEW S \in SUBSET Nat, S # {}
  PROVE  \E m \in S : \A k \in S : m <= k
<1>1. PICK R : IsWellFoundedOn(R, Nat) /\ \A k, m \in Nat : k < m => <<k, m>> \in R
  <2>1. \A k, m \in Nat : k < m => <<k, m>> \in OpToRel(<, Nat)
    BY DEF OpToRel
  <2> QED
    BY <2>1, NatLessThanWellFounded, Zenon
<1>2. S \subseteq Nat
  OBVIOUS
<1>3. PICK m \in S : \A k \in S : ~ (<<k, m>> \in R)
  <2>1. IsWellFoundedOn(R, Nat)
    BY <1>1
  <2> QED
    BY <1>2, <2>1, WFMin
<1>4. \A k \in S : ~(k < m)
  BY <1>1, <1>2, <1>3, Zenon
<1>5. \A k \in S : m <= k
  BY <1>2, <1>4
<1> QED
  BY <1>5


-----------------------------------------------------------------------------
\* The sharers of a frame are finitely many.
LEMMA ShFinite ==
  ASSUME NEW g \in FrameFun, NEW f \in Frames
  PROVE  IsFiniteSet(Sh(g, f)) /\ Cardinality(Sh(g, f)) \in Nat
<1>1. Sh(g, f) \in SUBSET Processes
  BY DEF Sh
<1>2. IsFiniteSet(Processes)
  BY CowAssumption
<1>3. IsFiniteSet(Sh(g, f))
  BY <1>1, <1>2, FS_Subset
<1> QED
  BY <1>3, FS_CardinalityType

\* A process that begins to map a frame is one more sharer of that frame and of no
\* other.
LEMMA ShGains ==
  ASSUME NEW g \in FrameFun, NEW p \in Processes, NEW f \in Frames, g[p] = NoFrame,
         NEW h, Becomes(h, g, p, f)
  PROVE  /\ h \in FrameFun
         /\ p \in Sh(h, f)
         /\ Cardinality(Sh(h, f)) = Cardinality(Sh(g, f)) + 1
         /\ \A e \in Frames : e # f => Sh(h, e) = Sh(g, e)
<1>1. h \in FrameFun
  BY DEF Becomes
<1>2. Sh(h, f) = Sh(g, f) \cup {p} /\ p \notin Sh(g, f)
  BY DEF Sh, Becomes, Frames, NoFrame
<1>3. \A e \in Frames : e # f => Sh(h, e) = Sh(g, e)
  BY DEF Sh, Becomes, Frames, NoFrame
<1>4. IsFiniteSet(Sh(g, f))
  BY ShFinite
<1>5. Cardinality(Sh(g, f) \cup {p}) = Cardinality(Sh(g, f)) + 1
  BY <1>2, <1>4, FS_AddElement
<1> QED
  BY <1>1, <1>2, <1>3, <1>5

\* A process that no longer maps a frame is one sharer less.
LEMMA ShLoses ==
  ASSUME NEW g \in FrameFun, NEW p \in Processes, NEW f \in Frames, g[p] = f,
         NEW h, Becomes(h, g, p, NoFrame)
  PROVE  /\ h \in FrameFun
         /\ Sh(h, f) = Sh(g, f) \ {p}
         /\ p \in Sh(g, f)
         /\ Cardinality(Sh(h, f)) = Cardinality(Sh(g, f)) - 1
         /\ \A e \in Frames : e # f => Sh(h, e) = Sh(g, e)
<1>1. h \in FrameFun
  BY DEF Becomes
<1>2. Sh(h, f) = Sh(g, f) \ {p} /\ p \in Sh(g, f)
  BY DEF Sh, Becomes, Frames, NoFrame
<1>3. \A e \in Frames : e # f => Sh(h, e) = Sh(g, e)
  BY DEF Sh, Becomes, Frames, NoFrame
<1>4. IsFiniteSet(Sh(g, f))
  BY ShFinite
<1>5. Cardinality(Sh(g, f) \ {p}) = Cardinality(Sh(g, f)) - 1
  BY <1>2, <1>4, FS_RemoveElement
<1> QED
  BY <1>1, <1>2, <1>3, <1>5

\* The number of the sharers of a frame tells whether there are any.
LEMMA ShEmpty ==
  ASSUME NEW g \in FrameFun, NEW f \in Frames
  PROVE  /\ Cardinality(Sh(g, f)) = 0 <=> Sh(g, f) = {}
         /\ Cardinality(Sh(g, f)) \in Nat
BY ShFinite, FS_EmptySet

\* The first process that maps a frame changes no count,
LEMMA CountFirst ==
  ASSUME NEW g \in FrameFun, NEW p \in Processes, NEW f \in Frames, g[p] = NoFrame,
         NEW h, Becomes(h, g, p, f),
         NEW n, Counted(n, g), Sh(g, f) = {}
  PROVE  Counted(n, h)
<1>1. /\ p \in Sh(h, f)
      /\ Cardinality(Sh(h, f)) = Cardinality(Sh(g, f)) + 1
      /\ \A e \in Frames : e # f => Sh(h, e) = Sh(g, e)
  BY ShGains
<1>2. Cardinality(Sh(g, f)) = 0
  BY ShEmpty
<1>3. \A e \in Frames : n[e] = IF Sh(g, e) = {} THEN 0 ELSE Cardinality(Sh(g, e)) - 1
  BY DEF Counted
<1>4. n[f] = Cardinality(Sh(h, f)) - 1 /\ Sh(h, f) # {}
  BY <1>1, <1>2, <1>3
<1>5. SUFFICES ASSUME NEW e \in Frames
               PROVE  n[e] = IF Sh(h, e) = {} THEN 0 ELSE Cardinality(Sh(h, e)) - 1
  BY DEF Counted
<1> QED
  BY <1>1, <1>3, <1>4

\* every other one adds one to it,
LEMMA CountGains ==
  ASSUME NEW g \in FrameFun, NEW p \in Processes, NEW f \in Frames, g[p] = NoFrame,
         NEW h, Becomes(h, g, p, f),
         NEW n \in [Frames -> Nat], Counted(n, g), Sh(g, f) # {}
  PROVE  Counted(Changed(n, f, 1), h)
<1>1. /\ p \in Sh(h, f)
      /\ Cardinality(Sh(h, f)) = Cardinality(Sh(g, f)) + 1
      /\ \A e \in Frames : e # f => Sh(h, e) = Sh(g, e)
  BY ShGains
<1>2. Cardinality(Sh(g, f)) \in Nat
  BY ShEmpty
<1>3. n[f] = Cardinality(Sh(g, f)) - 1
  BY DEF Counted
<1>4. \A e \in Frames : e # f => Changed(n, f, 1)[e] = n[e]
  BY DEF Changed
<1>5. Changed(n, f, 1)[f] = n[f] + 1
  BY DEF Changed
<1>6. Changed(n, f, 1)[f] = Cardinality(Sh(h, f)) - 1 /\ Sh(h, f) # {}
  BY <1>1, <1>2, <1>3, <1>5
<1>7. \A e \in Frames : n[e] = IF Sh(g, e) = {} THEN 0 ELSE Cardinality(Sh(g, e)) - 1
  BY DEF Counted
<1>8. SUFFICES ASSUME NEW e \in Frames
               PROVE  Changed(n, f, 1)[e] =
                        IF Sh(h, e) = {} THEN 0 ELSE Cardinality(Sh(h, e)) - 1
  BY DEF Counted
<1> QED
  BY <1>1, <1>4, <1>6, <1>7

\* and one that goes takes one away, unless the count says it is alone.
LEMMA CountLoses ==
  ASSUME NEW g \in FrameFun, NEW p \in Processes, NEW f \in Frames, g[p] = f,
         NEW h, Becomes(h, g, p, NoFrame),
         NEW n \in [Frames -> Nat], Counted(n, g)
  PROVE  /\ Counted(Changed(n, f, -1), h)
         /\ n[f] > 0 => \E q \in Processes : q # p /\ g[q] = f
         /\ n[f] <= 0 => /\ \A q \in Processes : g[q] = f => q = p
                         /\ Changed(n, f, -1) = n
<1>1. /\ Sh(h, f) = Sh(g, f) \ {p}
      /\ p \in Sh(g, f)
      /\ Cardinality(Sh(h, f)) = Cardinality(Sh(g, f)) - 1
      /\ \A e \in Frames : e # f => Sh(h, e) = Sh(g, e)
  BY ShLoses
<1>2. h \in FrameFun
  BY ShLoses
<1>3. /\ Cardinality(Sh(h, f)) = 0 <=> Sh(h, f) = {}
      /\ Cardinality(Sh(h, f)) \in Nat
  BY <1>2, ShEmpty
<1>4. Cardinality(Sh(g, f)) \in Nat
  BY ShEmpty
<1>5. n[f] = Cardinality(Sh(h, f))
  BY <1>1, <1>3, <1>4 DEF Counted
<1>6. \A e \in Frames : e # f => Changed(n, f, -1)[e] = n[e]
  BY DEF Changed
<1>7. Changed(n, f, -1)[f] = IF n[f] > 0 THEN n[f] - 1 ELSE 0
  BY DEF Changed
<1>8. Counted(Changed(n, f, -1), h)
  <2>1. Changed(n, f, -1)[f] =
          IF Sh(h, f) = {} THEN 0 ELSE Cardinality(Sh(h, f)) - 1
    BY <1>3, <1>5, <1>7
  <2>2. \A e \in Frames : n[e] = IF Sh(g, e) = {} THEN 0 ELSE Cardinality(Sh(g, e)) - 1
    BY DEF Counted
  <2>3. SUFFICES ASSUME NEW e \in Frames
                 PROVE  Changed(n, f, -1)[e] =
                          IF Sh(h, e) = {} THEN 0 ELSE Cardinality(Sh(h, e)) - 1
    BY DEF Counted
  <2> QED
    BY <1>1, <1>6, <2>1, <2>2
<1>9. n[f] > 0 => \E q \in Processes : q # p /\ g[q] = f
  BY <1>1, <1>3, <1>5 DEF Sh
<1>10. n[f] <= 0 => \A q \in Processes : g[q] = f => q = p
  <2>1. n[f] <= 0 => Cardinality(Sh(h, f)) = 0
    BY <1>3, <1>5
  <2>2. n[f] <= 0 => Sh(h, f) = {}
    BY <1>3, <2>1
  <2>3. n[f] <= 0 => Sh(g, f) \ {p} = {}
    BY <1>1, <2>2, Zenon
  <2> QED
    BY <2>3 DEF Sh
<1>11. n[f] <= 0 => Changed(n, f, -1) = n
  BY DEF Changed
<1> QED
  BY <1>8, <1>9, <1>10, <1>11

-----------------------------------------------------------------------------
(* What happens to the frames keeps them exact: allocation,                *)
\* A free frame becomes a directory,
LEMMA NewDirectory ==
  ASSUME NEW m \in SUBSET Frames,
         NEW d \in FrameFun, NEW t \in FrameFun, NEW c \in FrameFun, NEW g \in FrameFun,
         Exact(m, d, t, c, g),
         NEW p \in Processes, NEW f \in Frames, f \notin m, d[p] = NoFrame,
         NEW h, Becomes(h, d, p, f)
  PROVE  Exact(m \cup {f}, h, t, c, g)
BY DEF Exact, Becomes, FrameFun, Frames, NoFrame

\* a table,
LEMMA NewTable ==
  ASSUME NEW m \in SUBSET Frames,
         NEW d \in FrameFun, NEW t \in FrameFun, NEW c \in FrameFun, NEW g \in FrameFun,
         Exact(m, d, t, c, g),
         NEW p \in Processes, NEW f \in Frames, f \notin m, t[p] = NoFrame,
         NEW h, Becomes(h, t, p, f)
  PROVE  Exact(m \cup {f}, d, h, c, g)
BY DEF Exact, Becomes, FrameFun, Frames, NoFrame

\* the target of a copy,
LEMMA NewCopy ==
  ASSUME NEW m \in SUBSET Frames,
         NEW d \in FrameFun, NEW t \in FrameFun, NEW c \in FrameFun, NEW g \in FrameFun,
         Exact(m, d, t, c, g),
         NEW p \in Processes, NEW f \in Frames, f \notin m, c[p] = NoFrame,
         NEW h, Becomes(h, c, p, f)
  PROVE  Exact(m \cup {f}, d, t, h, g)
BY DEF Exact, Becomes, FrameFun, Frames, NoFrame

\* or a page.
LEMMA NewPage ==
  ASSUME NEW m \in SUBSET Frames,
         NEW d \in FrameFun, NEW t \in FrameFun, NEW c \in FrameFun, NEW g \in FrameFun,
         Exact(m, d, t, c, g),
         NEW p \in Processes, NEW f \in Frames, f \notin m, g[p] = NoFrame,
         NEW h, Becomes(h, g, p, f)
  PROVE  Exact(m \cup {f}, d, t, c, h)
BY DEF Exact, Becomes, FrameFun, Frames, NoFrame

\* The target of a copy becomes a page.
LEMMA CopyToPage ==
  ASSUME NEW m \in SUBSET Frames,
         NEW d \in FrameFun, NEW t \in FrameFun, NEW c \in FrameFun, NEW g \in FrameFun,
         Exact(m, d, t, c, g),
         NEW p \in Processes, NEW f \in Frames, c[p] = f, g[p] = NoFrame,
         NEW h, Becomes(h, c, p, NoFrame), NEW k, Becomes(k, g, p, f)
  PROVE  Exact(m, d, t, h, k)
BY DEF Exact, Becomes, FrameFun, Frames, NoFrame

\* A page gains a sharer,
LEMMA PageShared ==
  ASSUME NEW m \in SUBSET Frames,
         NEW d \in FrameFun, NEW t \in FrameFun, NEW c \in FrameFun, NEW g \in FrameFun,
         Exact(m, d, t, c, g),
         NEW p \in Processes, NEW f \in Frames, g[p] = NoFrame,
         NEW q \in Processes, g[q] = f,
         NEW h, Becomes(h, g, p, f)
  PROVE  Exact(m, d, t, c, h)
BY DEF Exact, Becomes, FrameFun, Frames, NoFrame

\* loses one of several,
LEMMA PageStaysShared ==
  ASSUME NEW m \in SUBSET Frames,
         NEW d \in FrameFun, NEW t \in FrameFun, NEW c \in FrameFun, NEW g \in FrameFun,
         Exact(m, d, t, c, g),
         NEW p \in Processes, NEW f \in Frames, g[p] = f,
         NEW q \in Processes, q # p, g[q] = f,
         NEW h, Becomes(h, g, p, NoFrame)
  PROVE  Exact(m, d, t, c, h)
BY DEF Exact, Becomes, FrameFun, Frames, NoFrame

\* or the last one, and is freed.
LEMMA PageFreed ==
  ASSUME NEW m \in SUBSET Frames,
         NEW d \in FrameFun, NEW t \in FrameFun, NEW c \in FrameFun, NEW g \in FrameFun,
         Exact(m, d, t, c, g),
         NEW p \in Processes, NEW f \in Frames, g[p] = f,
         \A q \in Processes : g[q] = f => q = p,
         NEW h, Becomes(h, g, p, NoFrame)
  PROVE  Exact(m \ {f}, d, t, c, h)
BY DEF Exact, Becomes, FrameFun, Frames, NoFrame

\* A table is freed.
LEMMA TableFreed ==
  ASSUME NEW m \in SUBSET Frames,
         NEW d \in FrameFun, NEW t \in FrameFun, NEW c \in FrameFun, NEW g \in FrameFun,
         Exact(m, d, t, c, g),
         NEW p \in Processes, NEW f \in Frames, t[p] = f,
         NEW h, Becomes(h, t, p, NoFrame)
  PROVE  Exact(m \ {f}, d, h, c, g)
BY DEF Exact, Becomes, FrameFun, Frames, NoFrame

-----------------------------------------------------------------------------
(* The invariant in terms of these, now and after a step.                  *)
CowData ==
  /\ CowTypeOK
  /\ EntriesFit
  /\ ForksFit
  /\ CopiesFit
  /\ Mapped \in FrameFun
  /\ Exact(phy_frames_map, page_dir, pde, new_frame, Mapped)
  /\ Counted(frame_cow_ref_counts, Mapped)
  /\ Alone(pte, Mapped)

\* Mapped is a function to frames, and its inverse images are the sharers, now
LEMMA MappedNow ==
  ASSUME CowTypeOK
  PROVE  /\ Mapped \in FrameFun
         /\ \A f \in Frames : Sharers(f) = Sh(Mapped, f)
<1>1. Mapped \in FrameFun
  BY CowAssumption DEF Mapped, FrameFun, CowTypeOK, NoFrame
<1>2. \A f \in Frames : Sharers(f) = Sh(Mapped, f)
  BY DEF Sharers, Sh, Mapped, Frames, NoFrame
<1> QED
  BY <1>1, <1>2

\* and after a step.
LEMMA MappedNext ==
  ASSUME CowTypeOK'
  PROVE  /\ Mapped' \in FrameFun
         /\ \A f \in Frames : Sharers(f)' = Sh(Mapped', f)
<1>1. Mapped' \in FrameFun
  BY CowAssumption DEF Mapped, FrameFun, CowTypeOK, NoFrame
<1>2. \A f \in Frames : Sharers(f)' = Sh(Mapped', f)
  BY DEF Sharers, Sh, Mapped, Frames, NoFrame
<1> QED
  BY <1>1, <1>2

\* The invariant gives its parts in terms of Mapped,
LEMMA DataNow ==
  ASSUME CowInv
  PROVE  CowData
<1> USE DEF CowInv
<1>1. \A f \in Frames : Sharers(f) = Sh(Mapped, f)
  BY MappedNow
<1>2. Mapped \in FrameFun
  BY MappedNow
<1>3. Exact(phy_frames_map, page_dir, pde, new_frame, Mapped)
  BY DEF FramesExact, Exact
<1>4. Counted(frame_cow_ref_counts, Mapped)
  BY <1>1 DEF CountIsOtherSharers, Counted
<1>5. \A p \in Processes : pte[p].rw => pte[p].frame \in Frames
  BY CowAssumption DEF EntriesFit, EntryFits, CowTypeOK, Frames, NoFrame
<1>6. Alone(pte, Mapped)
  BY <1>1, <1>5 DEF WriterIsAlone, Alone, Sh
<1> QED
  BY <1>2, <1>3, <1>4, <1>6 DEF CowData

\* and they give the invariant of the next state.
LEMMA DataNext ==
  ASSUME CowData'
  PROVE  CowInv'
<1> USE DEF CowData
<1>1. \A f \in Frames : Sharers(f)' = Sh(Mapped', f)
  BY MappedNext
<1>2. FramesExact'
  BY DEF FramesExact, Exact
<1>3. CountIsOtherSharers'
  BY <1>1 DEF CountIsOtherSharers, Counted
<1>4. \A p \in Processes : pte'[p].rw => pte'[p].frame \in Frames
  BY CowAssumption DEF EntriesFit, EntryFits, CowTypeOK, Frames, NoFrame
<1>5. WriterIsAlone'
  BY <1>1, <1>4 DEF WriterIsAlone, Alone, Sh
<1> QED
  BY <1>2, <1>3, <1>5 DEF CowInv

\* A frame that allocate_phy_frame returns was free.
LEMMA FirstFreeIsFree ==
  ASSUME CowTypeOK, ~Exhausted
  PROVE  FirstFree \in Frames /\ FirstFree \notin phy_frames_map
<1> DEFINE S == Frames \ phy_frames_map
<1>1. S \in SUBSET Nat /\ S # {}
  <2>1. phy_frames_map \subseteq 1..NumFrames /\ phy_frames_map # 1..NumFrames
    BY DEF CowTypeOK, Exhausted, Frames
  <2>2. NumFrames \in Nat
    BY CowAssumption
  <2>3. S = (1..NumFrames) \ phy_frames_map
    BY DEF Frames
  <2>4. S \subseteq Nat
    BY <2>2, <2>3
  <2>5. \E x \in 1..NumFrames : x \notin phy_frames_map
    BY <2>1
  <2> QED
    BY <2>3, <2>4, <2>5
<1>2. \E x \in S : \A y \in S : x <= y
  BY <1>1, LeastNatural
<1>3. Min(S) \in S
  BY <1>2 DEF Min
<1> QED
  BY <1>3 DEF FirstFree

-----------------------------------------------------------------------------
(* Every action keeps the invariant.                                       *)

\* Who runs is the child of no fork that is under way.
LEMMA NotAChild ==
  ASSUME CowData, NEW p \in Processes, pc[p] # "unborn"
  PROVE  \A q \in Processes : child[q] = p => q = p
BY DEF CowData, CowTypeOK, ForksFit, ForkFits

\* A store changes the content of a frame and nothing else.
LEMMA StoreKeeps ==
  ASSUME CowInv, memory' \in [Frames -> Values \cup {Tables}],
         UNCHANGED <<frameVars, tableVars, copyVars, child, execs, pc>>
  PROVE  CowInv'
<1> USE DEF frameVars, tableVars, copyVars
<1>1. CowData
  BY DataNow
<1>2. Mapped' = Mapped
  BY DEF Mapped, Copying
<1>3. CowTypeOK'
  BY <1>1 DEF CowData, CowTypeOK, Places
<1>4. EntriesFit' /\ ForksFit' /\ CopiesFit'
  BY <1>1 DEF CowData, EntriesFit, EntryFits, ForksFit, ForkFits, CopiesFit, Copying, Free
<1> QED
  BY <1>1, <1>2, <1>3, <1>4, DataNext DEF CowData

\* A page table is one more frame.
LEMMA MapTableKeeps ==
  ASSUME CowInv, NEW p \in Processes, MapTable(p)
  PROVE  CowInv'
<1>1. CowData
  BY DataNow
<1> USE DEF MapTable, Goto, frameVars, tableVars, copyVars, NoFrame
<1>2. FirstFree \in Frames /\ FirstFree \notin phy_frames_map
  BY <1>1, FirstFreeIsFree DEF CowData, allocate_phy_frame
<1> HIDE DEF NoFrame
<1> USE DEF allocate_phy_frame
<1>3. FirstFree # NoFrame
  BY <1>2, CowAssumption DEF Frames, NoFrame
<1>4. \A q \in Processes : child[q] = p => q = p
  BY <1>1, NotAChild
<1>5. CowTypeOK'
  BY <1>1, <1>2, <1>3, CowAssumption
     DEF CowData, CowTypeOK, Places, EntriesFit, EntryFits, Frames, NoFrame
<1>6. EntriesFit'
  <2>1. SUFFICES ASSUME NEW q \in Processes
                 PROVE  EntryFits(q)'
    BY DEF EntriesFit
  <2>2. CowTypeOK /\ EntryFits(q) /\ EntryFits(p) /\ ForkFits(p)
    BY <1>1 DEF CowData, EntriesFit, ForksFit
  <2>3. CASE q = p
    BY <1>2, <1>3, <2>2, <2>3 DEF CowTypeOK, EntryFits, Copying, NotPresent
  <2>4. CASE q # p
    BY <1>2, <1>3, <2>2, <2>4 DEF CowTypeOK, EntryFits, Copying, NotPresent
  <2> QED
    BY <2>3, <2>4
<1>7. ForksFit'
  <2>1. ASSUME NEW q \in Processes
        PROVE  ForkFits(q)'
    <3>1. CowTypeOK /\ ForkFits(q) /\ ForkFits(p) /\ EntryFits(p)
      BY <1>1 DEF CowData, EntriesFit, ForksFit
    <3>2. CASE q = p
      BY <1>2, <1>3, <1>4, <3>1, <3>2 DEF CowTypeOK, ForkFits, EntryFits, Free, NotPresent
    <3>3. CASE q # p
      BY <1>2, <1>3, <1>4, <3>1, <3>3 DEF CowTypeOK, ForkFits, EntryFits, Free, NotPresent
    <3> QED
      BY <3>2, <3>3
  <2>2. ASSUME NEW q \in Processes, NEW r \in Processes,
               child'[q] = child'[r], child'[q] # q, child'[r] # r
        PROVE  q = r
    BY <1>1, <2>2 DEF CowData, CowTypeOK, ForksFit, Free
  <2> QED
    BY <2>1, <2>2 DEF ForksFit
<1>8. CopiesFit'
  BY <1>1, <1>2, <1>3, <1>4
     DEF CowData, CowTypeOK, EntriesFit, EntryFits, CopiesFit, ForksFit, ForkFits, Free
<1>9. Mapped' = Mapped
  BY <1>1 DEF CowData, CowTypeOK, EntriesFit, EntryFits, ForksFit, ForkFits, Mapped, Copying
<1>10. Exact(phy_frames_map', page_dir', pde', new_frame', Mapped')
  <2>1. /\ phy_frames_map \in SUBSET Frames
        /\ page_dir \in FrameFun /\ pde \in FrameFun
        /\ new_frame \in FrameFun /\ Mapped \in FrameFun
        /\ Exact(phy_frames_map, page_dir, pde, new_frame, Mapped)
    BY <1>1 DEF CowData, CowTypeOK, FrameFun
  <2>2. pde[p] = NoFrame
    BY <1>1 DEF CowData, EntriesFit, EntryFits, ForksFit, ForkFits
  <2>3. Becomes(pde', pde, p, FirstFree)
    BY <1>1, <1>2, <1>5 DEF CowData, CowTypeOK, Becomes, FrameFun, ForksFit
  <2>4. Exact(phy_frames_map \cup {FirstFree}, page_dir, pde', new_frame, Mapped)
    BY <1>2, <2>1, <2>2, <2>3, NewTable
  <2> QED
    BY <1>9, <2>4
<1>11. Counted(frame_cow_ref_counts', Mapped')
  BY <1>1, <1>9 DEF CowData
<1>12. Alone(pte', Mapped')
  BY <1>1, <1>9 DEF CowData
<1>13. Mapped' \in FrameFun
  BY <1>5, MappedNext
<1> QED
  BY <1>5, <1>6, <1>7, <1>8, <1>10, <1>11, <1>12, <1>13, DataNext DEF CowData

\* The lock and the window are about no frame's use.
LEMMA CopyLocksKeeps ==
  ASSUME CowInv, NEW p \in Processes, CopyLocks(p)
  PROVE  CowInv'
<1>1. CowData
  BY DataNow
<1> USE DEF CopyLocks, Goto, frameVars, tableVars, copyVars, NoFrame
<1>2. \A q \in Processes : child[q] = p => q = p
  BY <1>1, NotAChild
<1>3. CowTypeOK'
  BY <1>1, CowAssumption DEF CowData, CowTypeOK, Places, EntriesFit, EntryFits, Frames, NoFrame
<1>4. EntriesFit'
  <2>1. SUFFICES ASSUME NEW q \in Processes
                 PROVE  EntryFits(q)'
    BY DEF EntriesFit
  <2>2. CowTypeOK /\ EntryFits(q) /\ EntryFits(p) /\ ForkFits(p)
    BY <1>1 DEF CowData, EntriesFit, ForksFit
  <2>3. CASE q = p
    BY <2>2, <2>3 DEF CowTypeOK, EntryFits, Copying, NotPresent
  <2>4. CASE q # p
    BY <2>2, <2>4 DEF CowTypeOK, EntryFits, Copying, NotPresent
  <2> QED
    BY <2>3, <2>4
<1>5. ForksFit'
  <2>1. ASSUME NEW q \in Processes
        PROVE  ForkFits(q)'
    <3>1. CowTypeOK /\ ForkFits(q) /\ ForkFits(p) /\ EntryFits(p)
      BY <1>1 DEF CowData, EntriesFit, ForksFit
    <3>2. CASE q = p
      BY <1>2, <3>1, <3>2 DEF CowTypeOK, ForkFits, EntryFits, Free, NotPresent
    <3>3. CASE q # p
      BY <1>2, <3>1, <3>3 DEF CowTypeOK, ForkFits, EntryFits, Free, NotPresent
    <3> QED
      BY <3>2, <3>3
  <2>2. ASSUME NEW q \in Processes, NEW r \in Processes,
               child'[q] = child'[r], child'[q] # q, child'[r] # r
        PROVE  q = r
    BY <1>1, <2>2 DEF CowData, CowTypeOK, ForksFit, Free
  <2> QED
    BY <2>1, <2>2 DEF ForksFit
<1>6. CopiesFit'
  BY <1>1, <1>2
     DEF CowData, CowTypeOK, EntriesFit, EntryFits, CopiesFit, ForksFit, ForkFits, Free
<1>7. Mapped' = Mapped
  BY <1>1 DEF CowData, CowTypeOK, EntriesFit, EntryFits, ForksFit, ForkFits, Mapped, Copying
<1>8. Exact(phy_frames_map', page_dir', pde', new_frame', Mapped')
  BY <1>1, <1>7 DEF CowData
<1>9. Counted(frame_cow_ref_counts', Mapped')
  BY <1>1, <1>7 DEF CowData
<1>10. Alone(pte', Mapped')
  BY <1>1, <1>7 DEF CowData
<1>11. Mapped' \in FrameFun
  BY <1>3, MappedNext
<1> QED
  BY <1>3, <1>4, <1>5, <1>6, <1>8, <1>9, <1>10, <1>11, DataNext DEF CowData

\* A fault inside the fault only stops the process.
LEMMA CopyFaultsKeeps ==
  ASSUME CowInv, NEW p \in Processes, CopyFaults(p)
  PROVE  CowInv'
<1>1. CowData
  BY DataNow
<1> USE DEF CopyFaults, Goto, frameVars, tableVars, copyVars, NoFrame
<1>2. \A q \in Processes : child[q] = p => q = p
  BY <1>1, NotAChild
<1>3. CowTypeOK'
  BY <1>1, CowAssumption DEF CowData, CowTypeOK, Places, EntriesFit, EntryFits, Frames, NoFrame
<1>4. EntriesFit'
  <2>1. SUFFICES ASSUME NEW q \in Processes
                 PROVE  EntryFits(q)'
    BY DEF EntriesFit
  <2>2. CowTypeOK /\ EntryFits(q) /\ EntryFits(p) /\ ForkFits(p)
    BY <1>1 DEF CowData, EntriesFit, ForksFit
  <2>3. CASE q = p
    BY <2>2, <2>3 DEF CowTypeOK, EntryFits, Copying, NotPresent
  <2>4. CASE q # p
    BY <2>2, <2>4 DEF CowTypeOK, EntryFits, Copying, NotPresent
  <2> QED
    BY <2>3, <2>4
<1>5. ForksFit'
  <2>1. ASSUME NEW q \in Processes
        PROVE  ForkFits(q)'
    <3>1. CowTypeOK /\ ForkFits(q) /\ ForkFits(p) /\ EntryFits(p)
      BY <1>1 DEF CowData, EntriesFit, ForksFit
    <3>2. CASE q = p
      BY <1>2, <3>1, <3>2 DEF CowTypeOK, ForkFits, EntryFits, Free, NotPresent
    <3>3. CASE q # p
      BY <1>2, <3>1, <3>3 DEF CowTypeOK, ForkFits, EntryFits, Free, NotPresent
    <3> QED
      BY <3>2, <3>3
  <2>2. ASSUME NEW q \in Processes, NEW r \in Processes,
               child'[q] = child'[r], child'[q] # q, child'[r] # r
        PROVE  q = r
    BY <1>1, <2>2 DEF CowData, CowTypeOK, ForksFit, Free
  <2> QED
    BY <2>1, <2>2 DEF ForksFit
<1>6. CopiesFit'
  BY <1>1, <1>2
     DEF CowData, CowTypeOK, EntriesFit, EntryFits, CopiesFit, ForksFit, ForkFits, Free
<1>7. Mapped' = Mapped
  BY <1>1 DEF CowData, CowTypeOK, EntriesFit, EntryFits, ForksFit, ForkFits, Mapped, Copying
<1>8. Exact(phy_frames_map', page_dir', pde', new_frame', Mapped')
  BY <1>1, <1>7 DEF CowData
<1>9. Counted(frame_cow_ref_counts', Mapped')
  BY <1>1, <1>7 DEF CowData
<1>10. Alone(pte', Mapped')
  BY <1>1, <1>7 DEF CowData
<1>11. Mapped' \in FrameFun
  BY <1>3, MappedNext
<1> QED
  BY <1>3, <1>4, <1>5, <1>6, <1>8, <1>9, <1>10, <1>11, DataNext DEF CowData

\* release_phy_frame with the address of a directory clears no bit of the frames.
LEMMA AddressIsNoFrame ==
  ASSUME NEW f \in 0..NumFrames
  PROVE  Address(f) - KernelFrames \notin Frames
<1>1. /\ KernelFrames \in Nat /\ PAGE_SIZE \in Nat /\ f \in Nat /\ NumFrames \in Nat
      /\ KernelFrames * PAGE_SIZE > KernelFrames + NumFrames
  BY CowAssumption, AddressAssumption
<1>2. KernelFrames * PAGE_SIZE \in Nat /\ f * PAGE_SIZE \in Nat
  BY <1>1
<1>3. Address(f) = KernelFrames * PAGE_SIZE + f * PAGE_SIZE
  BY <1>1 DEF Address
<1> QED
  BY <1>1, <1>2, <1>3 DEF Frames

\* destroy_process changes no table and no frame.
LEMMA DestroyKeeps ==
  ASSUME CowInv, NEW p \in Processes, destroy_process(p)
  PROVE  CowInv'
<1>1. CowData
  BY DataNow
<1> USE DEF destroy_process, Goto, frameVars, tableVars, copyVars, NoFrame
<1>2. \A q \in Processes : child[q] = p => q = p
  BY <1>1, NotAChild
<1>3. phy_frames_map' = phy_frames_map
  BY <1>1, AddressIsNoFrame DEF CowData, CowTypeOK, release_phy_frame
<1> HIDE DEF destroy_process
<1>4. /\ pc[p] = "exited" /\ pc' = [pc EXCEPT ![p] = "destroyed"]
       /\ UNCHANGED <<phy_frames_map, frame_cow_ref_counts, page_dir, pde, pte, page_copy_lock,
                      copy_page, new_frame, memory, child, execs>>
  BY <1>3 DEF destroy_process
<1>5. CowTypeOK'
  BY <1>1, <1>4, CowAssumption DEF CowData, CowTypeOK, Places, EntriesFit, EntryFits, Frames, NoFrame
<1>6. EntriesFit'
  <2>1. SUFFICES ASSUME NEW q \in Processes
                 PROVE  EntryFits(q)'
    BY DEF EntriesFit
  <2>2. CowTypeOK /\ EntryFits(q) /\ EntryFits(p) /\ ForkFits(p)
    BY <1>1 DEF CowData, EntriesFit, ForksFit
  <2>3. CASE q = p
    BY <1>4, <2>2, <2>3 DEF CowTypeOK, EntryFits, Copying, NotPresent
  <2>4. CASE q # p
    BY <1>4, <2>2, <2>4 DEF CowTypeOK, EntryFits, Copying, NotPresent
  <2> QED
    BY <2>3, <2>4
<1>7. ForksFit'
  <2>1. ASSUME NEW q \in Processes
        PROVE  ForkFits(q)'
    <3>1. CowTypeOK /\ ForkFits(q) /\ ForkFits(p) /\ EntryFits(p)
      BY <1>1 DEF CowData, EntriesFit, ForksFit
    <3>2. CASE q = p
      BY <1>2, <1>4, <3>1, <3>2 DEF CowTypeOK, ForkFits, EntryFits, Free, NotPresent
    <3>3. CASE q # p
      BY <1>2, <1>4, <3>1, <3>3 DEF CowTypeOK, ForkFits, EntryFits, Free, NotPresent
    <3> QED
      BY <3>2, <3>3
  <2>2. ASSUME NEW q \in Processes, NEW r \in Processes,
               child'[q] = child'[r], child'[q] # q, child'[r] # r
        PROVE  q = r
    BY <1>1, <1>4, <2>2 DEF CowData, CowTypeOK, ForksFit, Free
  <2> QED
    BY <2>1, <2>2 DEF ForksFit
<1>8. CopiesFit'
  BY <1>1, <1>2, <1>4
     DEF CowData, CowTypeOK, EntriesFit, EntryFits, CopiesFit, ForksFit, ForkFits, Free
<1>9. Mapped' = Mapped
  BY <1>1, <1>4 DEF CowData, CowTypeOK, EntriesFit, EntryFits, ForksFit, ForkFits, Mapped, Copying
<1>10. Exact(phy_frames_map', page_dir', pde', new_frame', Mapped')
  BY <1>1, <1>9, <1>4 DEF CowData
<1>11. Counted(frame_cow_ref_counts', Mapped')
  BY <1>1, <1>4, <1>9 DEF CowData
<1>12. Alone(pte', Mapped')
  BY <1>1, <1>4, <1>9 DEF CowData
<1>13. Mapped' \in FrameFun
  BY <1>5, MappedNext
<1> QED
  BY <1>5, <1>6, <1>7, <1>8, <1>10, <1>11, <1>12, <1>13, DataNext DEF CowData

\* The window is about no frame's use.
LEMMA CopyReleasesWindowKeeps ==
  ASSUME CowInv, NEW p \in Processes, CopyReleasesWindow(p)
  PROVE  CowInv'
<1>1. CowData
  BY DataNow
<1> USE DEF CopyReleasesWindow, Goto, frameVars, tableVars, copyVars, NoFrame
<1>2. \A q \in Processes : child[q] = p => q = p
  BY <1>1, NotAChild
<1>3. CowTypeOK'
  BY <1>1, CowAssumption, SMTT(40) DEF CowData, CowTypeOK, Places, EntriesFit, EntryFits, Frames, NoFrame
<1>4. EntriesFit'
  <2>1. SUFFICES ASSUME NEW q \in Processes
                 PROVE  EntryFits(q)'
    BY DEF EntriesFit
  <2>2. CowTypeOK /\ EntryFits(q) /\ EntryFits(p) /\ ForkFits(p)
    BY <1>1 DEF CowData, EntriesFit, ForksFit
  <2>3. CASE q = p
    BY <2>2, <2>3 DEF CowTypeOK, EntryFits, Copying, NotPresent
  <2>4. CASE q # p
    BY <2>2, <2>4 DEF CowTypeOK, EntryFits, Copying, NotPresent
  <2> QED
    BY <2>3, <2>4
<1>5. ForksFit'
  <2>1. ASSUME NEW q \in Processes
        PROVE  ForkFits(q)'
    <3>1. CowTypeOK /\ ForkFits(q) /\ ForkFits(p) /\ EntryFits(p)
      BY <1>1 DEF CowData, EntriesFit, ForksFit
    <3>2. CASE q = p
      BY <1>2, <3>1, <3>2 DEF CowTypeOK, ForkFits, EntryFits, Free, NotPresent
    <3>3. CASE q # p
      BY <1>2, <3>1, <3>3 DEF CowTypeOK, ForkFits, EntryFits, Free, NotPresent
    <3> QED
      BY <3>2, <3>3
  <2>2. ASSUME NEW q \in Processes, NEW r \in Processes,
               child'[q] = child'[r], child'[q] # q, child'[r] # r
        PROVE  q = r
    BY <1>1, <2>2 DEF CowData, CowTypeOK, ForksFit, Free
  <2> QED
    BY <2>1, <2>2 DEF ForksFit
<1>6. CopiesFit'
  BY <1>1, <1>2
     DEF CowData, CowTypeOK, EntriesFit, EntryFits, CopiesFit, ForksFit, ForkFits, Free
<1>7. Mapped' = Mapped
  BY <1>1 DEF CowData, CowTypeOK, EntriesFit, EntryFits, ForksFit, ForkFits, Mapped, Copying
<1>8. Exact(phy_frames_map', page_dir', pde', new_frame', Mapped')
  BY <1>1, <1>7 DEF CowData
<1>9. Counted(frame_cow_ref_counts', Mapped')
  BY <1>1, <1>7 DEF CowData
<1>10. Alone(pte', Mapped')
  BY <1>1, <1>7 DEF CowData
<1>11. Mapped' \in FrameFun
  BY <1>3, MappedNext
<1> QED
  BY <1>3, <1>4, <1>5, <1>6, <1>8, <1>9, <1>10, <1>11, DataNext DEF CowData

\* A panic leaves everything as it is.
LEMMA AllocationFailsKeeps ==
  ASSUME CowInv, NEW p \in Processes, AllocationFails(p)
  PROVE  CowInv'
<1>1. CowData
  BY DataNow
<1> USE DEF AllocationFails, Goto, frameVars, tableVars, copyVars, NoFrame
<1> USE DEF AtAllocation
<1>2. \A q \in Processes : child[q] = p => q = p
  BY <1>1, NotAChild
<1>3. CowTypeOK'
  BY <1>1, CowAssumption
     DEF CowData, CowTypeOK, Places, EntriesFit, EntryFits, Frames, AtAllocation, NoFrame
<1>4. EntriesFit'
  <2>1. SUFFICES ASSUME NEW q \in Processes
                 PROVE  EntryFits(q)'
    BY DEF EntriesFit
  <2>2. CowTypeOK /\ EntryFits(q) /\ EntryFits(p) /\ ForkFits(p)
    BY <1>1 DEF CowData, EntriesFit, ForksFit
  <2>3. CASE q = p
    BY <2>2, <2>3 DEF CowTypeOK, EntryFits, Copying, NotPresent, AtAllocation
  <2>4. CASE q # p
    BY <2>2, <2>4 DEF CowTypeOK, EntryFits, Copying, NotPresent, AtAllocation
  <2> QED
    BY <2>3, <2>4
<1>5. ForksFit'
  <2>1. ASSUME NEW q \in Processes
        PROVE  ForkFits(q)'
    <3>1. CowTypeOK /\ ForkFits(q) /\ ForkFits(p) /\ EntryFits(p)
      BY <1>1 DEF CowData, EntriesFit, ForksFit
    <3>2. CASE q = p
      BY <1>2, <3>1, <3>2 DEF CowTypeOK, ForkFits, EntryFits, Free, NotPresent, AtAllocation
    <3>3. CASE q # p
      BY <1>2, <3>1, <3>3 DEF CowTypeOK, ForkFits, EntryFits, Free, NotPresent, AtAllocation
    <3> QED
      BY <3>2, <3>3
  <2>2. ASSUME NEW q \in Processes, NEW r \in Processes,
               child'[q] = child'[r], child'[q] # q, child'[r] # r
        PROVE  q = r
    BY <1>1, <2>2 DEF CowData, CowTypeOK, ForksFit, Free, AtAllocation
  <2> QED
    BY <2>1, <2>2 DEF ForksFit
<1>6. CopiesFit'
  BY <1>1, <1>2
     DEF CowData, CowTypeOK, EntriesFit, EntryFits, CopiesFit, ForksFit, ForkFits, AtAllocation, Free
<1>7. Mapped' = Mapped
  BY <1>1
     DEF CowData, CowTypeOK, EntriesFit, EntryFits, ForksFit, ForkFits, Mapped, Copying, AtAllocation
<1>8. Exact(phy_frames_map', page_dir', pde', new_frame', Mapped')
  BY <1>1, <1>7 DEF CowData
<1>9. Counted(frame_cow_ref_counts', Mapped')
  BY <1>1, <1>7 DEF CowData
<1>10. Alone(pte', Mapped')
  BY <1>1, <1>7 DEF CowData
<1>11. Mapped' \in FrameFun
  BY <1>3, MappedNext
<1> QED
  BY <1>3, <1>4, <1>5, <1>6, <1>8, <1>9, <1>10, <1>11, DataNext DEF CowData

\* A fork without a page table only starts the child.
LEMMA CloneNoTableKeeps ==
  ASSUME CowInv, NEW p \in Processes, CloneNoTable(p)
  PROVE  CowInv'
<1>1. CowData
  BY DataNow
<1> USE DEF CloneNoTable, Goto, frameVars, tableVars, copyVars, NoFrame
<1> USE DEF CloneEnds
<1>2. \A q, r \in Processes :
         child[q] = child[r] /\ child[q] # q /\ child[r] # r => q = r
  BY <1>1 DEF CowData, ForksFit
<1>3. \A q \in Processes : child[q] = p => q = p
  BY <1>1, NotAChild
<1>4. CowTypeOK'
  BY <1>1, CowAssumption
     DEF CowData, CowTypeOK, Places, EntriesFit, EntryFits, Frames, CloneEnds, NoFrame
<1>5. EntriesFit'
  <2>1. SUFFICES ASSUME NEW q \in Processes
                 PROVE  EntryFits(q)'
    BY DEF EntriesFit
  <2>2. CowTypeOK /\ EntryFits(q) /\ EntryFits(p) /\ ForkFits(p)
    BY <1>1 DEF CowData, EntriesFit, ForksFit
  <2>3. CASE q = p
    BY <2>2, <2>3 DEF CowTypeOK, EntryFits, Copying, NotPresent, CloneEnds, ForkFits
  <2>4. CASE q # p
    BY <2>2, <2>4 DEF CowTypeOK, EntryFits, Copying, NotPresent, CloneEnds, ForkFits
  <2> QED
    BY <2>3, <2>4
<1>6. ForksFit'
  <2>1. ASSUME NEW q \in Processes
        PROVE  ForkFits(q)'
    <3>1. CowTypeOK /\ ForkFits(q) /\ ForkFits(p) /\ EntryFits(p)
      BY <1>1 DEF CowData, EntriesFit, ForksFit
    <3>2. CASE q = p
      BY <1>2, <1>3, <3>1, <3>2
         DEF CowTypeOK, ForkFits, EntryFits, Free, NotPresent, CloneEnds
    <3>3. CASE q # p
      BY <1>2, <1>3, <3>1, <3>3
         DEF CowTypeOK, ForkFits, EntryFits, Free, NotPresent, CloneEnds
    <3> QED
      BY <3>2, <3>3
  <2>2. ASSUME NEW q \in Processes, NEW r \in Processes,
               child'[q] = child'[r], child'[q] # q, child'[r] # r
        PROVE  q = r
    BY <1>1, <2>2 DEF CowData, CowTypeOK, ForksFit, Free, CloneEnds
  <2> QED
    BY <2>1, <2>2 DEF ForksFit
<1>7. CopiesFit'
  BY <1>1, <1>3
     DEF CowData, CowTypeOK, EntriesFit, EntryFits, CopiesFit, ForksFit, ForkFits, CloneEnds, Free
<1>8. Mapped' = Mapped
  BY <1>1
     DEF CowData, CowTypeOK, EntriesFit, EntryFits, ForksFit, ForkFits, Mapped, Copying, CloneEnds
<1>9. Exact(phy_frames_map', page_dir', pde', new_frame', Mapped')
  BY <1>1, <1>8 DEF CowData
<1>10. Counted(frame_cow_ref_counts', Mapped')
  BY <1>1, <1>8 DEF CowData
<1>11. Alone(pte', Mapped')
  BY <1>1, <1>8 DEF CowData
<1>12. Mapped' \in FrameFun
  BY <1>4, MappedNext
<1> QED
  BY <1>4, <1>5, <1>6, <1>7, <1>9, <1>10, <1>11, <1>12, DataNext DEF CowData

\* A new page is one more frame, with one sharer.
LEMMA MapNewPageKeeps ==
  ASSUME CowInv, NEW p \in Processes, MapNewPage(p)
  PROVE  CowInv'
<1>1. CowData
  BY DataNow
<1> USE DEF MapNewPage, Goto, frameVars, tableVars, copyVars, NoFrame
<1>2. FirstFree \in Frames /\ FirstFree \notin phy_frames_map
  BY <1>1, FirstFreeIsFree DEF CowData, allocate_phy_frame
<1> HIDE DEF NoFrame
<1> USE DEF allocate_phy_frame
<1>3. FirstFree # NoFrame
  BY <1>2, CowAssumption DEF Frames, NoFrame
<1>4. \A q \in Processes : child[q] = p => q = p
  BY <1>1, NotAChild
<1>5. CowTypeOK'
  BY <1>1, <1>2, <1>3, CowAssumption
     DEF CowData, CowTypeOK, Places, EntriesFit, EntryFits, Frames, NoFrame
<1>6. EntriesFit'
  <2>1. SUFFICES ASSUME NEW q \in Processes
                 PROVE  EntryFits(q)'
    BY DEF EntriesFit
  <2>2. CowTypeOK /\ EntryFits(q) /\ EntryFits(p) /\ ForkFits(p)
    BY <1>1 DEF CowData, EntriesFit, ForksFit
  <2>3. CASE q = p
    BY <1>2, <1>3, <2>2, <2>3 DEF CowTypeOK, EntryFits, Copying, NotPresent
  <2>4. CASE q # p
    BY <1>2, <1>3, <2>2, <2>4 DEF CowTypeOK, EntryFits, Copying, NotPresent
  <2> QED
    BY <2>3, <2>4
<1>7. ForksFit'
  <2>1. ASSUME NEW q \in Processes
        PROVE  ForkFits(q)'
    <3>1. CowTypeOK /\ ForkFits(q) /\ ForkFits(p) /\ EntryFits(p)
      BY <1>1 DEF CowData, EntriesFit, ForksFit
    <3>2. CASE q = p
      BY <1>2, <1>3, <1>4, <3>1, <3>2 DEF CowTypeOK, ForkFits, EntryFits, Free, NotPresent
    <3>3. CASE q # p
      BY <1>2, <1>3, <1>4, <3>1, <3>3 DEF CowTypeOK, ForkFits, EntryFits, Free, NotPresent
    <3> QED
      BY <3>2, <3>3
  <2>2. ASSUME NEW q \in Processes, NEW r \in Processes,
               child'[q] = child'[r], child'[q] # q, child'[r] # r
        PROVE  q = r
    BY <1>1, <2>2 DEF CowData, CowTypeOK, ForksFit, Free
  <2> QED
    BY <2>1, <2>2 DEF ForksFit
<1>8. CopiesFit'
  BY <1>1, <1>2, <1>3, <1>4
     DEF CowData, CowTypeOK, EntriesFit, EntryFits, CopiesFit, ForksFit, ForkFits, Free
<1>9. Mapped[p] = NoFrame /\ Becomes(Mapped', Mapped, p, FirstFree)
  <2>1. Mapped[p] = NoFrame /\ Mapped'[p] = FirstFree
    BY <1>1, <1>2, <1>3 DEF CowData, CowTypeOK, EntriesFit, EntryFits, Mapped, Copying
  <2>2. \A q \in Processes : q # p => Mapped'[q] = Mapped[q]
    BY <1>1 DEF CowData, CowTypeOK, Mapped, Copying
  <2> QED
    BY <1>5, <2>1, <2>2, MappedNext DEF Becomes
<1>10. Exact(phy_frames_map', page_dir', pde', new_frame', Mapped')
  <2>1. /\ phy_frames_map \in SUBSET Frames
        /\ page_dir \in FrameFun /\ pde \in FrameFun
        /\ new_frame \in FrameFun /\ Mapped \in FrameFun
        /\ Exact(phy_frames_map, page_dir, pde, new_frame, Mapped)
    BY <1>1 DEF CowData, CowTypeOK, FrameFun
  <2>2. Exact(phy_frames_map \cup {FirstFree}, page_dir, pde, new_frame, Mapped')
    BY <1>2, <1>9, <2>1, NewPage
  <2> QED
    BY <2>2
<1>11. \A q \in Processes : Mapped[q] # FirstFree
  BY <1>1, <1>2 DEF CowData, Exact
<1>12. Counted(frame_cow_ref_counts', Mapped')
  <2>1. Sh(Mapped, FirstFree) = {}
    BY <1>11 DEF Sh
  <2>2. Counted(frame_cow_ref_counts, Mapped')
    BY <1>1, <1>2, <1>9, <2>1, CountFirst DEF CowData
  <2> QED
    BY <2>2
<1>13. Alone(pte', Mapped')
  BY <1>1, <1>9, <1>11, SMTT(40) DEF CowData, CowTypeOK, Alone, Becomes
<1>14. Mapped' \in FrameFun
  BY <1>5, MappedNext
<1> QED
  BY <1>5, <1>6, <1>7, <1>8, <1>10, <1>12, <1>13, <1>14, DataNext DEF CowData

\* The target of a copy is one more frame.
LEMMA CopyAllocatesKeeps ==
  ASSUME CowInv, NEW p \in Processes, CopyAllocates(p)
  PROVE  CowInv'
<1>1. CowData
  BY DataNow
<1> USE DEF CopyAllocates, Goto, frameVars, tableVars, copyVars, NoFrame
<1>2. FirstFree \in Frames /\ FirstFree \notin phy_frames_map
  BY <1>1, FirstFreeIsFree DEF CowData, allocate_phy_frame
<1> HIDE DEF NoFrame
<1> USE DEF allocate_phy_frame
<1>3. FirstFree # NoFrame
  BY <1>2, CowAssumption DEF Frames, NoFrame
<1>4. \A q \in Processes : child[q] = p => q = p
  BY <1>1, NotAChild
<1>5. CowTypeOK'
  BY <1>1, <1>2, <1>3, CowAssumption, SMTT(40)
     DEF CowData, CowTypeOK, Places, EntriesFit, EntryFits, Frames, NoFrame
<1>6. EntriesFit'
  <2>1. SUFFICES ASSUME NEW q \in Processes
                 PROVE  EntryFits(q)'
    BY DEF EntriesFit
  <2>2. CowTypeOK /\ EntryFits(q) /\ EntryFits(p) /\ ForkFits(p)
    BY <1>1 DEF CowData, EntriesFit, ForksFit
  <2>3. CASE q = p
    BY <1>2, <1>3, <2>2, <2>3 DEF CowTypeOK, EntryFits, Copying, NotPresent
  <2>4. CASE q # p
    BY <1>2, <1>3, <2>2, <2>4 DEF CowTypeOK, EntryFits, Copying, NotPresent
  <2> QED
    BY <2>3, <2>4
<1>7. ForksFit'
  <2>1. ASSUME NEW q \in Processes
        PROVE  ForkFits(q)'
    <3>1. CowTypeOK /\ ForkFits(q) /\ ForkFits(p) /\ EntryFits(p)
      BY <1>1 DEF CowData, EntriesFit, ForksFit
    <3>2. CASE q = p
      BY <1>2, <1>3, <1>4, <3>1, <3>2 DEF CowTypeOK, ForkFits, EntryFits, Free, NotPresent
    <3>3. CASE q # p
      BY <1>2, <1>3, <1>4, <3>1, <3>3 DEF CowTypeOK, ForkFits, EntryFits, Free, NotPresent
    <3> QED
      BY <3>2, <3>3
  <2>2. ASSUME NEW q \in Processes, NEW r \in Processes,
               child'[q] = child'[r], child'[q] # q, child'[r] # r
        PROVE  q = r
    BY <1>1, <2>2 DEF CowData, CowTypeOK, ForksFit, Free
  <2> QED
    BY <2>1, <2>2 DEF ForksFit
<1>8. CopiesFit'
  BY <1>1, <1>2, <1>3, <1>4
     DEF CowData, CowTypeOK, EntriesFit, EntryFits, CopiesFit, ForksFit, ForkFits, Free
<1>9. Mapped' = Mapped
  BY <1>1 DEF CowData, CowTypeOK, EntriesFit, EntryFits, ForksFit, ForkFits, Mapped, Copying
<1>10. Exact(phy_frames_map', page_dir', pde', new_frame', Mapped')
  <2>1. /\ phy_frames_map \in SUBSET Frames
        /\ page_dir \in FrameFun /\ pde \in FrameFun
        /\ new_frame \in FrameFun /\ Mapped \in FrameFun
        /\ Exact(phy_frames_map, page_dir, pde, new_frame, Mapped)
    BY <1>1 DEF CowData, CowTypeOK, FrameFun
  <2>2. new_frame[p] = NoFrame
    BY <1>1 DEF CowData, EntriesFit, EntryFits, ForksFit, ForkFits
  <2>3. Becomes(new_frame', new_frame, p, FirstFree)
    BY <1>1, <1>2, <1>5 DEF CowData, CowTypeOK, Becomes, FrameFun, ForksFit
  <2>4. Exact(phy_frames_map \cup {FirstFree}, page_dir, pde, new_frame', Mapped)
    BY <1>2, <2>1, <2>2, <2>3, NewCopy
  <2> QED
    BY <1>9, <2>4
<1>11. Counted(frame_cow_ref_counts', Mapped')
  BY <1>1, <1>9 DEF CowData
<1>12. Alone(pte', Mapped')
  BY <1>1, <1>9 DEF CowData
<1>13. Mapped' \in FrameFun
  BY <1>5, MappedNext
<1> QED
  BY <1>5, <1>6, <1>7, <1>8, <1>10, <1>11, <1>12, <1>13, DataNext DEF CowData

\* The target of a copy becomes a page with one sharer.
LEMMA CopiesKeeps ==
  ASSUME CowInv, NEW p \in Processes, Copies(p)
  PROVE  CowInv'
<1>1. CowData
  BY DataNow
<1> USE DEF Copies, Goto, frameVars, tableVars, copyVars, NoFrame
<1>2. new_frame[p] \in Frames /\ pte[p].frame \in Frames
  BY <1>1 DEF CowData, CowTypeOK, EntriesFit, EntryFits, Copying, Frames
<1>3. copy_page \in Frames
  BY <1>1 DEF CowData, CowTypeOK, Frames
<1> HIDE DEF NoFrame
<1>4. \A q \in Processes : child[q] = p => q = p
  BY <1>1, NotAChild
<1>5. CowTypeOK'
  <2>1. CowTypeOK
    BY <1>1 DEF CowData
  <2>2. memory' \in [Frames -> Values \cup {Tables}]
    BY <1>2, <1>3, <2>1, CowAssumption DEF CowTypeOK, Places, Frames, NoFrame
  <2>3. pte' \in [Processes -> [present : BOOLEAN, rw : BOOLEAN, frame : 0..NumFrames]]
    BY <1>2, <1>3, <2>1, CowAssumption DEF CowTypeOK, Places, Frames, NoFrame
  <2>4. new_frame' \in [Processes -> 0..NumFrames]
    BY <1>2, <1>3, <2>1, CowAssumption DEF CowTypeOK, Places, Frames, NoFrame
  <2>5. pc' \in [Processes -> Places]
    BY <1>2, <1>3, <2>1, CowAssumption DEF CowTypeOK, Places, Frames, NoFrame
  <2> QED
    BY <1>2, <1>3, <2>1, <2>2, <2>3, <2>4, <2>5, CowAssumption
       DEF CowTypeOK, Places, Frames, NoFrame
<1>6. EntriesFit'
  <2>1. SUFFICES ASSUME NEW q \in Processes
                 PROVE  EntryFits(q)'
    BY DEF EntriesFit
  <2>2. CowTypeOK /\ EntryFits(q) /\ EntryFits(p) /\ ForkFits(p)
    BY <1>1 DEF CowData, EntriesFit, ForksFit
  <2>3. CASE q = p
    BY <1>2, <1>3, <2>2, <2>3 DEF CowTypeOK, EntryFits, Copying, NotPresent
  <2>4. CASE q # p
    BY <1>2, <1>3, <2>2, <2>4 DEF CowTypeOK, EntryFits, Copying, NotPresent
  <2> QED
    BY <2>3, <2>4
<1>7. ForksFit'
  <2>1. ASSUME NEW q \in Processes
        PROVE  ForkFits(q)'
    <3>1. CowTypeOK /\ ForkFits(q) /\ ForkFits(p) /\ EntryFits(p)
      BY <1>1 DEF CowData, EntriesFit, ForksFit
    <3>2. CASE q = p
      BY <1>2, <1>3, <1>4, <3>1, <3>2 DEF CowTypeOK, ForkFits, EntryFits, Free, NotPresent
    <3>3. CASE q # p
      BY <1>2, <1>3, <1>4, <3>1, <3>3 DEF CowTypeOK, ForkFits, EntryFits, Free, NotPresent
    <3> QED
      BY <3>2, <3>3
  <2>2. ASSUME NEW q \in Processes, NEW r \in Processes,
               child'[q] = child'[r], child'[q] # q, child'[r] # r
        PROVE  q = r
    BY <1>1, <2>2 DEF CowData, CowTypeOK, ForksFit, Free
  <2> QED
    BY <2>1, <2>2 DEF ForksFit
<1>8. CopiesFit'
  BY <1>1, <1>2, <1>3, <1>4
     DEF CowData, CowTypeOK, EntriesFit, EntryFits, CopiesFit, ForksFit, ForkFits, Free
<1>9. Mapped[p] = NoFrame /\ Becomes(Mapped', Mapped, p, new_frame[p])
  <2>1. Mapped[p] = NoFrame /\ Mapped'[p] = new_frame[p]
    BY <1>1, <1>2, <1>3 DEF CowData, CowTypeOK, Mapped, Copying
  <2>2. \A q \in Processes : q # p => Mapped'[q] = Mapped[q]
    BY <1>1 DEF CowData, CowTypeOK, Mapped, Copying
  <2> QED
    BY <1>5, <2>1, <2>2, MappedNext DEF Becomes
<1>10. Exact(phy_frames_map', page_dir', pde', new_frame', Mapped')
  <2>1. /\ phy_frames_map \in SUBSET Frames
        /\ page_dir \in FrameFun /\ pde \in FrameFun
        /\ new_frame \in FrameFun /\ Mapped \in FrameFun
        /\ Exact(phy_frames_map, page_dir, pde, new_frame, Mapped)
    BY <1>1 DEF CowData, CowTypeOK, FrameFun
  <2>2. Becomes(new_frame', new_frame, p, NoFrame)
    BY <1>5, <2>1 DEF CowTypeOK, Becomes, FrameFun
  <2>3. Exact(phy_frames_map, page_dir, pde, new_frame', Mapped')
    BY <1>2, <1>9, <2>1, <2>2, CopyToPage
  <2> QED
    BY <2>3
<1>11. \A q \in Processes : Mapped[q] # new_frame[p]
  BY <1>1, <1>2 DEF CowData, Exact, Frames, NoFrame
<1>12. Counted(frame_cow_ref_counts', Mapped')
  <2>1. Sh(Mapped, new_frame[p]) = {}
    BY <1>11 DEF Sh
  <2>2. Counted(frame_cow_ref_counts, Mapped')
    BY <1>1, <1>2, <1>9, <2>1, CountFirst DEF CowData
  <2> QED
    BY <2>2
<1>13. Alone(pte', Mapped')
  BY <1>1, <1>9, <1>11, SMTT(40) DEF CowData, CowTypeOK, Alone, Becomes
<1>14. Mapped' \in FrameFun
  BY <1>5, MappedNext
<1> QED
  BY <1>5, <1>6, <1>7, <1>8, <1>10, <1>12, <1>13, <1>14, DataNext DEF CowData

\* The directory of a child is one more frame.
LEMMA CloneDirectoryKeeps ==
  ASSUME CowInv, NEW p \in Processes, NEW c \in Processes, CloneDirectory(p, c)
  PROVE  CowInv'
<1>1. CowData
  BY DataNow
<1> USE DEF CloneDirectory, Goto, frameVars, tableVars, copyVars, NoFrame
<1>2. Free(c) /\ c # p /\ child[c] = c
  BY <1>1 DEF CowData, ForksFit, ForkFits, Free
<1>3. ForkFits(c) /\ EntryFits(c)
  BY <1>1 DEF CowData, ForksFit, EntriesFit
<1>4. FirstFree \in Frames /\ FirstFree \notin phy_frames_map
  BY <1>1, FirstFreeIsFree DEF CowData, allocate_phy_frame
<1> HIDE DEF NoFrame
<1> USE DEF allocate_phy_frame
<1>5. FirstFree # NoFrame
  BY <1>4, CowAssumption DEF Frames, NoFrame
<1>6. \A q \in Processes : child[q] = p => q = p
  BY <1>1, NotAChild
<1>7. CowTypeOK'
  <2>1. CowTypeOK
    BY <1>1 DEF CowData
  <2>2. memory' \in [Frames -> Values \cup {Tables}]
    BY <1>2, <1>4, <1>5, <2>1, CowAssumption DEF CowTypeOK, Places, Frames, NoFrame
  <2>3. phy_frames_map' \in SUBSET Frames
    BY <1>2, <1>4, <1>5, <2>1, CowAssumption DEF CowTypeOK, Places, Frames, NoFrame
  <2>4. page_dir' \in [Processes -> 0..NumFrames]
    BY <1>2, <1>4, <1>5, <2>1, CowAssumption DEF CowTypeOK, Places, Frames, NoFrame
  <2>5. child' \in [Processes -> Processes]
    BY <1>2, <1>4, <1>5, <2>1, CowAssumption DEF CowTypeOK, Places, Frames, NoFrame
  <2>6. pc' \in [Processes -> Places]
    BY <1>2, <1>4, <1>5, <2>1, CowAssumption DEF CowTypeOK, Places, Frames, NoFrame
  <2> QED
    BY <1>2, <1>4, <1>5, <2>1, <2>2, <2>3, <2>4, <2>5, <2>6, CowAssumption
       DEF CowTypeOK, Places, Frames, NoFrame
<1>8. EntriesFit'
  <2>1. SUFFICES ASSUME NEW q \in Processes
                 PROVE  EntryFits(q)'
    BY DEF EntriesFit
  <2>2. CowTypeOK /\ EntryFits(q) /\ EntryFits(p) /\ ForkFits(p)
    BY <1>1 DEF CowData, EntriesFit, ForksFit
  <2>3. CASE q = p
    BY <1>2, <1>4, <1>5, <2>2, <2>3 DEF CowTypeOK, EntryFits, Copying, NotPresent
  <2>4. CASE q # p
    BY <1>2, <1>4, <1>5, <2>2, <2>4 DEF CowTypeOK, EntryFits, Copying, NotPresent
  <2> QED
    BY <2>3, <2>4
<1>9. ForksFit'
  <2>1. ASSUME NEW q \in Processes
        PROVE  ForkFits(q)'
    <3>1. CowTypeOK /\ ForkFits(q) /\ ForkFits(p) /\ EntryFits(p)
      BY <1>1 DEF CowData, EntriesFit, ForksFit
    <3>2. CASE q = p
      BY <1>2, <1>3, <1>4, <1>5, <1>6, <3>1, <3>2
         DEF CowTypeOK, ForkFits, EntryFits, Free, NotPresent
    <3>3. CASE q # p
      BY <1>2, <1>3, <1>4, <1>5, <1>6, <3>1, <3>3
         DEF CowTypeOK, ForkFits, EntryFits, Free, NotPresent
    <3> QED
      BY <3>2, <3>3
  <2>2. ASSUME NEW q \in Processes, NEW r \in Processes,
               child'[q] = child'[r], child'[q] # q, child'[r] # r
        PROVE  q = r
    BY <1>1, <1>2, <2>2 DEF CowData, CowTypeOK, ForksFit, Free
  <2> QED
    BY <2>1, <2>2 DEF ForksFit
<1>10. CopiesFit'
  BY <1>1, <1>2, <1>4, <1>5, <1>6
     DEF CowData, CowTypeOK, EntriesFit, EntryFits, CopiesFit, ForksFit, ForkFits, Free
<1>11. Mapped' = Mapped
  BY <1>1 DEF CowData, CowTypeOK, EntriesFit, EntryFits, ForksFit, ForkFits, Mapped, Copying
<1>12. Exact(phy_frames_map', page_dir', pde', new_frame', Mapped')
  <2>1. /\ phy_frames_map \in SUBSET Frames
        /\ page_dir \in FrameFun /\ pde \in FrameFun
        /\ new_frame \in FrameFun /\ Mapped \in FrameFun
        /\ Exact(phy_frames_map, page_dir, pde, new_frame, Mapped)
    BY <1>1 DEF CowData, CowTypeOK, FrameFun
  <2>2. page_dir[c] = NoFrame
    BY <1>1 DEF CowData, EntriesFit, EntryFits, ForksFit, ForkFits, Free
  <2>3. Becomes(page_dir', page_dir, c, FirstFree)
    BY <1>1, <1>4, <1>7 DEF CowData, CowTypeOK, Becomes, FrameFun, ForksFit
  <2>4. Exact(phy_frames_map \cup {FirstFree}, page_dir', pde, new_frame, Mapped)
    BY <1>4, <2>1, <2>2, <2>3, NewDirectory
  <2> QED
    BY <1>11, <2>4
<1>13. Counted(frame_cow_ref_counts', Mapped')
  BY <1>1, <1>11 DEF CowData
<1>14. Alone(pte', Mapped')
  BY <1>1, <1>11 DEF CowData
<1>15. Mapped' \in FrameFun
  BY <1>7, MappedNext
<1> QED
  BY <1>7, <1>8, <1>9, <1>10, <1>12, <1>13, <1>14, <1>15, DataNext DEF CowData

\* The page table of a child is one more frame.
LEMMA CloneTableKeeps ==
  ASSUME CowInv, NEW p \in Processes, CloneTable(p)
  PROVE  CowInv'
<1>1. CowData
  BY DataNow
<1> USE DEF CloneTable, Goto, frameVars, tableVars, copyVars, NoFrame
<1>2. \A q, r \in Processes :
         child[q] = child[r] /\ child[q] # q /\ child[r] # r => q = r
  BY <1>1 DEF CowData, ForksFit
<1>3. /\ child[p] \in Processes /\ child[p] # p /\ pc[child[p]] = "unborn"
       /\ pde[child[p]] = NoFrame /\ pte[child[p]] = NotPresent /\ pte[p].present
  BY <1>1 DEF CowData, CowTypeOK, EntriesFit, EntryFits, ForksFit, ForkFits
<1>4. [pte[p] EXCEPT !.rw = FALSE] \in
         [present : BOOLEAN, rw : BOOLEAN, frame : 0..NumFrames]
  BY <1>1, ZenonT(40) DEF CowData, CowTypeOK
<1>5. FirstFree \in Frames /\ FirstFree \notin phy_frames_map
  BY <1>1, FirstFreeIsFree DEF CowData, allocate_phy_frame
<1> HIDE DEF NoFrame
<1> USE DEF allocate_phy_frame
<1>6. FirstFree # NoFrame
  BY <1>5, CowAssumption DEF Frames, NoFrame
<1>7. \A q \in Processes : child[q] = p => q = p
  BY <1>1, NotAChild
<1>8. CowTypeOK'
  <2>1. CowTypeOK
    BY <1>1 DEF CowData
  <2>2. memory' \in [Frames -> Values \cup {Tables}]
    BY <1>3, <1>4, <1>5, <1>6, <2>1, CowAssumption DEF CowTypeOK, Places, Frames, NoFrame
  <2>3. pte' \in [Processes -> [present : BOOLEAN, rw : BOOLEAN, frame : 0..NumFrames]]
    BY <1>3, <1>4, <1>5, <1>6, <2>1, CowAssumption DEF CowTypeOK, Places, Frames, NoFrame
  <2>4. phy_frames_map' \in SUBSET Frames
    BY <1>3, <1>4, <1>5, <1>6, <2>1, CowAssumption DEF CowTypeOK, Places, Frames, NoFrame
  <2>5. pde' \in [Processes -> 0..NumFrames]
    BY <1>3, <1>4, <1>5, <1>6, <2>1, CowAssumption, SMTT(40) DEF CowTypeOK, Places, Frames, NoFrame
  <2>6. pc' \in [Processes -> Places]
    BY <1>3, <1>4, <1>5, <1>6, <2>1, CowAssumption DEF CowTypeOK, Places, Frames, NoFrame
  <2> QED
    BY <1>3, <1>4, <1>5, <1>6, <2>1, <2>2, <2>3, <2>4, <2>5, <2>6, CowAssumption
       DEF CowTypeOK, Places, Frames, NoFrame
<1>9. EntriesFit'
  <2>1. SUFFICES ASSUME NEW q \in Processes
                 PROVE  EntryFits(q)'
    BY DEF EntriesFit
  <2>2. CowTypeOK /\ EntryFits(q) /\ EntryFits(p) /\ ForkFits(p)
    BY <1>1 DEF CowData, EntriesFit, ForksFit
  <2>3. CASE q = p
    BY <1>3, <1>5, <1>6, <2>2, <2>3 DEF CowTypeOK, EntryFits, Copying, NotPresent, ForkFits
  <2>4. CASE q # p
    BY <1>3, <1>5, <1>6, <2>2, <2>4 DEF CowTypeOK, EntryFits, Copying, NotPresent, ForkFits
  <2> QED
    BY <2>3, <2>4
<1>10. ForksFit'
  <2>1. ASSUME NEW q \in Processes
        PROVE  ForkFits(q)'
    <3>1. CowTypeOK /\ ForkFits(q) /\ ForkFits(p) /\ EntryFits(p)
      BY <1>1 DEF CowData, EntriesFit, ForksFit
    <3>2. CASE q = p
      BY <1>2, <1>3, <1>5, <1>6, <1>7, <3>1, <3>2
         DEF CowTypeOK, ForkFits, EntryFits, Free, NotPresent
    <3>3. CASE q # p
      BY <1>2, <1>3, <1>5, <1>6, <1>7, <3>1, <3>3
         DEF CowTypeOK, ForkFits, EntryFits, Free, NotPresent
    <3> QED
      BY <3>2, <3>3
  <2>2. ASSUME NEW q \in Processes, NEW r \in Processes,
               child'[q] = child'[r], child'[q] # q, child'[r] # r
        PROVE  q = r
    BY <1>1, <1>3, <2>2 DEF CowData, CowTypeOK, ForksFit, Free
  <2> QED
    BY <2>1, <2>2 DEF ForksFit
<1>11. CopiesFit'
  BY <1>1, <1>3, <1>5, <1>6, <1>7
     DEF CowData, CowTypeOK, EntriesFit, EntryFits, CopiesFit, ForksFit, ForkFits, Free
<1>12. Mapped' = Mapped
  <2>1. \A q \in Processes : Mapped'[q] = Mapped[q]
    BY <1>1, <1>3 DEF CowData, CowTypeOK, Mapped, Copying
  <2> QED
    BY <1>1, <1>8, <2>1, MappedNext DEF CowData, FrameFun
<1>13. Exact(phy_frames_map', page_dir', pde', new_frame', Mapped')
  <2>1. /\ phy_frames_map \in SUBSET Frames
        /\ page_dir \in FrameFun /\ pde \in FrameFun
        /\ new_frame \in FrameFun /\ Mapped \in FrameFun
        /\ Exact(phy_frames_map, page_dir, pde, new_frame, Mapped)
    BY <1>1 DEF CowData, CowTypeOK, FrameFun
  <2>2. pde[child[p]] = NoFrame
    BY <1>1 DEF CowData, EntriesFit, EntryFits, ForksFit, ForkFits
  <2>3. Becomes(pde', pde, child[p], FirstFree)
    BY <1>1, <1>3, <1>5, <1>8 DEF CowData, CowTypeOK, Becomes, FrameFun, ForksFit
  <2>4. Exact(phy_frames_map \cup {FirstFree}, page_dir, pde', new_frame, Mapped)
    BY <1>3, <1>5, <2>1, <2>2, <2>3, NewTable
  <2> QED
    BY <1>12, <2>4
<1>14. Counted(frame_cow_ref_counts', Mapped')
  BY <1>1, <1>12 DEF CowData
<1>15. Alone(pte', Mapped')
  BY <1>1, <1>3, <1>12 DEF CowData, CowTypeOK, Alone, NotPresent
<1>16. Mapped' \in FrameFun
  BY <1>8, MappedNext
<1> QED
  BY <1>8, <1>9, <1>10, <1>11, <1>13, <1>14, <1>15, <1>16, DataNext DEF CowData

\* The child is one more sharer of the page of its parent.
LEMMA CloneCountsKeeps ==
  ASSUME CowInv, NEW p \in Processes, CloneCounts(p)
  PROVE  CowInv'
<1>1. CowData
  BY DataNow
<1> USE DEF CloneCounts, Goto, frameVars, tableVars, copyVars, NoFrame
<1> USE DEF CloneEnds
<1>2. \A q, r \in Processes :
         child[q] = child[r] /\ child[q] # q /\ child[r] # r => q = r
  BY <1>1 DEF CowData, ForksFit
<1>3. /\ child[p] \in Processes /\ child[p] # p /\ pc[child[p]] = "unborn"
       /\ pde[child[p]] # NoFrame /\ pte[child[p]] = pte[p] /\ pte[p].present /\ ~pte[p].rw
  BY <1>1 DEF CowData, CowTypeOK, EntriesFit, EntryFits, ForksFit, ForkFits
<1>4. pte[p].frame \in Frames
  BY <1>1, <1>3 DEF CowData, CowTypeOK, EntriesFit, EntryFits, Frames
<1> HIDE DEF NoFrame
<1>5. frame_cow_ref_counts' = Changed(frame_cow_ref_counts, pte[p].frame, 1)
  BY <1>1, <1>4 DEF CowData, CowTypeOK, change_cow_frame_refcount, Changed
<1>6. Changed(frame_cow_ref_counts, pte[p].frame, 1) \in [Frames -> Nat]
  BY <1>1, <1>4 DEF CowData, CowTypeOK, Changed
<1>7. \A q \in Processes : child[q] = p => q = p
  BY <1>1, NotAChild
<1>8. CowTypeOK'
  BY <1>1, <1>3, <1>4, <1>5, <1>6, CowAssumption
     DEF CowData, CowTypeOK, Places, EntriesFit, EntryFits, Frames, CloneEnds, NoFrame
<1>9. EntriesFit'
  <2>1. SUFFICES ASSUME NEW q \in Processes
                 PROVE  EntryFits(q)'
    BY DEF EntriesFit
  <2>2. CowTypeOK /\ EntryFits(q) /\ EntryFits(p) /\ ForkFits(p)
    BY <1>1 DEF CowData, EntriesFit, ForksFit
  <2>3. CASE q = p
    BY <1>3, <1>4, <2>2, <2>3
       DEF CowTypeOK, EntryFits, Copying, NotPresent, CloneEnds, ForkFits
  <2>4. CASE q # p
    BY <1>3, <1>4, <2>2, <2>4
       DEF CowTypeOK, EntryFits, Copying, NotPresent, CloneEnds, ForkFits
  <2> QED
    BY <2>3, <2>4
<1>10. ForksFit'
  <2>1. ASSUME NEW q \in Processes
        PROVE  ForkFits(q)'
    <3>1. CowTypeOK /\ ForkFits(q) /\ ForkFits(p) /\ EntryFits(p)
      BY <1>1 DEF CowData, EntriesFit, ForksFit
    <3>2. CASE q = p
      BY <1>2, <1>3, <1>4, <1>7, <3>1, <3>2
         DEF CowTypeOK, ForkFits, EntryFits, Free, NotPresent, CloneEnds
    <3>3. CASE q # p
      BY <1>2, <1>3, <1>4, <1>7, <3>1, <3>3
         DEF CowTypeOK, ForkFits, EntryFits, Free, NotPresent, CloneEnds
    <3> QED
      BY <3>2, <3>3
  <2>2. ASSUME NEW q \in Processes, NEW r \in Processes,
               child'[q] = child'[r], child'[q] # q, child'[r] # r
        PROVE  q = r
    BY <1>1, <1>3, <2>2 DEF CowData, CowTypeOK, ForksFit, Free, CloneEnds
  <2> QED
    BY <2>1, <2>2 DEF ForksFit
<1>11. CopiesFit'
  BY <1>1, <1>3, <1>4, <1>7
     DEF CowData, CowTypeOK, EntriesFit, EntryFits, CopiesFit, ForksFit, ForkFits, CloneEnds, Free
<1>12. /\ Mapped[child[p]] = NoFrame /\ Mapped[p] = pte[p].frame
      /\ Becomes(Mapped', Mapped, child[p], pte[p].frame)
  <2>1. /\ Mapped[child[p]] = NoFrame /\ Mapped[p] = pte[p].frame
        /\ Mapped'[child[p]] = pte[p].frame
    BY <1>1, <1>3 DEF CowData, CowTypeOK, Mapped, Copying
  <2>2. \A q \in Processes : q # child[p] => Mapped'[q] = Mapped[q]
    BY <1>1, <1>3 DEF CowData, CowTypeOK, Mapped, Copying
  <2> QED
    BY <1>8, <2>1, <2>2, MappedNext DEF Becomes
<1>13. Exact(phy_frames_map', page_dir', pde', new_frame', Mapped')
  <2>1. /\ phy_frames_map \in SUBSET Frames
        /\ page_dir \in FrameFun /\ pde \in FrameFun
        /\ new_frame \in FrameFun /\ Mapped \in FrameFun
        /\ Exact(phy_frames_map, page_dir, pde, new_frame, Mapped)
    BY <1>1 DEF CowData, CowTypeOK, FrameFun
  <2>2. Exact(phy_frames_map, page_dir, pde, new_frame, Mapped')
    BY <1>3, <1>4, <1>12, <2>1, PageShared
  <2> QED
    BY <2>2
<1>14. Counted(frame_cow_ref_counts', Mapped')
  <2>1. Sh(Mapped, pte[p].frame) # {}
    BY <1>12 DEF Sh
  <2>2. frame_cow_ref_counts \in [Frames -> Nat] /\ Counted(frame_cow_ref_counts, Mapped)
        /\ Mapped \in FrameFun
    BY <1>1 DEF CowData, CowTypeOK
  <2>3. Counted(Changed(frame_cow_ref_counts, pte[p].frame, 1), Mapped')
    BY <1>3, <1>4, <1>12, <2>1, <2>2, CountGains
  <2> QED
    BY <1>5, <2>3
<1>15. Alone(pte', Mapped')
  BY <1>1, <1>3, <1>12 DEF CowData, CowTypeOK, Alone, Becomes
<1>16. Mapped' \in FrameFun
  BY <1>8, MappedNext
<1> QED
  BY <1>8, <1>9, <1>10, <1>11, <1>13, <1>14, <1>15, <1>16, DataNext DEF CowData

-----------------------------------------------------------------------------
(* A fault and release_page take a sharer away from a frame.  What the     *)
(* count says apart, cases apart:                                          *)

\* p, in user mode, is taken from the count of its page.
Uncounts(p) ==
  /\ pc[p] = "user"
  /\ pte[p].present
  /\ frame_cow_ref_counts' = Changed(frame_cow_ref_counts, pte[p].frame, -1)
  /\ UNCHANGED <<page_dir, pde, copyVars, memory, child>>

\* a fault on a page that is shared,
FaultShared(p) ==
  /\ Uncounts(p)
  /\ ~pte[p].rw
  /\ frame_cow_ref_counts[pte[p].frame] > 0
  /\ pc' = [pc EXCEPT ![p] = "copy_alloc"]
  /\ UNCHANGED <<phy_frames_map, pte, execs>>

\* a fault of the last sharer,
FaultLast(p) ==
  /\ Uncounts(p)
  /\ frame_cow_ref_counts[pte[p].frame] <= 0
  /\ pte' = [pte EXCEPT ![p].rw = TRUE]
  /\ UNCHANGED <<phy_frames_map, pc, execs>>

\* the release of a page that is shared,
ReleaseShared(p, why) ==
  /\ Uncounts(p)
  /\ frame_cow_ref_counts[pte[p].frame] > 0
  /\ pc' = [pc EXCEPT ![p] = why]
  /\ pte' = [pte EXCEPT ![p] = NotPresent]
  /\ phy_frames_map' = phy_frames_map

\* the release by the last sharer,
ReleaseLast(p, why) ==
  /\ Uncounts(p)
  /\ frame_cow_ref_counts[pte[p].frame] <= 0
  /\ pc' = [pc EXCEPT ![p] = why]
  /\ pte' = [pte EXCEPT ![p] = NotPresent]
  /\ phy_frames_map' = phy_frames_map \ {pte[p].frame}

\* and the release of no page.
ReleaseNone(p, why) ==
  /\ pc[p] = "user"
  /\ ~pte[p].present
  /\ pc' = [pc EXCEPT ![p] = why]
  /\ UNCHANGED <<frameVars, tableVars, copyVars, memory, child>>

\* The count before the step, as change_cow_frame_refcount changes it.
LEMMA CountChanges ==
  ASSUME CowInv, NEW p \in Processes, pte[p].present,
         change_cow_frame_refcount(pte[p].frame, -1)
  PROVE  /\ pte[p].frame \in Frames
         /\ frame_cow_ref_counts[pte[p].frame] \in Nat
         /\ frame_cow_ref_counts' = Changed(frame_cow_ref_counts, pte[p].frame, -1)
<1>1. pte[p].frame \in Frames /\ frame_cow_ref_counts \in [Frames -> Nat]
  BY DEF CowInv, CowTypeOK, EntriesFit, EntryFits, Frames, NoFrame
<1>2. frame_cow_ref_counts' = Changed(frame_cow_ref_counts, pte[p].frame, -1)
  BY <1>1 DEF change_cow_frame_refcount, Changed
<1> QED
  BY <1>1, <1>2

\* A fault on a read-only page is one of its two cases,
LEMMA CowFaultCases ==
  ASSUME CowInv, NEW p \in Processes, CowFault(p)
  PROVE  FaultShared(p) \/ FaultLast(p)
<1> USE DEF CowFault, Goto, Uncounts, copyVars
<1>1. /\ pte[p].frame \in Frames
      /\ frame_cow_ref_counts[pte[p].frame] \in Nat
      /\ frame_cow_ref_counts' = Changed(frame_cow_ref_counts, pte[p].frame, -1)
  BY CountChanges
<1>2. /\ pte \in [Processes -> [present : BOOLEAN, rw : BOOLEAN, frame : 0..NumFrames]]
      /\ pc = [q \in Processes |-> pc[q]]
  BY DEF CowInv, CowTypeOK
<1>3. CASE frame_cow_ref_counts[pte[p].frame] > 0
  BY <1>1, <1>3 DEF FaultShared
<1>4. CASE frame_cow_ref_counts[pte[p].frame] <= 0
  <2>2. pte' = [pte EXCEPT ![p].rw = TRUE] /\ pc' = pc
    BY <1>1, <1>2, <1>4
  <2> QED
    BY <1>1, <1>4, <2>2 DEF FaultLast
<1> QED
  BY <1>1, <1>3, <1>4

\* and release_pages one of its three.
LEMMA ReleaseCases ==
  ASSUME CowInv, NEW p \in Processes, NEW why, ReleasePages(p, why)
  PROVE  ReleaseShared(p, why) \/ ReleaseLast(p, why) \/ ReleaseNone(p, why)
<1> USE DEF ReleasePages, release_page, release_phy_frame, Goto, Uncounts, copyVars
<1>1. CASE pte[p].present
  <2>1. /\ pte[p].frame \in Frames
        /\ frame_cow_ref_counts[pte[p].frame] \in Nat
        /\ frame_cow_ref_counts' = Changed(frame_cow_ref_counts, pte[p].frame, -1)
    BY <1>1, CountChanges
  <2>2. CASE frame_cow_ref_counts[pte[p].frame] > 0
    BY <1>1, <2>1, <2>2 DEF ReleaseShared
  <2>3. CASE frame_cow_ref_counts[pte[p].frame] <= 0
    BY <1>1, <2>1, <2>3 DEF ReleaseLast
  <2> QED
    BY <2>1, <2>2, <2>3
<1>2. CASE ~pte[p].present
  BY <1>2 DEF ReleaseNone, frameVars, tableVars
<1> QED
  BY <1>1, <1>2

\* A fault takes one sharer away from a shared frame,
LEMMA FaultSharedKeeps ==
  ASSUME CowInv, NEW p \in Processes, FaultShared(p)
  PROVE  CowInv'
<1>1. CowData
  BY DataNow
<1> USE DEF FaultShared, Goto, frameVars, tableVars, copyVars, NoFrame
<1> USE DEF Uncounts
<1>2. pte[p].frame \in Frames
  BY <1>1 DEF CowData, CowTypeOK, EntriesFit, EntryFits, Frames
<1>3. Mapped[p] = pte[p].frame
  BY <1>1 DEF CowData, CowTypeOK, Mapped, Copying
<1> HIDE DEF NoFrame
<1>4. Changed(frame_cow_ref_counts, pte[p].frame, -1) \in [Frames -> Nat]
  BY <1>1, <1>2 DEF CowData, CowTypeOK, Changed
<1>5. /\ frame_cow_ref_counts \in [Frames -> Nat] /\ Mapped \in FrameFun
       /\ Counted(frame_cow_ref_counts, Mapped)
  BY <1>1 DEF CowData, CowTypeOK
<1>6. \A q \in Processes : child[q] = p => q = p
  BY <1>1, NotAChild
<1>7. CowTypeOK'
  <2>1. CowTypeOK
    BY <1>1 DEF CowData
  <2>2. frame_cow_ref_counts' \in [Frames -> Nat]
    BY <1>2, <1>4, <2>1, CowAssumption DEF CowTypeOK, Places, Frames, NoFrame
  <2>3. pc' \in [Processes -> Places]
    BY <1>2, <1>4, <2>1, CowAssumption DEF CowTypeOK, Places, Frames, NoFrame
  <2> QED
    BY <1>2, <1>4, <2>1, <2>2, <2>3, CowAssumption DEF CowTypeOK, Places, Frames, NoFrame
<1>8. EntriesFit'
  <2>1. SUFFICES ASSUME NEW q \in Processes
                 PROVE  EntryFits(q)'
    BY DEF EntriesFit
  <2>2. CowTypeOK /\ EntryFits(q) /\ EntryFits(p) /\ ForkFits(p)
    BY <1>1 DEF CowData, EntriesFit, ForksFit
  <2>3. CASE q = p
    BY <1>2, <2>2, <2>3 DEF CowTypeOK, EntryFits, Copying, NotPresent
  <2>4. CASE q # p
    BY <1>2, <2>2, <2>4 DEF CowTypeOK, EntryFits, Copying, NotPresent
  <2> QED
    BY <2>3, <2>4
<1>9. ForksFit'
  <2>1. ASSUME NEW q \in Processes
        PROVE  ForkFits(q)'
    <3>1. CowTypeOK /\ ForkFits(q) /\ ForkFits(p) /\ EntryFits(p)
      BY <1>1 DEF CowData, EntriesFit, ForksFit
    <3>2. CASE q = p
      BY <1>2, <1>6, <3>1, <3>2 DEF CowTypeOK, ForkFits, EntryFits, Free, NotPresent
    <3>3. CASE q # p
      BY <1>2, <1>6, <3>1, <3>3 DEF CowTypeOK, ForkFits, EntryFits, Free, NotPresent
    <3> QED
      BY <3>2, <3>3
  <2>2. ASSUME NEW q \in Processes, NEW r \in Processes,
               child'[q] = child'[r], child'[q] # q, child'[r] # r
        PROVE  q = r
    BY <1>1, <2>2 DEF CowData, CowTypeOK, ForksFit, Free
  <2> QED
    BY <2>1, <2>2 DEF ForksFit
<1>10. CopiesFit'
  BY <1>1, <1>2, <1>6
     DEF CowData, CowTypeOK, EntriesFit, EntryFits, CopiesFit, ForksFit, ForkFits, Free
<1>11. Becomes(Mapped', Mapped, p, NoFrame)
  <2>1. \A q \in Processes : q # p => Mapped'[q] = Mapped[q]
    BY <1>1 DEF CowData, CowTypeOK, Mapped, Copying
  <2>2. Mapped'[p] = NoFrame
    BY <1>1 DEF CowData, CowTypeOK, Mapped, Copying, NotPresent
  <2> QED
    BY <1>7, <2>1, <2>2, MappedNext DEF Becomes
<1>12. Counted(Changed(frame_cow_ref_counts, pte[p].frame, -1), Mapped')
  BY <1>2, <1>3, <1>5, <1>11, CountLoses
<1>13. \E q \in Processes : q # p /\ Mapped[q] = pte[p].frame
  BY <1>2, <1>3, <1>5, <1>11, CountLoses
<1>14. Exact(phy_frames_map', page_dir', pde', new_frame', Mapped')
  <2>1. /\ phy_frames_map \in SUBSET Frames
        /\ page_dir \in FrameFun /\ pde \in FrameFun
        /\ new_frame \in FrameFun /\ Mapped \in FrameFun
        /\ Exact(phy_frames_map, page_dir, pde, new_frame, Mapped)
    BY <1>1 DEF CowData, CowTypeOK, FrameFun
  <2>2. Exact(phy_frames_map, page_dir, pde, new_frame, Mapped')
    BY <1>2, <1>3, <1>11, <1>13, <2>1, PageStaysShared
  <2> QED
    BY <2>2
<1>15. Counted(frame_cow_ref_counts', Mapped')
  BY <1>12
<1>16. \A q \in Processes : pte[q].rw => q # p /\ pte[q].frame # NoFrame
  BY <1>1 DEF CowData, EntriesFit, EntryFits
<1>17. Alone(pte', Mapped')
  BY <1>1, <1>11, <1>16 DEF CowData, Alone, Becomes
<1>18. Mapped' \in FrameFun
  BY <1>7, MappedNext
<1> QED
  BY <1>7, <1>8, <1>9, <1>10, <1>14, <1>15, <1>17, <1>18, DataNext DEF CowData

\* or makes the last one its writer.
LEMMA FaultLastKeeps ==
  ASSUME CowInv, NEW p \in Processes, FaultLast(p)
  PROVE  CowInv'
<1>1. CowData
  BY DataNow
<1> USE DEF FaultLast, Goto, frameVars, tableVars, copyVars, NoFrame
<1> USE DEF Uncounts
<1>2. pte[p].frame \in Frames
  BY <1>1 DEF CowData, CowTypeOK, EntriesFit, EntryFits, Frames
<1>3. Mapped[p] = pte[p].frame
  BY <1>1 DEF CowData, CowTypeOK, Mapped, Copying
<1> HIDE DEF NoFrame
<1>4. Changed(frame_cow_ref_counts, pte[p].frame, -1) \in [Frames -> Nat]
  BY <1>1, <1>2 DEF CowData, CowTypeOK, Changed
<1>5. /\ frame_cow_ref_counts \in [Frames -> Nat] /\ Mapped \in FrameFun
       /\ Counted(frame_cow_ref_counts, Mapped)
  BY <1>1 DEF CowData, CowTypeOK
<1>6. \A q \in Processes : child[q] = p => q = p
  BY <1>1, NotAChild
<1>7. CowTypeOK'
  <2>1. CowTypeOK
    BY <1>1 DEF CowData
  <2>2. frame_cow_ref_counts' \in [Frames -> Nat]
    BY <1>2, <1>4, <2>1, CowAssumption DEF CowTypeOK, Places, Frames, NoFrame
  <2>3. pte' \in [Processes -> [present : BOOLEAN, rw : BOOLEAN, frame : 0..NumFrames]]
    BY <1>2, <1>4, <2>1, CowAssumption, ZenonT(40) DEF CowTypeOK, Places, Frames, NoFrame
  <2>4. pc' \in [Processes -> Places]
    BY <1>2, <1>4, <2>1, CowAssumption DEF CowTypeOK, Places, Frames, NoFrame
  <2> QED
    BY <1>2, <1>4, <2>1, <2>2, <2>3, <2>4, CowAssumption DEF CowTypeOK, Places, Frames, NoFrame
<1>8. EntriesFit'
  <2>1. SUFFICES ASSUME NEW q \in Processes
                 PROVE  EntryFits(q)'
    BY DEF EntriesFit
  <2>2. CowTypeOK /\ EntryFits(q) /\ EntryFits(p) /\ ForkFits(p)
    BY <1>1 DEF CowData, EntriesFit, ForksFit
  <2>3. CASE q = p
    BY <1>2, <2>2, <2>3 DEF CowTypeOK, EntryFits, Copying, NotPresent
  <2>4. CASE q # p
    BY <1>2, <2>2, <2>4 DEF CowTypeOK, EntryFits, Copying, NotPresent
  <2> QED
    BY <2>3, <2>4
<1>9. ForksFit'
  <2>1. ASSUME NEW q \in Processes
        PROVE  ForkFits(q)'
    <3>1. CowTypeOK /\ ForkFits(q) /\ ForkFits(p) /\ EntryFits(p)
      BY <1>1 DEF CowData, EntriesFit, ForksFit
    <3>2. CASE q = p
      BY <1>2, <1>6, <3>1, <3>2 DEF CowTypeOK, ForkFits, EntryFits, Free, NotPresent
    <3>3. CASE q # p
      BY <1>2, <1>6, <3>1, <3>3 DEF CowTypeOK, ForkFits, EntryFits, Free, NotPresent
    <3> QED
      BY <3>2, <3>3
  <2>2. ASSUME NEW q \in Processes, NEW r \in Processes,
               child'[q] = child'[r], child'[q] # q, child'[r] # r
        PROVE  q = r
    BY <1>1, <2>2 DEF CowData, CowTypeOK, ForksFit, Free
  <2> QED
    BY <2>1, <2>2 DEF ForksFit
<1>10. CopiesFit'
  BY <1>1, <1>2, <1>6
     DEF CowData, CowTypeOK, EntriesFit, EntryFits, CopiesFit, ForksFit, ForkFits, Free
<1>11. Mapped' = Mapped
  BY <1>1, <1>2 DEF CowData, CowTypeOK, Mapped, Copying
<1>12. PICK h : Becomes(h, Mapped, p, NoFrame)
  <2>1. Becomes([Mapped EXCEPT ![p] = NoFrame], Mapped, p, NoFrame)
    BY <1>5, CowAssumption DEF Becomes, FrameFun, NoFrame
  <2> QED
    BY <2>1
<1>13. /\ \A q \in Processes : Mapped[q] = pte[p].frame => q = p
       /\ Changed(frame_cow_ref_counts, pte[p].frame, -1) = frame_cow_ref_counts
  BY <1>2, <1>3, <1>5, <1>12, CountLoses
<1>14. Exact(phy_frames_map', page_dir', pde', new_frame', Mapped')
  BY <1>1, <1>11 DEF CowData
<1>15. Counted(frame_cow_ref_counts', Mapped')
  BY <1>5, <1>11, <1>13
<1>16. Alone(pte', Mapped')
  BY <1>1, <1>3, <1>11, <1>13 DEF CowData, CowTypeOK, Alone
<1>17. Mapped' \in FrameFun
  BY <1>7, MappedNext
<1> QED
  BY <1>7, <1>8, <1>9, <1>10, <1>14, <1>15, <1>16, <1>17, DataNext DEF CowData

\* A release takes one sharer away from a shared frame,
LEMMA ReleaseSharedKeeps ==
  ASSUME CowInv, NEW p \in Processes, NEW why \in {"exec", "exit"}, execs' \in 0..MaxExecs,
         ReleaseShared(p, why)
  PROVE  CowInv'
<1>1. CowData
  BY DataNow
<1> USE DEF ReleaseShared, Goto, frameVars, tableVars, copyVars, NoFrame
<1> USE DEF Uncounts
<1>2. pte[p].frame \in Frames
  BY <1>1 DEF CowData, CowTypeOK, EntriesFit, EntryFits, Frames
<1>3. Mapped[p] = pte[p].frame
  BY <1>1 DEF CowData, CowTypeOK, Mapped, Copying
<1> HIDE DEF NoFrame
<1>4. Changed(frame_cow_ref_counts, pte[p].frame, -1) \in [Frames -> Nat]
  BY <1>1, <1>2 DEF CowData, CowTypeOK, Changed
<1>5. /\ frame_cow_ref_counts \in [Frames -> Nat] /\ Mapped \in FrameFun
       /\ Counted(frame_cow_ref_counts, Mapped)
  BY <1>1 DEF CowData, CowTypeOK
<1>6. \A q \in Processes : child[q] = p => q = p
  BY <1>1, NotAChild
<1>7. CowTypeOK'
  <2>1. CowTypeOK
    BY <1>1 DEF CowData
  <2>2. frame_cow_ref_counts' \in [Frames -> Nat]
    BY <1>2, <1>4, <2>1, CowAssumption DEF CowTypeOK, Places, Frames, NoFrame, NotPresent
  <2>3. pte' \in [Processes -> [present : BOOLEAN, rw : BOOLEAN, frame : 0..NumFrames]]
    BY <1>2, <1>4, <2>1, CowAssumption DEF CowTypeOK, Places, Frames, NoFrame, NotPresent
  <2>4. pc' \in [Processes -> Places]
    BY <1>2, <1>4, <2>1, CowAssumption DEF CowTypeOK, Places, Frames, NoFrame, NotPresent
  <2> QED
    BY <1>2, <1>4, <2>1, <2>2, <2>3, <2>4, CowAssumption
       DEF CowTypeOK, Places, Frames, NoFrame, NotPresent
<1>8. EntriesFit'
  <2>1. SUFFICES ASSUME NEW q \in Processes
                 PROVE  EntryFits(q)'
    BY DEF EntriesFit
  <2>2. CowTypeOK /\ EntryFits(q) /\ EntryFits(p) /\ ForkFits(p)
    BY <1>1 DEF CowData, EntriesFit, ForksFit
  <2>3. CASE q = p
    BY <1>2, <2>2, <2>3 DEF CowTypeOK, EntryFits, Copying, NotPresent
  <2>4. CASE q # p
    BY <1>2, <2>2, <2>4 DEF CowTypeOK, EntryFits, Copying, NotPresent
  <2> QED
    BY <2>3, <2>4
<1>9. ForksFit'
  <2>1. ASSUME NEW q \in Processes
        PROVE  ForkFits(q)'
    <3>1. CowTypeOK /\ ForkFits(q) /\ ForkFits(p) /\ EntryFits(p)
      BY <1>1 DEF CowData, EntriesFit, ForksFit
    <3>2. CASE q = p
      BY <1>2, <1>6, <3>1, <3>2 DEF CowTypeOK, ForkFits, EntryFits, Free, NotPresent
    <3>3. CASE q # p
      BY <1>2, <1>6, <3>1, <3>3 DEF CowTypeOK, ForkFits, EntryFits, Free, NotPresent
    <3> QED
      BY <3>2, <3>3
  <2>2. ASSUME NEW q \in Processes, NEW r \in Processes,
               child'[q] = child'[r], child'[q] # q, child'[r] # r
        PROVE  q = r
    BY <1>1, <2>2 DEF CowData, CowTypeOK, ForksFit, Free, NotPresent
  <2> QED
    BY <2>1, <2>2 DEF ForksFit
<1>10. CopiesFit'
  BY <1>1, <1>2, <1>6
     DEF CowData, CowTypeOK, EntriesFit, EntryFits, CopiesFit, ForksFit, ForkFits, NotPresent, Free
<1>11. Becomes(Mapped', Mapped, p, NoFrame)
  <2>1. \A q \in Processes : q # p => Mapped'[q] = Mapped[q]
    BY <1>1 DEF CowData, CowTypeOK, Mapped, Copying
  <2>2. Mapped'[p] = NoFrame
    BY <1>1 DEF CowData, CowTypeOK, Mapped, Copying, NotPresent
  <2> QED
    BY <1>7, <2>1, <2>2, MappedNext DEF Becomes
<1>12. Counted(Changed(frame_cow_ref_counts, pte[p].frame, -1), Mapped')
  BY <1>2, <1>3, <1>5, <1>11, CountLoses
<1>13. \E q \in Processes : q # p /\ Mapped[q] = pte[p].frame
  BY <1>2, <1>3, <1>5, <1>11, CountLoses
<1>14. Exact(phy_frames_map', page_dir', pde', new_frame', Mapped')
  <2>1. /\ phy_frames_map \in SUBSET Frames
        /\ page_dir \in FrameFun /\ pde \in FrameFun
        /\ new_frame \in FrameFun /\ Mapped \in FrameFun
        /\ Exact(phy_frames_map, page_dir, pde, new_frame, Mapped)
    BY <1>1 DEF CowData, CowTypeOK, FrameFun
  <2>2. Exact(phy_frames_map, page_dir, pde, new_frame, Mapped')
    BY <1>2, <1>3, <1>11, <1>13, <2>1, PageStaysShared
  <2> QED
    BY <2>2
<1>15. Counted(frame_cow_ref_counts', Mapped')
  BY <1>12
<1>16. \A q \in Processes : pte'[q].rw =>
         q # p /\ pte[q].rw /\ pte'[q] = pte[q] /\ pte[q].frame # NoFrame
  BY <1>1 DEF CowData, CowTypeOK, EntriesFit, EntryFits, NotPresent
<1>17. Alone(pte', Mapped')
  BY <1>1, <1>11, <1>16 DEF CowData, Alone, Becomes
<1>18. Mapped' \in FrameFun
  BY <1>7, MappedNext
<1> QED
  BY <1>7, <1>8, <1>9, <1>10, <1>14, <1>15, <1>17, <1>18, DataNext DEF CowData

\* or frees the frame with the last one,
LEMMA ReleaseLastKeeps ==
  ASSUME CowInv, NEW p \in Processes, NEW why \in {"exec", "exit"}, execs' \in 0..MaxExecs,
         ReleaseLast(p, why)
  PROVE  CowInv'
<1>1. CowData
  BY DataNow
<1> USE DEF ReleaseLast, Goto, frameVars, tableVars, copyVars, NoFrame
<1> USE DEF Uncounts
<1>2. pte[p].frame \in Frames
  BY <1>1 DEF CowData, CowTypeOK, EntriesFit, EntryFits, Frames
<1>3. Mapped[p] = pte[p].frame
  BY <1>1 DEF CowData, CowTypeOK, Mapped, Copying
<1> HIDE DEF NoFrame
<1>4. Changed(frame_cow_ref_counts, pte[p].frame, -1) \in [Frames -> Nat]
  BY <1>1, <1>2 DEF CowData, CowTypeOK, Changed
<1>5. /\ frame_cow_ref_counts \in [Frames -> Nat] /\ Mapped \in FrameFun
       /\ Counted(frame_cow_ref_counts, Mapped)
  BY <1>1 DEF CowData, CowTypeOK
<1>6. \A q \in Processes : child[q] = p => q = p
  BY <1>1, NotAChild
<1>7. CowTypeOK'
  <2>1. CowTypeOK
    BY <1>1 DEF CowData
  <2>2. frame_cow_ref_counts' \in [Frames -> Nat]
    BY <1>2, <1>4, <2>1, CowAssumption DEF CowTypeOK, Places, Frames, NoFrame, NotPresent
  <2>3. pte' \in [Processes -> [present : BOOLEAN, rw : BOOLEAN, frame : 0..NumFrames]]
    BY <1>2, <1>4, <2>1, CowAssumption DEF CowTypeOK, Places, Frames, NoFrame, NotPresent
  <2>4. pc' \in [Processes -> Places]
    BY <1>2, <1>4, <2>1, CowAssumption DEF CowTypeOK, Places, Frames, NoFrame, NotPresent
  <2> QED
    BY <1>2, <1>4, <2>1, <2>2, <2>3, <2>4, CowAssumption
       DEF CowTypeOK, Places, Frames, NoFrame, NotPresent
<1>8. EntriesFit'
  <2>1. SUFFICES ASSUME NEW q \in Processes
                 PROVE  EntryFits(q)'
    BY DEF EntriesFit
  <2>2. CowTypeOK /\ EntryFits(q) /\ EntryFits(p) /\ ForkFits(p)
    BY <1>1 DEF CowData, EntriesFit, ForksFit
  <2>3. CASE q = p
    BY <1>2, <2>2, <2>3 DEF CowTypeOK, EntryFits, Copying, NotPresent
  <2>4. CASE q # p
    BY <1>2, <2>2, <2>4 DEF CowTypeOK, EntryFits, Copying, NotPresent
  <2> QED
    BY <2>3, <2>4
<1>9. ForksFit'
  <2>1. ASSUME NEW q \in Processes
        PROVE  ForkFits(q)'
    <3>1. CowTypeOK /\ ForkFits(q) /\ ForkFits(p) /\ EntryFits(p)
      BY <1>1 DEF CowData, EntriesFit, ForksFit
    <3>2. CASE q = p
      BY <1>2, <1>6, <3>1, <3>2 DEF CowTypeOK, ForkFits, EntryFits, Free, NotPresent
    <3>3. CASE q # p
      BY <1>2, <1>6, <3>1, <3>3 DEF CowTypeOK, ForkFits, EntryFits, Free, NotPresent
    <3> QED
      BY <3>2, <3>3
  <2>2. ASSUME NEW q \in Processes, NEW r \in Processes,
               child'[q] = child'[r], child'[q] # q, child'[r] # r
        PROVE  q = r
    BY <1>1, <2>2 DEF CowData, CowTypeOK, ForksFit, Free, NotPresent
  <2> QED
    BY <2>1, <2>2 DEF ForksFit
<1>10. CopiesFit'
  BY <1>1, <1>2, <1>6
     DEF CowData, CowTypeOK, EntriesFit, EntryFits, CopiesFit, ForksFit, ForkFits, NotPresent, Free
<1>11. Becomes(Mapped', Mapped, p, NoFrame)
  <2>1. \A q \in Processes : q # p => Mapped'[q] = Mapped[q]
    BY <1>1 DEF CowData, CowTypeOK, Mapped, Copying
  <2>2. Mapped'[p] = NoFrame
    BY <1>1 DEF CowData, CowTypeOK, Mapped, Copying, NotPresent
  <2> QED
    BY <1>7, <2>1, <2>2, MappedNext DEF Becomes
<1>12. Counted(Changed(frame_cow_ref_counts, pte[p].frame, -1), Mapped')
  BY <1>2, <1>3, <1>5, <1>11, CountLoses
<1>13. \A q \in Processes : Mapped[q] = pte[p].frame => q = p
  BY <1>2, <1>3, <1>5, <1>11, CountLoses
<1>14. Exact(phy_frames_map', page_dir', pde', new_frame', Mapped')
  <2>1. /\ phy_frames_map \in SUBSET Frames
        /\ page_dir \in FrameFun /\ pde \in FrameFun
        /\ new_frame \in FrameFun /\ Mapped \in FrameFun
        /\ Exact(phy_frames_map, page_dir, pde, new_frame, Mapped)
    BY <1>1 DEF CowData, CowTypeOK, FrameFun
  <2>2. Exact(phy_frames_map \ {pte[p].frame}, page_dir, pde, new_frame, Mapped')
    BY <1>2, <1>3, <1>11, <1>13, <2>1, PageFreed
  <2> QED
    BY <2>2
<1>15. Counted(frame_cow_ref_counts', Mapped')
  BY <1>12
<1>16. \A q \in Processes : pte'[q].rw =>
         q # p /\ pte[q].rw /\ pte'[q] = pte[q] /\ pte[q].frame # NoFrame
  BY <1>1 DEF CowData, CowTypeOK, EntriesFit, EntryFits, NotPresent
<1>17. Alone(pte', Mapped')
  BY <1>1, <1>11, <1>16 DEF CowData, Alone, Becomes
<1>18. Mapped' \in FrameFun
  BY <1>7, MappedNext
<1> QED
  BY <1>7, <1>8, <1>9, <1>10, <1>14, <1>15, <1>17, <1>18, DataNext DEF CowData

\* or has nothing to release.
LEMMA ReleaseNoneKeeps ==
  ASSUME CowInv, NEW p \in Processes, NEW why \in {"exec", "exit"}, execs' \in 0..MaxExecs,
         ReleaseNone(p, why)
  PROVE  CowInv'
<1>1. CowData
  BY DataNow
<1> USE DEF ReleaseNone, Goto, frameVars, tableVars, copyVars, NoFrame
<1>2. \A q \in Processes : child[q] = p => q = p
  BY <1>1, NotAChild
<1>3. CowTypeOK'
  BY <1>1, CowAssumption DEF CowData, CowTypeOK, Places, EntriesFit, EntryFits, Frames, NoFrame
<1>4. EntriesFit'
  <2>1. SUFFICES ASSUME NEW q \in Processes
                 PROVE  EntryFits(q)'
    BY DEF EntriesFit
  <2>2. CowTypeOK /\ EntryFits(q) /\ EntryFits(p) /\ ForkFits(p)
    BY <1>1 DEF CowData, EntriesFit, ForksFit
  <2>3. CASE q = p
    BY <2>2, <2>3 DEF CowTypeOK, EntryFits, Copying, NotPresent
  <2>4. CASE q # p
    BY <2>2, <2>4 DEF CowTypeOK, EntryFits, Copying, NotPresent
  <2> QED
    BY <2>3, <2>4
<1>5. ForksFit'
  <2>1. ASSUME NEW q \in Processes
        PROVE  ForkFits(q)'
    <3>1. CowTypeOK /\ ForkFits(q) /\ ForkFits(p) /\ EntryFits(p)
      BY <1>1 DEF CowData, EntriesFit, ForksFit
    <3>2. CASE q = p
      BY <1>2, <3>1, <3>2 DEF CowTypeOK, ForkFits, EntryFits, Free, NotPresent
    <3>3. CASE q # p
      BY <1>2, <3>1, <3>3 DEF CowTypeOK, ForkFits, EntryFits, Free, NotPresent
    <3> QED
      BY <3>2, <3>3
  <2>2. ASSUME NEW q \in Processes, NEW r \in Processes,
               child'[q] = child'[r], child'[q] # q, child'[r] # r
        PROVE  q = r
    BY <1>1, <2>2 DEF CowData, CowTypeOK, ForksFit, Free
  <2> QED
    BY <2>1, <2>2 DEF ForksFit
<1>6. CopiesFit'
  BY <1>1, <1>2
     DEF CowData, CowTypeOK, EntriesFit, EntryFits, CopiesFit, ForksFit, ForkFits, Free
<1>7. Mapped' = Mapped
  BY <1>1 DEF CowData, CowTypeOK, EntriesFit, EntryFits, ForksFit, ForkFits, Mapped, Copying
<1>8. Exact(phy_frames_map', page_dir', pde', new_frame', Mapped')
  BY <1>1, <1>7 DEF CowData
<1>9. Counted(frame_cow_ref_counts', Mapped')
  BY <1>1, <1>7 DEF CowData
<1>10. Alone(pte', Mapped')
  BY <1>1, <1>7 DEF CowData
<1>11. Mapped' \in FrameFun
  BY <1>3, MappedNext
<1> QED
  BY <1>3, <1>4, <1>5, <1>6, <1>8, <1>9, <1>10, <1>11, DataNext DEF CowData

\* A page table is freed.
LEMMA ReleaseTablesKeeps ==
  ASSUME CowInv, NEW p \in Processes, NEW why, NEW next,
         (why = "exec" /\ next = "user") \/ (why = "exit" /\ next = "exited"),
         ReleaseTables(p, why, next)
  PROVE  CowInv'
<1>1. CowData
  BY DataNow
<1> USE DEF ReleaseTables, Goto, frameVars, tableVars, copyVars, NoFrame
<1>2. ~pte[p].present
  BY <1>1 DEF CowData, EntriesFit, EntryFits
<1>3. pde' \in [Processes -> 0..NumFrames]
  <2>1. pde \in [Processes -> 0..NumFrames] /\ NoFrame \in 0..NumFrames
    BY <1>1, CowAssumption DEF CowData, CowTypeOK
  <2>2. [pde EXCEPT ![p] = NoFrame] \in [Processes -> 0..NumFrames]
    BY <2>1
  <2> QED
    BY <2>1, <2>2
<1>4. \A q \in Processes : child[q] = p => q = p
  BY <1>1, NotAChild
<1>5. CowTypeOK'
  <2>1. CowTypeOK
    BY <1>1 DEF CowData
  <2>2. phy_frames_map' \in SUBSET Frames
    BY <1>2, <1>3, <2>1, CowAssumption DEF CowTypeOK, Places, Frames, NoFrame, release_phy_frame
  <2>3. pc' \in [Processes -> Places]
    BY <1>2, <1>3, <2>1, CowAssumption DEF CowTypeOK, Places, Frames, NoFrame, release_phy_frame
  <2> QED
    BY <1>2, <1>3, <2>1, <2>2, <2>3, CowAssumption
       DEF CowTypeOK, Places, Frames, NoFrame, release_phy_frame
<1>6. EntriesFit'
  <2>1. SUFFICES ASSUME NEW q \in Processes
                 PROVE  EntryFits(q)'
    BY DEF EntriesFit
  <2>2. CowTypeOK /\ EntryFits(q) /\ EntryFits(p) /\ ForkFits(p)
    BY <1>1 DEF CowData, EntriesFit, ForksFit
  <2>3. CASE q = p
    BY <1>2, <2>2, <2>3 DEF CowTypeOK, EntryFits, Copying, NotPresent, release_phy_frame
  <2>4. CASE q # p
    BY <1>2, <2>2, <2>4 DEF CowTypeOK, EntryFits, Copying, NotPresent, release_phy_frame
  <2> QED
    BY <2>3, <2>4
<1>7. ForksFit'
  <2>1. ASSUME NEW q \in Processes
        PROVE  ForkFits(q)'
    <3>1. CowTypeOK /\ ForkFits(q) /\ ForkFits(p) /\ EntryFits(p)
      BY <1>1 DEF CowData, EntriesFit, ForksFit
    <3>2. CASE q = p
      BY <1>2, <1>4, <3>1, <3>2
         DEF CowTypeOK, ForkFits, EntryFits, Free, NotPresent, release_phy_frame
    <3>3. CASE q # p
      BY <1>2, <1>4, <3>1, <3>3
         DEF CowTypeOK, ForkFits, EntryFits, Free, NotPresent, release_phy_frame
    <3> QED
      BY <3>2, <3>3
  <2>2. ASSUME NEW q \in Processes, NEW r \in Processes,
               child'[q] = child'[r], child'[q] # q, child'[r] # r
        PROVE  q = r
    BY <1>1, <2>2 DEF CowData, CowTypeOK, ForksFit, Free, release_phy_frame
  <2> QED
    BY <2>1, <2>2 DEF ForksFit
<1>8. CopiesFit'
  BY <1>1, <1>2, <1>4
     DEF CowData, CowTypeOK, EntriesFit, EntryFits, CopiesFit, ForksFit, ForkFits, release_phy_frame, Free
<1>9. Mapped' = Mapped
  BY <1>1
     DEF CowData, CowTypeOK, EntriesFit, EntryFits, ForksFit, ForkFits, Mapped, Copying, release_phy_frame
<1>10. Exact(phy_frames_map', page_dir', pde', new_frame', Mapped')
  <2>1. /\ phy_frames_map \in SUBSET Frames
        /\ page_dir \in FrameFun /\ pde \in FrameFun
        /\ new_frame \in FrameFun /\ Mapped \in FrameFun
        /\ Exact(phy_frames_map, page_dir, pde, new_frame, Mapped)
    BY <1>1 DEF CowData, CowTypeOK, FrameFun
  <2>2. CASE pde[p] = NoFrame
    BY <1>1, <1>9, <2>2 DEF CowData
  <2>3. CASE pde[p] # NoFrame
    <3>1. pde[p] \in Frames
      BY <1>1, <2>3 DEF CowData, CowTypeOK, Frames
    <3>2. Becomes(pde', pde, p, NoFrame)
      BY <1>5, <2>1, <2>3 DEF CowTypeOK, Becomes, FrameFun
    <3>3. Exact(phy_frames_map \ {pde[p]}, page_dir, pde', new_frame, Mapped)
      BY <2>1, <3>1, <3>2, TableFreed
    <3> QED
      BY <1>9, <2>3, <3>3 DEF release_phy_frame
  <2> QED
    BY <2>2, <2>3
<1>11. Counted(frame_cow_ref_counts', Mapped')
  BY <1>1, <1>9 DEF CowData
<1>12. Alone(pte', Mapped')
  BY <1>1, <1>9 DEF CowData
<1>13. Mapped' \in FrameFun
  BY <1>5, MappedNext
<1> QED
  BY <1>5, <1>6, <1>7, <1>8, <1>10, <1>11, <1>12, <1>13, DataNext DEF CowData

-----------------------------------------------------------------------------
(* The invariant, and what follows from it.                                *)

\* The first process has its directory and nothing else.
LEMMA CowInit ==
  ASSUME Init
  PROVE  CowInv
<1> USE CowAssumption DEF Init, Frames, NoFrame
<1>1. CowTypeOK
  <2>1. /\ phy_frames_map \subseteq Frames /\ frame_cow_ref_counts \in [Frames -> Nat]
        /\ page_dir \in [Processes -> 0..NumFrames] /\ pde \in [Processes -> 0..NumFrames]
        /\ new_frame \in [Processes -> 0..NumFrames] /\ copy_page \in 0..NumFrames
    OBVIOUS
  <2>2. pte \in [Processes -> [present : BOOLEAN, rw : BOOLEAN, frame : 0..NumFrames]]
    BY DEF NotPresent
  <2>3. memory \in [Frames -> Values \cup {Tables}]
    OBVIOUS
  <2>4. page_copy_lock \in BOOLEAN
    BY Zenon
  <2>5. child \in [Processes -> Processes] /\ execs \in 0..MaxExecs
    OBVIOUS
  <2>6. pc \in [Processes -> {"user", "unborn"}]
    OBVIOUS
  <2> HIDE DEF Init
  <2> QED
    BY <2>1, <2>2, <2>3, <2>4, <2>5, <2>6 DEF CowTypeOK, Places
<1>2. EntriesFit
  BY DEF EntriesFit, EntryFits, Copying, NotPresent
<1>3. ForksFit
  BY DEF ForksFit, ForkFits, Free, NotPresent
<1>4. CopiesFit
  BY DEF CopiesFit
<1>5. Mapped = [p \in Processes |-> NoFrame]
  BY DEF Mapped, NotPresent
<1>6. FramesExact
  BY <1>5 DEF FramesExact
<1>7. \A f \in Frames : Sharers(f) = {}
  BY DEF Sharers, NotPresent
<1>8. CountIsOtherSharers
  BY <1>7 DEF CountIsOtherSharers
<1>9. WriterIsAlone
  BY DEF WriterIsAlone, NotPresent
<1> QED
  BY <1>1, <1>2, <1>3, <1>4, <1>6, <1>8, <1>9 DEF CowInv

\* The stores go to a frame that is there.
LEMMA StoresKeep ==
  ASSUME CowInv, NEW p \in Processes, NEW v \in Values, UserStore(p, v) \/ KernelStore(p, v)
  PROVE  CowInv'
<1>1. memory' \in [Frames -> Values \cup {Tables}]
  BY DEF UserStore, KernelStore, CowInv, CowTypeOK
<1>2. UNCHANGED <<frameVars, tableVars, copyVars, child, execs, pc>>
  BY DEF UserStore, KernelStore
<1> QED
  BY <1>1, <1>2, StoreKeeps

\* release_user_space_pages keeps the invariant, on the way of exec and of exit.
LEMMA ReleaseKeeps ==
  ASSUME CowInv, NEW p \in Processes, release_user_space_pages(p)
  PROVE  CowInv'
<1>1. execs \in 0..MaxExecs /\ MaxExecs \in Nat
  BY CowAssumption DEF CowInv, CowTypeOK
<1>2. ASSUME NEW why \in {"exec", "exit"}, ReleasePages(p, why), execs' \in 0..MaxExecs
      PROVE  CowInv'
  BY <1>2, ReleaseCases, ReleaseSharedKeeps, ReleaseLastKeeps, ReleaseNoneKeeps
<1>3. CASE ReleasePages(p, "exec") /\ execs < MaxExecs /\ execs' = execs + 1
  <2>1. execs' \in 0..MaxExecs
    BY <1>1, <1>3
  <2> QED
    BY <1>2, <1>3, <2>1
<1>4. CASE ReleasePages(p, "exit") /\ UNCHANGED execs
  BY <1>1, <1>2, <1>4
<1>5. CASE ReleaseTables(p, "exec", "user")
  BY <1>5, ReleaseTablesKeeps
<1>6. CASE ReleaseTables(p, "exit", "exited")
  BY <1>6, ReleaseTablesKeeps
<1> QED
  BY <1>3, <1>4, <1>5, <1>6 DEF release_user_space_pages

\* Every step keeps the invariant.
LEMMA CowNext ==
  ASSUME CowInv, [Next]_vars
  PROVE  CowInv'
<1>1. CASE UNCHANGED vars
  BY <1>1, StoreKeeps DEF CowInv, CowTypeOK, vars
<1>2. ASSUME NEW p \in Processes, Step(p)
      PROVE  CowInv'
  <2>1. CASE \E v \in Values : UserStore(p, v) \/ KernelStore(p, v)
    BY <2>1, StoresKeep
  <2>2. CASE map_page_with_frame_impl(p)
    <3>1. CASE CowFault(p)
      BY <3>1, CowFaultCases, FaultSharedKeeps, FaultLastKeeps
    <3> QED
      BY <2>2, <3>1, MapTableKeeps, MapNewPageKeeps, CopyAllocatesKeeps, CopyLocksKeeps,
         CopiesKeeps, CopyFaultsKeeps, CopyReleasesWindowKeeps
         DEF map_page_with_frame_impl
  <2>3. CASE \E c \in Processes : CloneDirectory(p, c)
    BY <2>3, CloneDirectoryKeeps
  <2>4. CASE clone_crt_page_dir(p)
    BY <2>4, CloneTableKeeps, CloneNoTableKeeps, CloneCountsKeeps DEF clone_crt_page_dir
  <2>5. CASE release_user_space_pages(p)
    BY <2>5, ReleaseKeeps
  <2>6. CASE destroy_process(p)
    BY <2>6, DestroyKeeps
  <2>7. CASE AllocationFails(p)
    BY <2>7, AllocationFailsKeeps
  <2> QED
    BY <1>2, <2>1, <2>2, <2>3, <2>4, <2>5, <2>6, <2>7 DEF Step
<1> QED
  BY <1>1, <1>2 DEF Next

\* The inductive invariant holds in every reachable state of the user memory of
\* paging.c.
THEOREM CowInvariant == Spec => []CowInv
<1>1. Init => CowInv
  BY CowInit
<1>2. CowInv /\ [Next]_vars => CowInv'
  BY CowNext
<1> QED
  BY <1>1, <1>2, PTL DEF Spec

\* The count change_cow_frame_refcount keeps is one less than the number of the
\* sharers of a frame, for any number of processes that fork, fault and exit.
THEOREM CountsAreRight == Spec => []CountIsOtherSharers
<1>1. CowInv => CountIsOtherSharers
  BY DEF CowInv
<1> QED
  BY <1>1, CowInvariant, PTL

\* The copy-on-write fault of map_page_with_frame_impl and the copies of
\* clone_crt_page_dir leave a page writable for a single process only.
THEOREM WritersAreAlone == Spec => []WriterIsAlone
<1>1. CowInv => WriterIsAlone
  BY DEF CowInv
<1> QED
  BY <1>1, CowInvariant, PTL

\* The allocated frames that no destroyed process has left.
Kept == phy_frames_map \ LeftDirectories

\* An entry of Uses is known by its frame, and the frames of Uses are the allocated
\* ones that are not left.
LEMMA UsesExact ==
  ASSUME CowInv
  PROVE  /\ \A u \in Uses : u[1] \in Kept
         /\ \A u, w \in Uses : u[1] = w[1] => u = w
         /\ \A f \in Kept : \E u \in Uses : u[1] = f
<1> DEFINE Dir == {<<page_dir[p], "directory", p>> : p \in {q \in Processes : HasDirectory(q)}}
           Tab == {<<pde[p], "table", p>> : p \in {q \in Processes : pde[q] # NoFrame}}
           Cop == {<<new_frame[p], "copy", p>> : p \in {q \in Processes : new_frame[q] # NoFrame}}
           Pag == {<<f, "page", FirstProcess>> : f \in {g \in Frames : Sharers(g) # {}}}
<1>1. CowData
  BY DataNow
<1>2. /\ page_dir \in [Processes -> 0..NumFrames] /\ pde \in [Processes -> 0..NumFrames]
      /\ new_frame \in [Processes -> 0..NumFrames] /\ phy_frames_map \subseteq Frames
  BY <1>1 DEF CowData, CowTypeOK
<1>3. Exact(phy_frames_map, page_dir, pde, new_frame, Mapped)
  BY <1>1 DEF CowData
<1>4. \A f \in Frames : Sharers(f) # {} <=> \E q \in Processes : Mapped[q] = f
  <2>1. \A f \in Frames : Sharers(f) = Sh(Mapped, f)
    BY <1>1, MappedNow DEF CowData
  <2> QED
    BY <2>1 DEF Sh
<1>5. Uses = Dir \cup Tab \cup Cop \cup Pag
  BY DEF Uses
<1>6. \A u \in Dir : \E p \in Processes : /\ u = <<page_dir[p], "directory", p>>
                                          /\ page_dir[p] # NoFrame /\ pc[p] # "destroyed"
  BY DEF HasDirectory
<1>7. \A u \in Tab : \E p \in Processes : u = <<pde[p], "table", p>> /\ pde[p] # NoFrame
  OBVIOUS
<1>8. \A u \in Cop : \E p \in Processes : /\ u = <<new_frame[p], "copy", p>>
                                          /\ new_frame[p] # NoFrame
  OBVIOUS
<1>9. \A u \in Pag : \E f \in Frames : \E q \in Processes :
        u = <<f, "page", FirstProcess>> /\ Mapped[q] = f
  BY <1>4
<1>10. /\ \A p \in Processes : page_dir[p] # NoFrame /\ pc[p] # "destroyed"
            => <<page_dir[p], "directory", p>> \in Dir
       /\ \A p \in Processes : pde[p] # NoFrame => <<pde[p], "table", p>> \in Tab
       /\ \A p \in Processes : new_frame[p] # NoFrame => <<new_frame[p], "copy", p>> \in Cop
       /\ \A f \in Frames : \A q \in Processes :
            Mapped[q] = f => <<f, "page", FirstProcess>> \in Pag
  BY <1>4 DEF HasDirectory
<1> HIDE DEF Dir, Tab, Cop, Pag
<1>11. \A u \in Uses : u[1] \in Kept
  <2>1. \A p \in Processes :
          /\ page_dir[p] # NoFrame => page_dir[p] \in phy_frames_map
          /\ pde[p] # NoFrame => pde[p] \in phy_frames_map
          /\ new_frame[p] # NoFrame => new_frame[p] \in phy_frames_map
    BY <1>2, <1>3 DEF Exact, Frames, NoFrame
  <2>2. \A f \in Frames : \A q \in Processes : Mapped[q] = f => f \in phy_frames_map
    BY <1>3 DEF Exact
  <2>3. \A f \in LeftDirectories : \E q \in Processes : f = page_dir[q] /\ pc[q] = "destroyed"
    BY DEF LeftDirectories
  <2>4. \A f \in Frames : f # NoFrame
    BY CowAssumption DEF Frames, NoFrame
  <2>5. \A u \in Uses : u[1] \in phy_frames_map
    BY <1>5, <1>6, <1>7, <1>8, <1>9, <2>1, <2>2
  <2>6. \A u \in Dir : u[1] \notin LeftDirectories
    BY <1>3, <1>6, <2>3 DEF Exact
  <2>7. \A u \in Tab : u[1] \notin LeftDirectories
    BY <1>3, <1>7, <2>3 DEF Exact
  <2>8. \A u \in Cop : u[1] \notin LeftDirectories
    BY <1>3, <1>8, <2>3 DEF Exact
  <2>9. \A u \in Pag : u[1] \notin LeftDirectories
    BY <1>3, <1>9, <2>3, <2>4 DEF Exact
  <2> QED
    BY <1>5, <2>5, <2>6, <2>7, <2>8, <2>9 DEF Kept
<1>12. ASSUME NEW u \in Uses, NEW w \in Uses, u[1] = w[1]
       PROVE  u = w
  <2>1. \A f \in Frames : f # NoFrame
    BY CowAssumption DEF Frames, NoFrame
  <2>2. CASE u \in Dir
    BY <1>3, <1>5, <1>6, <1>7, <1>8, <1>9, <1>12, <2>1, <2>2 DEF Exact
  <2>3. CASE u \in Tab
    BY <1>3, <1>5, <1>6, <1>7, <1>8, <1>9, <1>12, <2>1, <2>3 DEF Exact
  <2>4. CASE u \in Cop
    BY <1>3, <1>5, <1>6, <1>7, <1>8, <1>9, <1>12, <2>1, <2>4 DEF Exact
  <2>5. CASE u \in Pag
    BY <1>3, <1>5, <1>6, <1>7, <1>8, <1>9, <1>12, <2>1, <2>5 DEF Exact
  <2> QED
    BY <1>5, <2>2, <2>3, <2>4, <2>5
<1>13. ASSUME NEW f \in Kept
       PROVE  \E u \in Uses : u[1] = f
  <2>1. f \in Frames /\ f # NoFrame /\ f \in phy_frames_map
    BY <1>2, CowAssumption DEF Frames, NoFrame, Kept
  <2>2. PICK p \in Processes : f \in {page_dir[p], pde[p], new_frame[p], Mapped[p]}
    BY <1>3, <2>1 DEF Exact
  <2>3. CASE f = page_dir[p]
    <3>1. pc[p] # "destroyed"
      BY <2>3 DEF Kept, LeftDirectories
    <3>2. <<f, "directory", p>> \in Uses
      BY <1>5, <1>10, <2>1, <2>3, <3>1
    <3> QED
      BY <3>2
  <2>4. CASE f = pde[p]
    <3>1. <<f, "table", p>> \in Uses
      BY <1>5, <1>10, <2>1, <2>4
    <3> QED
      BY <3>1
  <2>5. CASE f = new_frame[p]
    <3>1. <<f, "copy", p>> \in Uses
      BY <1>5, <1>10, <2>1, <2>5
    <3> QED
      BY <3>1
  <2>6. CASE f = Mapped[p]
    <3>1. <<f, "page", FirstProcess>> \in Uses
      BY <1>5, <1>10, <2>1, <2>6
    <3> QED
      BY <3>1
  <2> QED
    BY <2>2, <2>3, <2>4, <2>5, <2>6
<1> QED
  BY <1>11, <1>12, <1>13

\* Taking the frame of a use is one to one between Uses and these frames.
LEMMA Accounted ==
  ASSUME CowInv
  PROVE  FramesAccounted
<1> DEFINE first == [u \in Uses |-> u[1]]
<1>1. /\ \A u \in Uses : u[1] \in Kept
      /\ \A u, w \in Uses : u[1] = w[1] => u = w
      /\ \A f \in Kept : \E u \in Uses : u[1] = f
  BY UsesExact
<1>2. {u[1] : u \in Uses} = Kept
  BY <1>1
<1>3. first \in Injection(Uses, Kept) /\ first \in Surjection(Uses, Kept)
  <2>1. first \in [Uses -> Kept] /\ \A u \in Uses : first[u] = u[1]
    BY <1>1
  <2> HIDE DEF first
  <2>2. \A u, w \in Uses : first[u] = first[w] => u = w
    BY <1>1, <2>1
  <2>3. \A f \in Kept : \E u \in Uses : first[u] = f
    BY <1>1, <2>1
  <2> QED
    BY <2>1, <2>2, <2>3 DEF Injection, Surjection, IsInjective
<1>4. IsFiniteSet(Kept)
  <2>1. Kept \in SUBSET Frames
    BY DEF CowInv, CowTypeOK, Kept
  <2>2. IsFiniteSet(Frames)
    BY CowAssumption, FS_Interval DEF Frames
  <2> QED
    BY <2>1, <2>2, FS_Subset
<1>5. Cardinality(Uses) = Cardinality(Kept)
  <2> HIDE DEF first
  <2> QED
    BY <1>3, <1>4, FS_Injection
<1>6. LeftDirectories \subseteq phy_frames_map
  <2> SUFFICES ASSUME NEW p \in Processes, pc[p] = "destroyed"
               PROVE  page_dir[p] \in phy_frames_map
    BY DEF LeftDirectories
  <2>1. page_dir[p] \in Frames
    <3>1. page_dir[p] \in 0..NumFrames /\ page_dir[p] # NoFrame
      BY DEF CowInv, CowTypeOK, EntriesFit, EntryFits
    <3> QED
      BY <3>1, CowAssumption DEF Frames, NoFrame
  <2> QED
    BY <2>1 DEF CowInv, FramesExact
<1> QED
  BY <1>2, <1>5, <1>6 DEF FramesAccounted, Kept

\* allocate_phy_frame, release_phy_frame and release_page give no frame to two users,
\* and the frames that stay allocated without a user are exactly the page directories
\* that destroy_process fails to release, however many processes share, copy and release.
THEOREM OnlyDirectoriesLost == Spec => []FramesAccounted
<1>1. CowInv => FramesAccounted
  BY Accounted
<1> QED
  BY <1>1, CowInvariant, PTL

-----------------------------------------------------------------------------
\* The step of OthersCannotWrite.
OnlyOwnStores ==
  \A f \in Frames : \A p \in Sharers(f) \cap Sharers(f)' :
    memory'[f] # memory[f] =>
      \E v \in Values : UserStore(p, v) \/ \E q \in Processes : KernelStore(q, v)

\* A frame that is not shared can be written.
LEMMA UnsharedWritten ==
  ASSUME NEW x \in Frames, NEW y, Sharers(x) = {},
         memory \in [Frames -> Values \cup {Tables}],
         memory' = [memory EXCEPT ![x] = y]
  PROVE  OnlyOwnStores
BY DEF OnlyOwnStores

\* A free frame and the target of a copy have no sharers.
LEMMA FreeUnshared ==
  ASSUME CowInv, NEW x \in Frames,
         x \notin phy_frames_map \/ \E p \in Processes : new_frame[p] = x
  PROVE  Sharers(x) = {}
<1>1. CowData
  BY DataNow
<1>2. Sharers(x) = Sh(Mapped, x)
  BY <1>1, MappedNow DEF CowData
<1>3. \A q \in Processes : Mapped[q] # x
  <2>1. Exact(phy_frames_map, page_dir, pde, new_frame, Mapped)
    BY <1>1 DEF CowData
  <2>2. x # NoFrame
    BY CowAssumption DEF Frames, NoFrame
  <2> QED
    BY <2>1, <2>2 DEF Exact
<1> QED
  BY <1>2, <1>3 DEF Sh

\* A step writes to a frame without sharers, or is a store of the kernel or of the
\* only sharer.
LEMMA OwnStoresStep ==
  ASSUME CowInv, [Next]_vars
  PROVE  OnlyOwnStores
<1>1. CowTypeOK /\ memory \in [Frames -> Values \cup {Tables}]
  BY DEF CowInv, CowTypeOK
<1>2. CASE memory' = memory
  BY <1>2 DEF OnlyOwnStores
<1>3. ASSUME allocate_phy_frame, NEW y, memory' = [memory EXCEPT ![FirstFree] = y]
      PROVE  OnlyOwnStores
  <2>1. FirstFree \in Frames /\ FirstFree \notin phy_frames_map
    BY <1>1, <1>3, FirstFreeIsFree DEF allocate_phy_frame
  <2>2. Sharers(FirstFree) = {}
    BY <2>1, FreeUnshared
  <2> QED
    BY <1>1, <1>3, <2>1, <2>2, UnsharedWritten
<1>4. ASSUME NEW p \in Processes, NEW v \in Values, UserStore(p, v)
      PROVE  OnlyOwnStores
  <2>1. Sharers(pte[p].frame) = {p}
    BY <1>4 DEF CowInv, WriterIsAlone, UserStore
  <2>2. memory' = [memory EXCEPT ![pte[p].frame] = v]
    BY <1>4 DEF UserStore
  <2>3. \A f \in Frames : memory'[f] # memory[f] => f = pte[p].frame
    BY <1>1, <2>2
  <2> QED
    BY <1>4, <2>1, <2>3 DEF OnlyOwnStores
<1>5. ASSUME NEW p \in Processes, NEW v \in Values, KernelStore(p, v)
      PROVE  OnlyOwnStores
  BY <1>5 DEF OnlyOwnStores
<1>6. ASSUME NEW p \in Processes, Copies(p)
      PROVE  OnlyOwnStores
  <2>1. copy_page = new_frame[p] /\ copy_page \in Frames
    BY <1>1, <1>6 DEF CowInv, CowTypeOK, CopiesFit, Copies, Goto, Frames, NoFrame
  <2>2. Sharers(copy_page) = {}
    BY <2>1, FreeUnshared
  <2> QED
    BY <1>1, <1>6, <2>1, <2>2, UnsharedWritten DEF Copies
<1>7. ASSUME NEW p \in Processes, Step(p)
      PROVE  OnlyOwnStores
  <2>1. CASE \E v \in Values : UserStore(p, v) \/ KernelStore(p, v)
    BY <1>4, <1>5, <2>1
  <2>2. CASE MapTable(p) \/ MapNewPage(p)
    BY <1>3, <2>2 DEF MapTable, MapNewPage
  <2>3. CASE Copies(p)
    BY <1>6, <2>3
  <2>4. CASE CowFault(p) \/ CopyAllocates(p) \/ CopyLocks(p) \/ CopyFaults(p)
               \/ CopyReleasesWindow(p)
    BY <1>2, <2>4 DEF CowFault, CopyAllocates, CopyLocks, CopyFaults, CopyReleasesWindow
  <2>5. CASE \E c \in Processes : CloneDirectory(p, c)
    BY <1>3, <2>5 DEF CloneDirectory
  <2>6. CASE CloneTable(p)
    BY <1>3, <2>6 DEF CloneTable
  <2>7. CASE CloneNoTable(p) \/ CloneCounts(p)
    BY <1>2, <2>7 DEF CloneNoTable, CloneCounts
  <2>8. CASE release_user_space_pages(p)
    BY <1>2, <2>8 DEF release_user_space_pages, ReleasePages, ReleaseTables
  <2>9. CASE AllocationFails(p) \/ destroy_process(p)
    BY <1>2, <2>9 DEF AllocationFails, destroy_process
  <2> QED
    BY <1>7, <2>1, <2>2, <2>3, <2>4, <2>5, <2>6, <2>7, <2>8, <2>9
       DEF Step, map_page_with_frame_impl, clone_crt_page_dir
<1>8. CASE UNCHANGED vars
  BY <1>2, <1>8 DEF vars
<1> QED
  BY <1>7, <1>8 DEF Next

\* Whatever faults, copies, forks and exits other processes make, the content of a
\* page changes under its sharer only by its own stores and by those of the kernel,
\* which ignores the rw bit that clone_crt_page_dir clears.
THEOREM PagesArePrivate == Spec => OthersCannotWrite
<1>1. CowInv /\ [Next]_vars => [OnlyOwnStores]_vars
  BY OwnStoresStep
<1>2. Spec => [][OnlyOwnStores]_vars
  BY <1>1, CowInvariant, PTL DEF Spec
<1> QED
  BY <1>2 DEF OthersCannotWrite, OnlyOwnStores

==============================================================================
