------------------------ MODULE EditWorkspace_proofs ------------------------
(***************************************************************************)
(* Proofs about the pending workspace and the host's answer                *)
(* (EditWorkspace), for every set of names and every number of commands    *)
(* and hooks.                                                              *)
(***************************************************************************)
EXTENDS EditWorkspace, WellFoundedInduction, TLAPS

-----------------------------------------------------------------------------
(* The inductive invariant.                                                *)

FileType ==
  [from : Names \cup {New}, path : Names, created : BOOLEAN, deleted : BOOLEAN,
   edits : SUBSET Nat, text : SUBSET Nat, layout : LayoutType, indents : SUBSET Nat, origin : Nat]

\* A file keeps the place it was read from.
InPlace(f) == Live(f) /\ f.path = f.from

DiskInv ==
  /\ disk \in [Names -> FileContents \cup {Absent}]
  /\ \A p \in Names : disk[p] # Absent => disk[p] = OnDisk(p)

\* One file: where it is found, that its source is on disk, that its
\* destination is not, and that a source given up is blocked.
FileInv(i) ==
  LET f == files[i] IN
  /\ Live(f) => paths[f.path] = i
  /\ f.created <=> f.from = New
  /\ ~f.created => disk[f.from] # Absent /\ (InPlace(f) \/ f.from \in blocked)
  /\ f.created \/ f.path # f.from => disk[f.path] = Absent

\* The maps of the workspace fit together.
FilesInv ==
  /\ files \in Seq(FileType) /\ paths \in [Names -> 0..Len(files)]
  /\ blocked \in SUBSET Names /\ reserved = blocked
  /\ active \in 0..Len(files) /\ initializable \in {None, active}
  /\ active # None => Live(files[active])
  /\ initializable # None =>
       files[active].created /\ files[active].edits = {} /\ files[active].text = {}
  /\ \A p \in Names : paths[p] # None =>
       files[paths[p]].path = p /\ Live(files[paths[p]]) /\ p \notin blocked
  /\ \A i \in DOMAIN files : FileInv(i)
  /\ \A i, j \in DOMAIN files :
       ~files[i].created /\ ~files[j].created /\ files[i].from = files[j].from => i = j
  /\ \A p \in blocked : disk[p] # Absent =>
       \E i \in DOMAIN files : ~files[i].created /\ files[i].from = p /\ ~InPlace(files[i])

\* Before they are rendered the files have the layout that the commands gave them.
Rendered == phase = "effect"
LayoutInv ==
  ~Rendered => \A i \in DOMAIN files :
    LET f == files[i] IN
    /\ f.indents # {} => f.layout.spacing
    /\ f.created => ~f.layout.spacing

\* What rendering may do to the layout of a file that had the given one.
Reformats(f, layout) ==
  /\ f.created \/ f.text # {} \/ layout # Fresh(f.from) \/ (f.path \in GoPaths /\ f.from \notin GoPaths)
  /\ f.path \notin GoPaths => f.layout.ends = layout.ends

\* The reference execution finds the pending files; rendering changes layout only.
PendingInv ==
  /\ pending \in [Names -> FileContents \cup {Absent}]
  /\ \A p \in Names :
       IF paths[p] # None
       THEN LET f == files[paths[p]] IN
            \E layout \in LayoutType :
              /\ pending[p] = Content(f.from, f.text, layout)
              /\ ~Rendered => layout = f.layout
              /\ f.layout # layout => Reformats(f, layout)
       ELSE pending[p] = IF p \in blocked THEN Absent ELSE disk[p]

ChangesInv == Rendered => changes = changesOf(files)

WorkspaceInv == DiskInv /\ FilesInv /\ LayoutInv /\ PendingInv /\ ChangesInv

-----------------------------------------------------------------------------
(* Steps of the pending workspace.                                         *)

\* The workspace that is given up, like the one at the start, is empty.
LEMMA EmptyWorkspace ==
  ASSUME DiskInv', files' = << >>, paths' = [p \in Names |-> None], blocked' = {}, reserved' = {},
         active' = None, initializable' = None, pending' = disk', phase' # "effect"
  PROVE  WorkspaceInv'
<1>1. FilesInv'
  BY DEF FilesInv, FileInv, None
<1>2. PendingInv'
  <2>1. pending' \in [Names -> FileContents \cup {Absent}]
    BY DEF DiskInv
  <2> QED
    BY <2>1 DEF PendingInv, None
<1> QED
  BY <1>1, <1>2 DEF WorkspaceInv, LayoutInv, ChangesInv, Rendered

\* A step that leaves the workspace alone and does not render.
LEMMA SameWorkspace ==
  ASSUME WorkspaceInv, UNCHANGED <<disk, files, paths, blocked, reserved, active, initializable, pending>>,
         \/ phase' = phase /\ changes' = changes
         \/ phase' # "effect" /\ phase # "effect"
  PROVE  WorkspaceInv'
<1>1. DiskInv' /\ FilesInv'
  BY DEF WorkspaceInv, DiskInv, FilesInv, FileInv
<1>2. LayoutInv' /\ PendingInv'
  BY DEF WorkspaceInv, LayoutInv, PendingInv, Rendered
<1>3. ChangesInv'
  BY DEF WorkspaceInv, ChangesInv, Rendered, changesOf
<1> QED
  BY <1>1, <1>2, <1>3 DEF WorkspaceInv

\* A refused script leaves an empty workspace.
LEMMA RejectedStep ==
  ASSUME WorkspaceInv, NEW why, NEW commands, Rejected(why, commands), disk' = disk
  PROVE  WorkspaceInv'
<1>1. DiskInv'
  BY DEF WorkspaceInv, DiskInv
<1> QED
  BY <1>1, EmptyWorkspace DEF Rejected, Discards

\* The layout of a file as it is read, or as it is created.
LEMMA FreshType ==
  ASSUME NEW from \in Names \cup {New}
  PROVE  Fresh(from) \in LayoutType /\ Fresh(from).spacing = FALSE
<1>1. LF \in Endings /\ EndsOf \in [Names -> Endings]
  BY WorkspaceAssumption
<1>2. (IF from = New THEN LF ELSE EndsOf[from]) \in Endings
  BY <1>1
<1> QED
  BY <1>2 DEF Fresh, Layout, LayoutType

\* What the maps say about a name that a command may take.
LEMMA FreeName ==
  ASSUME WorkspaceInv, NEW p \in Names, ~pathOccupied(p)
  PROVE  paths[p] = None /\ p \notin blocked /\ disk[p] = Absent
  BY DEF WorkspaceInv, FilesInv, pathOccupied

\* A file joins the workspace at a name where none was: one read from the disk,
\* or a new one at a free name.
LEMMA JoinStep ==
  ASSUME WorkspaceInv, phase # "effect", phase' # "effect", NEW p \in Names, NEW f \in FileType,
         paths[p] = None, p \notin blocked, f.path = p, Live(f), f.layout = Fresh(f.from),
         f.edits = {}, f.text = {}, f.indents = {},
         \/ f.created /\ f.from = New /\ disk[p] = Absent
         \/ ~f.created /\ f.from = p /\ disk[p] # Absent,
         files' = Append(files, f), paths' = [paths EXCEPT ![p] = Len(files')],
         active' = Len(files'), initializable' \in {None, Len(files')},
         initializable' # None => f.created,
         pending' = [pending EXCEPT ![p] = Content(f.from, {}, Fresh(f.from))],
         UNCHANGED <<disk, blocked, reserved>>
  PROVE  WorkspaceInv'
<1> DEFINE n == Len(files) + 1
<1>1. /\ files \in Seq(FileType) /\ Len(files) \in Nat /\ DOMAIN files = 1..Len(files)
      /\ paths \in [Names -> 0..Len(files)] /\ blocked \in SUBSET Names /\ reserved = blocked
      /\ n \in Nat /\ New \notin Names
  BY WorkspaceAssumption DEF WorkspaceInv, FilesInv
<1>2. /\ files' \in Seq(FileType) /\ Len(files') = n /\ DOMAIN files' = 1..n
      /\ files'[n] = f /\ \A i \in 1..Len(files) : files'[i] = files[i]
  BY <1>1
<1>3. /\ paths' \in [Names -> 0..n] /\ paths'[p] = n
      /\ \A q \in Names : q # p => paths'[q] = paths[q]
  BY <1>1, <1>2
<1>4. ASSUME NEW i \in DOMAIN files PROVE ~files[i].created => files[i].from # p
  BY <1>1 DEF WorkspaceInv, FilesInv, FileInv, InPlace, Live, None
<1>5. ASSUME NEW i \in DOMAIN files' PROVE FileInv(i)'
  <2>1. CASE i = n
    BY <1>1, <1>2, <1>3, <2>1 DEF FileInv, InPlace, Live
  <2>2. CASE i # n
    <3>0. i \in DOMAIN files /\ files'[i] = files[i]
      BY <1>1, <1>2, <2>2
    <3>1. i \in DOMAIN files /\ files'[i] = files[i] /\ FileInv(i)
      BY <3>0 DEF WorkspaceInv, FilesInv
    <3>2. Live(files[i]) => files[i].path # p
      BY <1>1, <3>1 DEF FileInv, None
    <3>3. files[i] \in FileType
      BY <1>1, <3>1
    <3>4. files[i].path \in Names
      BY <3>3 DEF FileType
    <3> QED
      BY <1>3, <3>1, <3>2, <3>4 DEF FileInv, InPlace
  <2> QED
    BY <2>1, <2>2
<1>6. ASSUME NEW q \in Names, paths'[q] # None
      PROVE  files'[paths'[q]].path = q /\ Live(files'[paths'[q]]) /\ q \notin blocked'
  <2>1. CASE q = p
    BY <1>1, <1>2, <1>3, <2>1
  <2>2. CASE q # p
    BY <1>1, <1>2, <1>3, <1>6, <2>2 DEF WorkspaceInv, FilesInv, None
  <2> QED
    BY <2>1, <2>2
<1>7. ASSUME NEW i \in DOMAIN files', NEW j \in DOMAIN files',
             ~files'[i].created, ~files'[j].created, files'[i].from = files'[j].from
      PROVE  i = j
  <2>1. i \in DOMAIN files \/ i = n
    BY <1>1, <1>2
  <2>2. j \in DOMAIN files \/ j = n
    BY <1>1, <1>2
  <2>3. \A a, b \in DOMAIN files :
          ~files[a].created /\ ~files[b].created /\ files[a].from = files[b].from => a = b
    BY DEF WorkspaceInv, FilesInv
  <2>4. ~f.created => f.from = p
    OBVIOUS
  <2> HIDE DEF n
  <2> QED
    BY <1>1, <1>2, <1>4, <1>7, <2>1, <2>2, <2>3, <2>4
<1>8. ASSUME NEW q \in blocked', disk'[q] # Absent
      PROVE  \E i \in DOMAIN files' : ~files'[i].created /\ files'[i].from = q /\ ~InPlace(files'[i])
  <2>1. PICK i \in DOMAIN files : ~files[i].created /\ files[i].from = q /\ ~InPlace(files[i])
    BY <1>8 DEF WorkspaceInv, FilesInv
  <2> QED
    BY <1>1, <1>2, <2>1
<1>9. FilesInv'
  BY <1>1, <1>2, <1>3, <1>5, <1>6, <1>7, <1>8 DEF FilesInv, None
<1>10. LayoutInv'
  <2> SUFFICES ASSUME NEW i \in DOMAIN files'
               PROVE  /\ files'[i].indents # {} => files'[i].layout.spacing
                      /\ files'[i].created => ~files'[i].layout.spacing
    BY DEF LayoutInv
  <2>1. CASE i = n
    BY <1>2, <2>1, FreshType DEF FileType
  <2>2. CASE i # n
    BY <1>1, <1>2, <2>2 DEF WorkspaceInv, LayoutInv, Rendered
  <2> QED
    BY <2>1, <2>2
<1>11. PendingInv'
  <2>1. Content(f.from, {}, Fresh(f.from)) \in FileContents
    BY FreshType DEF Content, FileContents, FileType
  <2>2. /\ pending' \in [Names -> FileContents \cup {Absent}] /\ pending'[p] = Content(f.from, {}, Fresh(f.from))
        /\ \A q \in Names : q # p => pending'[q] = pending[q]
    BY <2>1 DEF WorkspaceInv, PendingInv
  <2>3. ASSUME NEW q \in Names, paths'[q] # None
        PROVE  \E layout \in LayoutType :
                 /\ pending'[q] = Content(files'[paths'[q]].from, files'[paths'[q]].text, layout)
                 /\ ~Rendered' => layout = files'[paths'[q]].layout
                 /\ files'[paths'[q]].layout # layout => Reformats(files'[paths'[q]], layout)
    <3>1. CASE q = p
      <4>1. files'[paths'[q]] = f /\ pending'[q] = Content(f.from, f.text, f.layout)
        BY <1>2, <1>3, <2>2, <3>1
      <4>2. f.layout \in LayoutType
        BY DEF FileType
      <4> QED
        BY <4>1, <4>2
    <3>2. CASE q # p
      BY <1>1, <1>2, <1>3, <2>2, <2>3, <3>2 DEF WorkspaceInv, PendingInv, Rendered, None
    <3> QED
      BY <3>1, <3>2
  <2>4. ASSUME NEW q \in Names, paths'[q] = None
        PROVE  pending'[q] = IF q \in blocked' THEN Absent ELSE disk'[q]
    <3>1. q # p
      BY <1>1, <1>3, <2>4 DEF None
    <3>2. paths[q] = None /\ pending'[q] = pending[q] /\ blocked' = blocked /\ disk' = disk
      BY <1>3, <2>2, <2>4, <3>1
    <3> QED
      BY <3>2 DEF WorkspaceInv, PendingInv
  <2> QED
    BY <2>2, <2>3, <2>4 DEF PendingInv
<1>12. DiskInv' /\ ChangesInv'
  BY DEF WorkspaceInv, DiskInv, ChangesInv, Rendered
<1> QED
  BY <1>9, <1>10, <1>11, <1>12 DEF WorkspaceInv

LEMMA SelectStep ==
  ASSUME WorkspaceInv, NEW p \in Names, NEW spelling, selectFile(p, spelling)
  PROVE  WorkspaceInv'
<1>1. /\ phase = "evaluate" /\ phase' = "evaluate"
      /\ UNCHANGED <<disk, blocked, reserved, pending>> /\ initializable' = None
  BY DEF selectFile, Step, Goes, Forgets
<1>2. CASE paths[p] # None /\ active' = paths[p] /\ UNCHANGED <<files, paths>>
  <2>1. FilesInv'
    BY <1>1, <1>2 DEF WorkspaceInv, FilesInv, FileInv
  <2> QED
    BY <1>1, <1>2, <2>1 DEF WorkspaceInv, DiskInv, LayoutInv, PendingInv, ChangesInv, Rendered
<1>3. CASE ~(paths[p] # None /\ active' = paths[p] /\ UNCHANGED <<files, paths>>)
  <2> DEFINE f == [from |-> p, path |-> p, created |-> FALSE, deleted |-> FALSE,
                   edits |-> {}, text |-> {}, layout |-> Fresh(p), indents |-> {}, origin |-> 0]
  <2>1. /\ paths[p] = None /\ p \notin blocked /\ disk[p] # Absent
        /\ files' = Append(files, f) /\ active' = Len(files') /\ paths' = [paths EXCEPT ![p] = Len(files')]
    BY <1>3 DEF selectFile
  <2>2. f \in FileType /\ f.path = p /\ Live(f) /\ f.layout = Fresh(f.from) /\ f.edits = {} /\ f.text = {} /\ f.indents = {}
        /\ ~f.created /\ f.from = p
    BY FreshType DEF FileType, Live
  <2>3. pending[p] = Content(p, {}, Fresh(p))
    BY <2>1 DEF WorkspaceInv, PendingInv, DiskInv, OnDisk
  <2>4. pending' = [pending EXCEPT ![p] = Content(f.from, {}, Fresh(f.from))]
    BY <1>1, <2>3 DEF WorkspaceInv, PendingInv
  <2> HIDE DEF f
  <2> QED
    BY <1>1, <2>1, <2>2, <2>4, JoinStep
<1> QED
  BY <1>2, <1>3

LEMMA NewStep ==
  ASSUME WorkspaceInv, count \in Nat, NEW p \in Names, NEW spelling, newFile(p, spelling)
  PROVE  WorkspaceInv'
<1> DEFINE f == [from |-> New, path |-> p, created |-> TRUE, deleted |-> FALSE,
                 edits |-> {}, text |-> {}, layout |-> Fresh(New), indents |-> {}, origin |-> count']
<1>1. /\ phase = "evaluate" /\ phase' = "evaluate" /\ UNCHANGED <<disk, blocked, reserved>>
      /\ files' = Append(files, f) /\ active' = Len(files') /\ initializable' = Len(files')
      /\ paths' = [paths EXCEPT ![p] = Len(files')]
      /\ pending' = [pending EXCEPT ![p] = Content(New, {}, Fresh(New))]
      /\ ~pathOccupied(p) /\ count' \in Nat
  BY DEF newFile, Step, Goes
<1>2. paths[p] = None /\ p \notin blocked /\ disk[p] = Absent
  BY <1>1, FreeName
<1>3. f \in FileType /\ f.path = p /\ Live(f) /\ f.layout = Fresh(f.from) /\ f.edits = {} /\ f.text = {} /\ f.indents = {}
      /\ f.created /\ f.from = New
  BY <1>1, FreshType DEF FileType, Live
<1>4. pending' = [pending EXCEPT ![p] = Content(f.from, {}, Fresh(f.from))]
  BY <1>1, <1>3
<1> HIDE DEF f
<1> QED
  BY <1>1, <1>2, <1>3, <1>4, JoinStep

\* The active file is one of the workspace and is found at its name.
LEMMA ActiveFile ==
  ASSUME WorkspaceInv, active # None
  PROVE  /\ active \in DOMAIN files /\ DOMAIN files = 1..Len(files) /\ Len(files) \in Nat
         /\ files[active] \in FileType /\ files[active].path \in Names
         /\ Live(files[active]) /\ paths[files[active].path] = active
         /\ files[active].path \notin blocked /\ FileInv(active)
<1>1. active \in DOMAIN files /\ DOMAIN files = 1..Len(files) /\ Len(files) \in Nat /\ files[active] \in FileType
  BY DEF WorkspaceInv, FilesInv, None
<1>2. files[active].path \in Names
  BY <1>1 DEF FileType
<1>3. Live(files[active]) /\ FileInv(active)
  BY <1>1 DEF WorkspaceInv, FilesInv
<1>4. paths[files[active].path] = active
  BY <1>3 DEF FileInv
<1> QED
  BY <1>1, <1>2, <1>3, <1>4 DEF WorkspaceInv, FilesInv

LEMMA MoveStep ==
  ASSUME WorkspaceInv, count \in Nat, NEW p \in Names, NEW spelling, moveFile(p, spelling)
  PROVE  WorkspaceInv'
<1> DEFINE f == files[active]
           old == f.path
           g == [f EXCEPT !.path = p, !.origin = count']
<1>1. /\ phase = "evaluate" /\ phase' = "evaluate" /\ UNCHANGED <<disk, active>>
      /\ active # None /\ ~pathOccupied(p) /\ initializable' = None /\ count' \in Nat
      /\ paths' = [paths EXCEPT ![old] = None, ![p] = active]
      /\ blocked' = blocked \cup ({old, old} \cap Names) /\ reserved' = reserved \cup {old}
      /\ files' = [files EXCEPT ![active].path = p, ![active].origin = count']
      /\ pending' = [pending EXCEPT ![p] = pending[old], ![old] = Absent]
  BY DEF moveFile, Step, Goes, Forgets, Vacates
<1>2. paths[p] = None /\ p \notin blocked /\ disk[p] = Absent
  BY <1>1, FreeName
<1>3. /\ active \in DOMAIN files /\ DOMAIN files = 1..Len(files) /\ Len(files) \in Nat
      /\ f \in FileType /\ old \in Names /\ Live(f) /\ paths[old] = active /\ old \notin blocked /\ FileInv(active)
  BY <1>1, ActiveFile
<1>4. /\ files \in Seq(FileType) /\ paths \in [Names -> 0..Len(files)] /\ p # old
      /\ blocked \in SUBSET Names /\ reserved = blocked /\ New \notin Names
  BY <1>1, <1>2, <1>3, WorkspaceAssumption DEF WorkspaceInv, FilesInv
<1>5. g \in FileType /\ g.path = p /\ Live(g) /\ g.created = f.created /\ g.from = f.from
      /\ g.edits = f.edits /\ g.text = f.text /\ g.layout = f.layout /\ g.indents = f.indents
  BY <1>1, <1>3 DEF FileType, Live
<1>6. files' = [files EXCEPT ![active] = g]
  BY <1>1, <1>3, <1>4 DEF FileType
<1> HIDE DEF g
<1>7. /\ files' \in Seq(FileType) /\ Len(files') = Len(files) /\ DOMAIN files' = DOMAIN files
      /\ files'[active] = g /\ \A i \in DOMAIN files : i # active => files'[i] = files[i]
  BY <1>3, <1>4, <1>5, <1>6
<1>8. /\ paths' \in [Names -> 0..Len(files)] /\ paths'[p] = active /\ paths'[old] = None
      /\ \A q \in Names \ {p, old} : paths'[q] = paths[q]
  BY <1>1, <1>3, <1>4 DEF None
<1>9. blocked' = blocked \cup {old} /\ reserved' = blocked' /\ blocked' \in SUBSET Names /\ p \notin blocked'
  BY <1>1, <1>2, <1>3, <1>4
<1>10. ASSUME NEW i \in DOMAIN files' PROVE FileInv(i)'
  <2>1. CASE i = active
    BY <1>1, <1>2, <1>3, <1>5, <1>7, <1>8, <1>9, <2>1 DEF FileInv, InPlace, FileType
  <2>2. CASE i # active
    <3>1. files'[i] = files[i] /\ FileInv(i) /\ files[i] \in FileType
      BY <1>4, <1>7, <2>2 DEF WorkspaceInv, FilesInv
    <3>2. files[i].path \in Names
      BY <3>1 DEF FileType
    <3>3. Live(files[i]) => files[i].path # p /\ files[i].path # old
      BY <1>2, <1>3, <1>7, <2>2, <3>1 DEF FileInv, None
    <3> QED
      BY <1>1, <1>8, <1>9, <3>1, <3>2, <3>3 DEF FileInv, InPlace
  <2> QED
    BY <2>1, <2>2
<1>11. ASSUME NEW q \in Names, paths'[q] # None
       PROVE  files'[paths'[q]].path = q /\ Live(files'[paths'[q]]) /\ q \notin blocked'
  <2>1. CASE q = p
    BY <1>5, <1>7, <1>8, <1>9, <2>1
  <2>2. CASE q # p
    <3>1. q # old /\ paths'[q] = paths[q]
      BY <1>8, <1>11, <2>2
    <3>2. paths[q] # None /\ files[paths[q]].path = q /\ Live(files[paths[q]]) /\ q \notin blocked
      BY <1>11, <3>1 DEF WorkspaceInv, FilesInv
    <3>3. paths[q] # active /\ paths[q] \in DOMAIN files
      BY <1>3, <1>4, <3>1, <3>2 DEF None
    <3> QED
      BY <1>7, <1>9, <3>1, <3>2, <3>3
  <2> QED
    BY <2>1, <2>2
<1>12. ASSUME NEW i \in DOMAIN files', NEW j \in DOMAIN files',
              ~files'[i].created, ~files'[j].created, files'[i].from = files'[j].from
       PROVE  i = j
  <2>1. ~files[i].created /\ ~files[j].created /\ files[i].from = files[j].from
    BY <1>5, <1>7, <1>12
  <2> QED
    BY <1>7, <2>1 DEF WorkspaceInv, FilesInv
<1>13. ASSUME NEW q \in blocked', disk'[q] # Absent
       PROVE  \E i \in DOMAIN files' : ~files'[i].created /\ files'[i].from = q /\ ~InPlace(files'[i])
  <2>1. CASE q \in blocked
    <3>1. PICK i \in DOMAIN files : ~files[i].created /\ files[i].from = q /\ ~InPlace(files[i])
      BY <1>1, <1>13, <2>1 DEF WorkspaceInv, FilesInv
    <3>2. CASE i = active
      BY <1>2, <1>1, <1>5, <1>7, <1>13, <3>1, <3>2 DEF InPlace
    <3>3. CASE i # active
      BY <1>7, <3>1, <3>3
    <3> QED
      BY <3>2, <3>3
  <2>2. CASE q = old
    <3>1. ~f.created /\ f.from = old
      BY <1>1, <1>3, <1>13, <2>2 DEF FileInv
    <3> QED
      BY <1>3, <1>4, <1>5, <1>7, <2>2, <3>1 DEF InPlace
  <2> QED
    BY <1>9, <2>1, <2>2
<1>14. FilesInv'
  <2>1. files' \in Seq(FileType) /\ paths' \in [Names -> 0..Len(files')]
        /\ blocked' \in SUBSET Names /\ reserved' = blocked' /\ active' \in 0..Len(files')
        /\ initializable' = None /\ Live(files'[active'])
    BY <1>1, <1>3, <1>5, <1>7, <1>8, <1>9
  <2> QED
    BY <1>10, <1>11, <1>12, <1>13, <2>1 DEF FilesInv
<1>15. LayoutInv'
  <2> SUFFICES ASSUME NEW i \in DOMAIN files'
               PROVE  /\ files'[i].indents # {} => files'[i].layout.spacing
                      /\ files'[i].created => ~files'[i].layout.spacing
    BY DEF LayoutInv
  <2>1. (files[i].indents # {} => files[i].layout.spacing) /\ (files[i].created => ~files[i].layout.spacing)
    BY <1>1, <1>7 DEF WorkspaceInv, LayoutInv, Rendered
  <2> QED
    BY <1>5, <1>7, <2>1
<1>16. PendingInv'
  <2>1. /\ pending' \in [Names -> FileContents \cup {Absent}] /\ pending'[p] = pending[old] /\ pending'[old] = Absent
        /\ \A q \in Names \ {p, old} : pending'[q] = pending[q]
    BY <1>1, <1>3, <1>4 DEF WorkspaceInv, PendingInv
  <2>2. ASSUME NEW q \in Names, paths'[q] # None
        PROVE  \E layout \in LayoutType :
                 /\ pending'[q] = Content(files'[paths'[q]].from, files'[paths'[q]].text, layout)
                 /\ ~Rendered' => layout = files'[paths'[q]].layout
                 /\ files'[paths'[q]].layout # layout => Reformats(files'[paths'[q]], layout)
    <3>1. CASE q = p
      BY <1>1, <1>3, <1>5, <1>7, <1>8, <2>1, <3>1 DEF WorkspaceInv, PendingInv, Rendered
    <3>2. CASE q # p
      <4>1. q # old /\ paths'[q] = paths[q] /\ pending'[q] = pending[q]
        BY <1>8, <2>1, <2>2, <3>2
      <4>2. paths[q] # active /\ paths[q] \in DOMAIN files
        BY <1>3, <1>4, <2>2, <4>1 DEF WorkspaceInv, FilesInv, None
      <4> QED
        BY <1>1, <1>7, <2>2, <4>1, <4>2 DEF WorkspaceInv, PendingInv, Rendered
    <3> QED
      BY <3>1, <3>2
  <2>3. ASSUME NEW q \in Names, paths'[q] = None
        PROVE  pending'[q] = IF q \in blocked' THEN Absent ELSE disk'[q]
    <3>1. q # p
      BY <1>1, <1>8, <2>3
    <3>2. CASE q = old
      BY <1>9, <2>1, <3>2
    <3>3. CASE q # old
      <4>1. paths[q] = None /\ pending'[q] = pending[q] /\ (q \in blocked' <=> q \in blocked) /\ disk' = disk
        BY <1>1, <1>8, <1>9, <2>1, <2>3, <3>1, <3>3
      <4> QED
        BY <4>1 DEF WorkspaceInv, PendingInv
    <3> QED
      BY <3>2, <3>3
  <2> QED
    BY <2>1, <2>2, <2>3 DEF PendingInv, Reformats, Content
<1> QED
  BY <1>1, <1>14, <1>15, <1>16 DEF WorkspaceInv, DiskInv, ChangesInv, Rendered

LEMMA RemoveStep ==
  ASSUME WorkspaceInv, removeFile
  PROVE  WorkspaceInv'
<1> DEFINE f == files[active]
           g == [f EXCEPT !.deleted = TRUE]
<1>1. /\ phase = "evaluate" /\ phase' = "evaluate" /\ UNCHANGED disk
      /\ active # None /\ initializable' = None /\ active' = None
      /\ paths' = [paths EXCEPT ![f.path] = None]
      /\ blocked' = blocked \cup ({f.path, f.from} \cap Names) /\ reserved' = reserved \cup {f.path}
      /\ files' = [files EXCEPT ![active].deleted = TRUE]
      /\ pending' = [pending EXCEPT ![f.path] = Absent]
  BY DEF removeFile, Step, Goes, Forgets, Vacates
<1>2. /\ active \in DOMAIN files /\ DOMAIN files = 1..Len(files) /\ Len(files) \in Nat
      /\ f \in FileType /\ f.path \in Names /\ Live(f) /\ paths[f.path] = active /\ f.path \notin blocked
      /\ FileInv(active)
  BY <1>1, ActiveFile
<1>3. /\ files \in Seq(FileType) /\ paths \in [Names -> 0..Len(files)]
      /\ blocked \in SUBSET Names /\ reserved = blocked /\ New \notin Names
  BY WorkspaceAssumption DEF WorkspaceInv, FilesInv
<1>4. g \in FileType /\ g.path = f.path /\ ~Live(g) /\ g.created = f.created /\ g.from = f.from
      /\ g.layout = f.layout /\ g.indents = f.indents
  BY <1>2 DEF FileType, Live
<1>5. files' = [files EXCEPT ![active] = g]
  BY <1>1, <1>2, <1>3 DEF FileType
<1> HIDE DEF g
<1>6. /\ files' \in Seq(FileType) /\ Len(files') = Len(files) /\ DOMAIN files' = DOMAIN files
      /\ files'[active] = g /\ \A i \in DOMAIN files : i # active => files'[i] = files[i]
  BY <1>2, <1>3, <1>4, <1>5
<1>7. /\ paths' \in [Names -> 0..Len(files)] /\ paths'[f.path] = None
      /\ \A q \in Names \ {f.path} : paths'[q] = paths[q]
  BY <1>1, <1>2, <1>3 DEF None
<1>8. blocked' = blocked \cup {f.path} /\ reserved' = blocked' /\ blocked' \in SUBSET Names
      /\ (~f.created => f.from \in blocked')
  BY <1>1, <1>2, <1>3 DEF FileInv, InPlace, FileType
<1>9. ASSUME NEW i \in DOMAIN files' PROVE FileInv(i)'
  <2>1. CASE i = active
    BY <1>1, <1>2, <1>4, <1>6, <1>8, <2>1 DEF FileInv, InPlace
  <2>2. CASE i # active
    <3>1. files'[i] = files[i] /\ FileInv(i) /\ files[i] \in FileType
      BY <1>3, <1>6, <2>2 DEF WorkspaceInv, FilesInv
    <3>2. files[i].path \in Names
      BY <3>1 DEF FileType
    <3>3. Live(files[i]) => files[i].path # f.path
      BY <1>2, <2>2, <3>1 DEF FileInv
    <3> QED
      BY <1>1, <1>7, <1>8, <3>1, <3>2, <3>3 DEF FileInv, InPlace
  <2> QED
    BY <2>1, <2>2
<1>10. ASSUME NEW q \in Names, paths'[q] # None
       PROVE  /\ q # f.path /\ paths'[q] = paths[q] /\ paths[q] # active /\ paths[q] \in DOMAIN files
              /\ files'[paths'[q]].path = q /\ Live(files'[paths'[q]]) /\ q \notin blocked'
  <2>1. q # f.path /\ paths'[q] = paths[q]
    BY <1>7, <1>10
  <2>2. paths[q] # None /\ files[paths[q]].path = q /\ Live(files[paths[q]]) /\ q \notin blocked
    BY <1>10, <2>1 DEF WorkspaceInv, FilesInv
  <2>3. paths[q] # active /\ paths[q] \in DOMAIN files
    BY <1>2, <1>3, <2>1, <2>2 DEF None
  <2> QED
    BY <1>6, <1>8, <2>1, <2>2, <2>3
<1>11. ASSUME NEW i \in DOMAIN files', NEW j \in DOMAIN files',
              ~files'[i].created, ~files'[j].created, files'[i].from = files'[j].from
       PROVE  i = j
  <2>1. ~files[i].created /\ ~files[j].created /\ files[i].from = files[j].from
    BY <1>4, <1>6, <1>11
  <2> QED
    BY <1>6, <2>1 DEF WorkspaceInv, FilesInv
<1>12. ASSUME NEW q \in blocked', disk'[q] # Absent
       PROVE  \E i \in DOMAIN files' : ~files'[i].created /\ files'[i].from = q /\ ~InPlace(files'[i])
  <2>1. CASE q \in blocked
    <3>1. PICK i \in DOMAIN files : ~files[i].created /\ files[i].from = q /\ ~InPlace(files[i])
      BY <1>1, <1>12, <2>1 DEF WorkspaceInv, FilesInv
    <3>2. CASE i = active
      BY <1>4, <1>6, <3>1, <3>2 DEF InPlace
    <3>3. CASE i # active
      BY <1>6, <3>1, <3>3
    <3> QED
      BY <3>2, <3>3
  <2>2. CASE q = f.path
    <3>1. ~f.created /\ f.from = f.path
      BY <1>1, <1>2, <1>12, <2>2 DEF FileInv
    <3> QED
      BY <1>2, <1>4, <1>6, <2>2, <3>1 DEF InPlace
  <2> QED
    BY <1>8, <2>1, <2>2
<1>13. FilesInv'
  <2>1. files' \in Seq(FileType) /\ paths' \in [Names -> 0..Len(files')]
        /\ blocked' \in SUBSET Names /\ reserved' = blocked' /\ active' \in 0..Len(files')
        /\ initializable' = None /\ active' = None
    BY <1>1, <1>2, <1>6, <1>7, <1>8 DEF None
  <2> QED
    BY <1>9, <1>10, <1>11, <1>12, <2>1 DEF FilesInv
<1>14. LayoutInv'
  <2> SUFFICES ASSUME NEW i \in DOMAIN files'
               PROVE  /\ files'[i].indents # {} => files'[i].layout.spacing
                      /\ files'[i].created => ~files'[i].layout.spacing
    BY DEF LayoutInv
  <2>1. (files[i].indents # {} => files[i].layout.spacing) /\ (files[i].created => ~files[i].layout.spacing)
    BY <1>1, <1>6 DEF WorkspaceInv, LayoutInv, Rendered
  <2> QED
    BY <1>4, <1>6, <2>1
<1>15. PendingInv'
  <2>1. /\ pending' \in [Names -> FileContents \cup {Absent}] /\ pending'[f.path] = Absent
        /\ \A q \in Names \ {f.path} : pending'[q] = pending[q]
    BY <1>1, <1>2 DEF WorkspaceInv, PendingInv
  <2>2. ASSUME NEW q \in Names, paths'[q] # None
        PROVE  \E layout \in LayoutType :
                 /\ pending'[q] = Content(files'[paths'[q]].from, files'[paths'[q]].text, layout)
                 /\ ~Rendered' => layout = files'[paths'[q]].layout
                 /\ files'[paths'[q]].layout # layout => Reformats(files'[paths'[q]], layout)
    BY <1>1, <1>6, <1>10, <2>1, <2>2 DEF WorkspaceInv, PendingInv, Rendered
  <2>3. ASSUME NEW q \in Names, paths'[q] = None
        PROVE  pending'[q] = IF q \in blocked' THEN Absent ELSE disk'[q]
    <3>1. CASE q = f.path
      BY <1>8, <2>1, <3>1
    <3>2. CASE q # f.path
      <4>1. paths[q] = None /\ pending'[q] = pending[q] /\ (q \in blocked' <=> q \in blocked) /\ disk' = disk
        BY <1>1, <1>7, <1>8, <2>1, <2>3, <3>2
      <4> QED
        BY <4>1 DEF WorkspaceInv, PendingInv
    <3> QED
      BY <3>1, <3>2
  <2> QED
    BY <2>1, <2>2, <2>3 DEF PendingInv, Reformats, Content
<1> QED
  BY <1>1, <1>13, <1>14, <1>15 DEF WorkspaceInv, DiskInv, ChangesInv, Rendered

\* The active file is edited in place.
LEMMA EditStep ==
  ASSUME WorkspaceInv, phase # "effect", phase' # "effect", active # None, NEW g \in FileType,
         g.path = files[active].path, g.from = files[active].from, Live(g),
         g.created = files[active].created, g.indents # {} => g.layout.spacing, g.created => ~g.layout.spacing,
         files' = [files EXCEPT ![active] = g],
         pending' = [pending EXCEPT ![g.path] = Content(g.from, g.text, g.layout)],
         initializable' = None, UNCHANGED <<disk, paths, blocked, reserved, active>>
  PROVE  WorkspaceInv'
<1> DEFINE f == files[active]
<1>2. /\ active \in DOMAIN files /\ DOMAIN files = 1..Len(files) /\ Len(files) \in Nat
      /\ f \in FileType /\ f.path \in Names /\ Live(f) /\ paths[f.path] = active /\ FileInv(active)
  BY ActiveFile
<1>3. files \in Seq(FileType) /\ paths \in [Names -> 0..Len(files)]
  BY DEF WorkspaceInv, FilesInv
<1>6. /\ files' \in Seq(FileType) /\ Len(files') = Len(files) /\ DOMAIN files' = DOMAIN files
      /\ files'[active] = g /\ \A i \in DOMAIN files : i # active => files'[i] = files[i]
  BY <1>2, <1>3
<1>9. ASSUME NEW i \in DOMAIN files'
      PROVE  /\ FileInv(i)' /\ files'[i].created = files[i].created /\ files'[i].from = files[i].from
             /\ files'[i].path = files[i].path /\ Live(files'[i]) = Live(files[i])
  <2>1. files'[i].created = files[i].created /\ files'[i].from = files[i].from
        /\ files'[i].path = files[i].path /\ Live(files'[i]) = Live(files[i])
    BY <1>2, <1>6 DEF Live
  <2>2. FileInv(i)
    BY <1>6 DEF WorkspaceInv, FilesInv
  <2> QED
    BY <2>1, <2>2 DEF FileInv, InPlace
<1>13. FilesInv'
  BY <1>2, <1>3, <1>6, <1>9 DEF WorkspaceInv, FilesInv, InPlace, None
<1>14. LayoutInv'
  BY <1>6 DEF WorkspaceInv, LayoutInv, Rendered
<1>15. PendingInv'
  <2>1. Content(g.from, g.text, g.layout) \in FileContents
    BY DEF Content, FileContents, FileType
  <2>2. /\ pending' \in [Names -> FileContents \cup {Absent}] /\ pending'[f.path] = Content(g.from, g.text, g.layout)
        /\ \A q \in Names \ {f.path} : pending'[q] = pending[q]
    BY <1>2, <2>1 DEF WorkspaceInv, PendingInv
  <2>3. ASSUME NEW q \in Names, paths'[q] # None
        PROVE  \E layout \in LayoutType :
                 /\ pending'[q] = Content(files'[paths'[q]].from, files'[paths'[q]].text, layout)
                 /\ ~Rendered' => layout = files'[paths'[q]].layout
                 /\ files'[paths'[q]].layout # layout => Reformats(files'[paths'[q]], layout)
    <3>1. CASE q = f.path
      BY <1>2, <1>6, <2>2, <3>1 DEF FileType
    <3>2. CASE q # f.path
      <4>1. paths[q] # active /\ paths[q] \in DOMAIN files
        BY <1>2, <1>3, <2>3, <3>2 DEF WorkspaceInv, FilesInv, None
      <4> QED
        BY <1>6, <2>2, <2>3, <3>2, <4>1 DEF WorkspaceInv, PendingInv, Rendered
    <3> QED
      BY <3>1, <3>2
  <2>4. ASSUME NEW q \in Names, paths'[q] = None
        PROVE  pending'[q] = IF q \in blocked' THEN Absent ELSE disk'[q]
    <3>1. q # f.path
      BY <1>2, <2>4
    <3> QED
      BY <2>2, <2>4, <3>1 DEF WorkspaceInv, PendingInv
  <2> QED
    BY <2>2, <2>3, <2>4 DEF PendingInv, Reformats, Content
<1> QED
  BY <1>13, <1>14, <1>15 DEF WorkspaceInv, DiskInv, ChangesInv, Rendered

\* A command that records nothing.
LEMMA NoEditStep ==
  ASSUME WorkspaceInv, phase # "effect", phase' # "effect", initializable' = None,
         UNCHANGED <<disk, files, paths, blocked, reserved, active, pending>>
  PROVE  WorkspaceInv'
<1>1. FilesInv'
  BY DEF WorkspaceInv, FilesInv, FileInv
<1> QED
  BY <1>1 DEF WorkspaceInv, DiskInv, LayoutInv, PendingInv, ChangesInv, Rendered

LEMMA InitializeStep ==
  ASSUME WorkspaceInv, count \in Nat, NEW empty \in BOOLEAN, NEW ends \in Endings, initialize(empty, ends)
  PROVE  WorkspaceInv'
<1>1. /\ phase = "evaluate" /\ phase' = "evaluate" /\ active # None /\ initializable' = None
      /\ UNCHANGED <<disk, paths, blocked, reserved, active>> /\ files[active].created /\ count' \in Nat
  BY DEF initialize, Step, Goes
<1>2. CASE empty
  BY <1>1, <1>2, NoEditStep DEF initialize
<1>3. CASE ~empty
  <2> DEFINE f == files[active]
             g == [f EXCEPT !.edits = {count'}, !.text = {count'}, !.layout = Layout(FALSE, ends)]
  <2>1. /\ files' = [files EXCEPT ![active].edits = {count'}, ![active].text = {count'},
                                  ![active].layout = Layout(FALSE, ends)]
        /\ pending' = [pending EXCEPT ![f.path] = Content(New, {count'}, Layout(FALSE, ends))]
    BY <1>3 DEF initialize
  <2>2. active \in DOMAIN files /\ f \in FileType /\ Live(f) /\ FileInv(active) /\ files \in Seq(FileType)
    BY <1>1, ActiveFile DEF WorkspaceInv, FilesInv
  <2>3. f.from = New /\ f.indents = {}
    BY <1>1, <2>2 DEF FileInv, WorkspaceInv, FilesInv, LayoutInv, Rendered
  <2>4. g \in FileType /\ g.path = f.path /\ g.from = f.from /\ Live(g) /\ g.created = f.created
        /\ g.text = {count'} /\ g.layout = Layout(FALSE, ends) /\ g.indents = {}
    BY <1>1, <2>2, <2>3 DEF FileType, Live, LayoutType, Layout
  <2>5. files' = [files EXCEPT ![active] = g]
    BY <2>1, <2>2 DEF FileType
  <2> HIDE DEF g
  <2>6. pending' = [pending EXCEPT ![g.path] = Content(g.from, g.text, g.layout)]
    BY <2>1, <2>3, <2>4
  <2>7. g.layout.spacing = FALSE
    BY <2>4 DEF Layout
  <2> QED
    BY <1>1, <2>4, <2>5, <2>6, <2>7, EditStep
<1> QED
  BY <1>2, <1>3

LEMMA MutationStep ==
  ASSUME WorkspaceInv, count \in Nat, NEW effect \in Effects, NEW ends \in Endings, NEW indents \in BOOLEAN,
         applyMutation(effect, ends, indents)
  PROVE  WorkspaceInv'
<1>1. /\ phase = "evaluate" /\ phase' = "evaluate" /\ active # None /\ initializable' = None
      /\ UNCHANGED <<disk, paths, blocked, reserved, active>> /\ ~files[active].created /\ count' \in Nat
      /\ indents => effect = "spacing"
  BY DEF applyMutation, Step, Goes, Forgets
<1>2. CASE effect = "none"
  BY <1>1, <1>2, NoEditStep DEF applyMutation
<1>3. CASE effect # "none"
  <2> DEFINE f == files[active]
             text == IF effect = "text" THEN f.text \cup {count'} ELSE f.text
             layout == Layout(f.layout.spacing \/ effect = "spacing", ends)
             g == [f EXCEPT !.edits = @ \cup {count'}, !.text = text,
                            !.layout = layout, !.indents = @ \cup (IF indents THEN {count'} ELSE {})]
  <2>1. /\ files' = [files EXCEPT ![active] = g]
        /\ pending' = [pending EXCEPT ![f.path] = Content(f.from, text, layout)]
    BY <1>3 DEF applyMutation
  <2>2. active \in DOMAIN files /\ f \in FileType /\ Live(f)
    BY <1>1, ActiveFile
  <2>3. f.indents # {} => f.layout.spacing
    BY <1>1, <2>2 DEF WorkspaceInv, LayoutInv, Rendered
  <2>4. text \in SUBSET Nat /\ layout \in LayoutType
    BY <1>1, <2>2 DEF FileType, LayoutType, Layout
  <2>5. layout.spacing = (f.layout.spacing \/ effect = "spacing")
    BY DEF Layout
  <2> HIDE DEF text, layout
  <2>6. g \in FileType /\ g.path = f.path /\ g.from = f.from /\ Live(g) /\ g.created = f.created
        /\ g.text = text /\ g.layout = layout /\ g.indents = f.indents \cup (IF indents THEN {count'} ELSE {})
    BY <1>1, <2>2, <2>4 DEF FileType, Live
  <2> HIDE DEF g
  <2>7. (g.indents # {} => g.layout.spacing) /\ (g.created => ~g.layout.spacing)
    BY <1>1, <2>3, <2>5, <2>6
  <2>8. pending' = [pending EXCEPT ![g.path] = Content(g.from, g.text, g.layout)]
    BY <2>1, <2>6
  <2> QED
    BY <1>1, <2>1, <2>6, <2>7, <2>8, EditStep
<1> QED
  BY <1>2, <1>3

LEMMA FailureStep ==
  ASSUME WorkspaceInv, baselineFailure
  PROVE  WorkspaceInv'
<1>1. phase = "evaluate" /\ disk' = disk
  BY DEF baselineFailure, Step
<1>2. CASE Stop
  BY <1>1, <1>2, RejectedStep DEF Stop
<1>3. CASE ~Stop
  BY <1>1, <1>3, NoEditStep DEF baselineFailure, Forgets
<1> QED
  BY <1>2, <1>3

\* Rendering gives the files their final layout.
LEMMA RenderStep ==
  ASSUME WorkspaceInv, renderFinal
  PROVE  WorkspaceInv'
<1>1. phase = "render" /\ disk' = disk
  BY DEF renderFinal
<1>2. CASE \E blamed \in renderFailures : Rejected("rejected", blamed)
  BY <1>1, <1>2, RejectedStep
<1>3. CASE ~\E blamed \in renderFailures : Rejected("rejected", blamed)
  <2>1. PICK layout \in [DOMAIN files -> LayoutType] :
          /\ \A i \in DOMAIN files : layout[i] \in Layouts(files[i])
          /\ files' = [i \in DOMAIN files |-> [files[i] EXCEPT !.layout = layout[i]]]
    BY <1>3 DEF renderFinal
  <2>2. /\ changes' = changesOf(files') /\ phase' = "effect"
        /\ UNCHANGED <<paths, blocked, reserved, active, initializable, pending>>
    BY <1>3 DEF renderFinal
  <2>3. /\ files \in Seq(FileType) /\ DOMAIN files = 1..Len(files) /\ Len(files) \in Nat
        /\ paths \in [Names -> 0..Len(files)]
    BY DEF WorkspaceInv, FilesInv
  <2>4. ASSUME NEW i \in DOMAIN files
        PROVE  /\ files'[i] \in FileType /\ files'[i].layout = layout[i]
               /\ files'[i].created = files[i].created /\ files'[i].from = files[i].from
               /\ files'[i].path = files[i].path /\ Live(files'[i]) = Live(files[i])
               /\ files'[i].edits = files[i].edits /\ files'[i].text = files[i].text
               /\ files'[i].indents = files[i].indents
    <3>1. files[i] \in FileType /\ files'[i] = [files[i] EXCEPT !.layout = layout[i]] /\ layout[i] \in LayoutType
      BY <2>1, <2>3
    <3> QED
      BY <3>1 DEF FileType, Live
  <2>5. files' \in Seq(FileType) /\ Len(files') = Len(files) /\ DOMAIN files' = DOMAIN files
    <3>1. files' \in [1..Len(files) -> FileType]
      BY <2>1, <2>3, <2>4
    <3> QED
      BY <2>3, <3>1
  <2>6. ASSUME NEW i \in DOMAIN files' PROVE FileInv(i)'
    <3>1. FileInv(i)
      BY <2>5 DEF WorkspaceInv, FilesInv
    <3> QED
      BY <1>1, <2>2, <2>4, <2>5, <3>1 DEF FileInv, InPlace
  <2>7. FilesInv'
    <3>1. files' \in Seq(FileType) /\ paths' \in [Names -> 0..Len(files')]
          /\ blocked' \in SUBSET Names /\ reserved' = blocked'
          /\ active' \in 0..Len(files') /\ initializable' \in {None, active'}
      BY <2>2, <2>3, <2>5 DEF WorkspaceInv, FilesInv
    <3>2. active' # None => active \in DOMAIN files /\ Live(files'[active'])
      BY <2>2, <2>3, <2>4 DEF WorkspaceInv, FilesInv, None
    <3>3. initializable' # None =>
            files'[active'].created /\ files'[active'].edits = {} /\ files'[active'].text = {}
      BY <2>2, <2>3, <2>4, <3>1, <3>2 DEF WorkspaceInv, FilesInv
    <3>4. ASSUME NEW p \in Names, paths'[p] # None
          PROVE  files'[paths'[p]].path = p /\ Live(files'[paths'[p]]) /\ p \notin blocked'
      BY <2>2, <2>3, <2>4, <3>4 DEF WorkspaceInv, FilesInv, None
    <3>5. ASSUME NEW i \in DOMAIN files', NEW j \in DOMAIN files',
                 ~files'[i].created, ~files'[j].created, files'[i].from = files'[j].from
          PROVE  i = j
      BY <2>4, <2>5, <3>5 DEF WorkspaceInv, FilesInv
    <3>6. ASSUME NEW p \in blocked', disk'[p] # Absent
          PROVE  \E i \in DOMAIN files' : ~files'[i].created /\ files'[i].from = p /\ ~InPlace(files'[i])
      BY <1>1, <2>2, <2>4, <2>5, <3>6 DEF WorkspaceInv, FilesInv, InPlace
    <3> QED
      BY <2>6, <3>1, <3>2, <3>3, <3>4, <3>5, <3>6 DEF FilesInv
  <2>8. ASSUME NEW p \in Names, paths[p] # None
        PROVE  \E l \in LayoutType :
                 /\ pending[p] = Content(files'[paths[p]].from, files'[paths[p]].text, l)
                 /\ files'[paths[p]].layout # l => Reformats(files'[paths[p]], l)
    <3> DEFINE i == paths[p]
    <3>1. i \in DOMAIN files /\ Live(files[i]) /\ files[i] \in FileType
      BY <2>3, <2>8 DEF WorkspaceInv, FilesInv, None
    <3>2. pending[p] = Content(files[i].from, files[i].text, files[i].layout) /\ files[i].layout \in LayoutType
      BY <1>1, <2>8, <3>1 DEF WorkspaceInv, PendingInv, Rendered, FileType
    <3>3. files[i].indents # {} => files[i].layout # Fresh(files[i].from)
      <4>1. files[i].indents # {} => files[i].layout.spacing
        BY <1>1, <3>1 DEF WorkspaceInv, LayoutInv, Rendered
      <4>2. Fresh(files[i].from).spacing = FALSE
        BY <3>1, FreshType DEF FileType
      <4> QED
        BY <4>1, <4>2
    <3>4. layout[i] \in Layouts(files[i])
      BY <2>1, <3>1
    <3>5. layout[i] # files[i].layout =>
            /\ \/ files[i].created \/ files[i].text # {} \/ files[i].layout # Fresh(files[i].from)
               \/ files[i].path \in GoPaths /\ files[i].from \notin GoPaths
            /\ files[i].path \notin GoPaths => layout[i].ends = files[i].layout.ends
      BY <3>1, <3>3, <3>4 DEF Layouts, Formats
    <3>6. layout[i] # files[i].layout => Reformats(files'[i], files[i].layout)
      BY <2>4, <3>1, <3>5 DEF Reformats
    <3> QED
      BY <2>4, <3>1, <3>2, <3>6
  <2>9. PendingInv'
    BY <1>1, <2>2, <2>8 DEF WorkspaceInv, PendingInv, Rendered
  <2> QED
    BY <1>1, <2>2, <2>7, <2>9 DEF WorkspaceInv, DiskInv, LayoutInv, ChangesInv, Rendered
<1> QED
  BY <1>2, <1>3

\* The host's effect leaves an empty workspace.
LEMMA EffectStep ==
  ASSUME WorkspaceInv, applyEffect \/ translateEffect
  PROVE  WorkspaceInv'
<1>1. Discards /\ pending' = disk /\ disk' = disk /\ phase' = "finish"
  BY DEF applyEffect, translateEffect
<1>2. DiskInv'
  BY <1>1 DEF WorkspaceInv, DiskInv
<1> QED
  BY <1>1, <1>2, EmptyWorkspace DEF Discards

LEMMA WorkspaceInit ==
  ASSUME Init
  PROVE  WorkspaceInv
<1>0. /\ files = << >> /\ paths = [p \in Names |-> None] /\ blocked = {} /\ reserved = {}
      /\ active = None /\ initializable = None /\ phase = "open" /\ pending = disk
  BY DEF Init
<1>1. PICK present \in SUBSET Names : disk = [p \in Names |-> IF p \in present THEN OnDisk(p) ELSE Absent]
  BY DEF Init
<1>2. \A p \in Names : OnDisk(p) \in FileContents
  BY FreshType DEF OnDisk, Content, FileContents
<1>3. DiskInv
  BY <1>1, <1>2 DEF DiskInv
<1>4. FilesInv
  BY <1>0 DEF FilesInv, FileInv, None
<1>5. PendingInv
  BY <1>0, <1>3 DEF PendingInv, DiskInv, None
<1> QED
  BY <1>0, <1>3, <1>4, <1>5 DEF WorkspaceInv, LayoutInv, ChangesInv, Rendered

LEMMA WorkspaceStep ==
  ASSUME WorkspaceInv, count \in Nat, [Next]_vars
  PROVE  WorkspaceInv' /\ count' \in Nat
<1>1. CASE evaluateScript
  <2>1. count' = count /\ disk' = disk /\ phase = "open"
    BY <1>1 DEF evaluateScript
  <2>2. CASE phase' = "evaluate" /\ UNCHANGED wsVars /\ pending' = pending
    BY <2>1, <2>2, SameWorkspace DEF wsVars
  <2>3. CASE \E why \in {"ctx", "invalid", "rejected"}, commands \in {{}, {1}} : Rejected(why, commands)
    BY <2>1, <2>3, RejectedStep
  <2> QED
    BY <1>1, <2>1, <2>2, <2>3 DEF evaluateScript
<1>2. CASE \E p \in Names, spelling \in Spellings :
             selectFile(p, spelling) \/ newFile(p, spelling) \/ moveFile(p, spelling)
  <2>1. PICK p \in Names, spelling \in Spellings :
          selectFile(p, spelling) \/ newFile(p, spelling) \/ moveFile(p, spelling)
    BY <1>2
  <2>2. Step
    BY <2>1 DEF selectFile, newFile, moveFile
  <2>3. count' \in Nat
    BY <2>2 DEF Step
  <2> QED
    BY <2>1, <2>3, SelectStep, NewStep, MoveStep
<1>3. CASE \E spelling \in Spellings : refusesPath(spelling)
  BY <1>3, RejectedStep DEF refusesPath, Step, Stop
<1>4. CASE removeFile
  BY <1>4, RemoveStep DEF removeFile, Step
<1>5. CASE \E empty \in BOOLEAN, ends \in Endings : initialize(empty, ends)
  <2>1. PICK empty \in BOOLEAN, ends \in Endings : initialize(empty, ends)
    BY <1>5
  <2>2. Step
    BY <2>1 DEF initialize
  <2>3. count' \in Nat
    BY <2>2 DEF Step
  <2> QED
    BY <2>1, <2>3, InitializeStep
<1>6. CASE \E effect \in Effects, ends \in Endings, indents \in BOOLEAN : applyMutation(effect, ends, indents)
  <2>1. PICK effect \in Effects, ends \in Endings, indents \in BOOLEAN : applyMutation(effect, ends, indents)
    BY <1>6
  <2>2. Step
    BY <2>1 DEF applyMutation
  <2>3. count' \in Nat
    BY <2>2 DEF Step
  <2> QED
    BY <2>1, <2>3, MutationStep
<1>7. CASE baselineFailure
  BY <1>7, FailureStep DEF baselineFailure, Step
<1>8. CASE commandFails
  BY <1>8, RejectedStep DEF commandFails, Step, Stop
<1>9. CASE stopsEarly
  BY <1>9, RejectedStep DEF stopsEarly
<1>10. CASE evaluated
  <2>1. count' = count /\ disk' = disk /\ phase = "evaluate"
    BY <1>10 DEF evaluated
  <2>2. CASE Doomed
    <3>1. Rejected("rejected", IF failures # {} THEN failures ELSE EarliestIndentation)
      BY <1>10, <2>2 DEF evaluated
    <3> QED
      BY <2>1, <3>1, RejectedStep
  <2>3. CASE ~Doomed
    BY <1>10, <2>1, <2>3, SameWorkspace DEF evaluated, wsVars
  <2> QED
    BY <2>2, <2>3
<1>11. CASE renderFinal
  BY <1>11, RenderStep DEF renderFinal
<1>12. CASE applyEffect \/ translateEffect
  BY <1>12, EffectStep DEF applyEffect, translateEffect
<1>13. CASE finishHostChange
  BY <1>13, SameWorkspace DEF finishHostChange, wsVars
<1>14. CASE evaluationDiagnostic \/ runOutcomeHooks \/ runRenderedHook \/ answers
  <2>1. HookStep /\ phase \in {"diagnose", "outcome", "errorHooks", "outcomeHooks", "answer"} /\ phase' # "effect"
    BY <1>14 DEF evaluationDiagnostic, runOutcomeHooks, runRenderedHook, answers, Starts
  <2> QED
    BY <2>1, SameWorkspace DEF HookStep, wsVars
<1>15. CASE cancel \/ UNCHANGED vars
  <2>1. UNCHANGED <<disk, wsVars, count, phase, hostVars, pending>>
    BY <1>15 DEF cancel, vars
  <2>2. UNCHANGED <<disk, files, paths, blocked, reserved, active, initializable, pending>>
        /\ UNCHANGED <<count, phase, changes>>
    BY <2>1 DEF wsVars, hostVars
  <2> QED
    BY <2>2, SameWorkspace
<1> QED
  BY <1>1, <1>2, <1>3, <1>4, <1>5, <1>6, <1>7, <1>8, <1>9, <1>10, <1>11, <1>12, <1>13, <1>14, <1>15 DEF Next

LEMMA WorkspaceAlways == Spec => [](WorkspaceInv /\ count \in Nat)
<1>1. Init => WorkspaceInv /\ count \in Nat
  <2>1. Init => count = 0
    BY DEF Init
  <2> QED
    BY <2>1, WorkspaceInit
<1>2. WorkspaceInv /\ count \in Nat /\ [Next]_vars => (WorkspaceInv /\ count \in Nat)'
  BY WorkspaceStep
<1> QED
  BY <1>1, <1>2, PTL DEF Spec

\* A lookup in the pending workspace finds at every name what the commands, one
\* after the other, would have left there (workspace.go:251-341).
THEOREM LookupIsSequential == Spec => []PendingAgrees
<1>1. WorkspaceInv => PendingAgrees
  BY DEF WorkspaceInv, PendingInv, PendingAgrees, Rendered
<1> QED
  BY <1>1, WorkspaceAlways, PTL

-----------------------------------------------------------------------------
(* Loops: the value after every round of a recursive function.             *)

\* A nonempty set of natural numbers has a least member.
LEMMA Least ==
  ASSUME NEW T, T \subseteq Nat, T # {}
  PROVE  \E n \in T : \A m \in T : n <= m
<1> DEFINE R == OpToRel(<, Nat)
<1>1. IsWellFoundedOn(R, Nat)
  BY NatLessThanWellFounded
<1> HIDE DEF R
<1>2. PICK n \in T : \A m \in T : ~ (<<m, n>> \in R)
  BY <1>1, WFMin
<1>3. \A m \in T : ~ (m < n)
  BY <1>2 DEF R, OpToRel
<1> QED
  BY <1>3

\* What holds before the first round and survives every round holds to the end.
LEMMA Climb ==
  ASSUME NEW G, NEW l \in Nat, 0 \in G, \A k \in 1..l : k - 1 \in G => k \in G
  PROVE  \A k \in 0..l : k \in G
<1> DEFINE Bad == (0..l) \ G
<1>1. SUFFICES ASSUME Bad # {} PROVE FALSE
  OBVIOUS
<1>2. Bad \subseteq Nat
  OBVIOUS
<1> HIDE DEF Bad
<1>3. PICK k \in Bad : \A m \in Bad : k <= m
  BY <1>1, <1>2, Least
<1>4. k \in 1..l /\ k - 1 \in 0..l /\ ~(k <= k - 1)
  BY <1>3 DEF Bad
<1>5. k - 1 \in G
  BY <1>3, <1>4 DEF Bad
<1> QED
  BY <1>3, <1>4, <1>5 DEF Bad

\* Every loop has a run.
LEMMA LoopExists ==
  ASSUME NEW V, NEW v \in V, NEW l \in Nat, NEW step \in [1..l -> [V -> V]]
  PROVE  \E f \in [0..l -> V] : f[0] = v /\ \A k \in 1..l : f[k] = step[k][f[k - 1]]
<1> DEFINE Run(m, f) == f[0] = v /\ \A k \in 1..m : f[k] = step[k][f[k - 1]]
           G == {m \in 0..l : \E f \in [0..m -> V] : Run(m, f)}
<1>1. 0 \in G
  <2> DEFINE f == [k \in 0..0 |-> v]
  <2>1. f \in [0..0 -> V] /\ Run(0, f)
    OBVIOUS
  <2>2. 0 \in 0..l
    OBVIOUS
  <2> HIDE DEF f, Run
  <2> QED
    BY <2>1, <2>2
<1>2. ASSUME NEW m \in 1..l, m - 1 \in G PROVE m \in G
  <2>1. PICK f \in [0..m - 1 -> V] : Run(m - 1, f)
    BY <1>2
  <2> DEFINE g == [k \in 0..m |-> IF k = m THEN step[m][f[m - 1]] ELSE f[k]]
  <2>2. f[m - 1] \in V /\ step[m] \in [V -> V]
    OBVIOUS
  <2>3. g \in [0..m -> V] /\ g[0] = v /\ g[m] = step[m][f[m - 1]] /\ \A k \in 0..m - 1 : g[k] = f[k]
    BY <2>1, <2>2
  <2> HIDE DEF g
  <2>4. ASSUME NEW k \in 1..m PROVE g[k] = step[k][g[k - 1]]
    <3>1. CASE k = m
      BY <2>3, <3>1
    <3>2. CASE k # m
      BY <2>1, <2>3, <3>2
    <3> QED
      BY <3>1, <3>2
  <2>5. Run(m, g) /\ m \in 0..l
    BY <2>3, <2>4
  <2> HIDE DEF Run
  <2> QED
    BY <2>3, <2>5
<1> HIDE DEF G, Run
<1>3. \A m \in 0..l : m \in G
  BY <1>1, <1>2, Climb
<1>4. l \in G
  BY <1>3
<1> QED
  BY <1>4 DEF G, Run

-----------------------------------------------------------------------------
(* The changes, one for each file that needs one.                          *)

ChangeType == [kind : ChangeKinds, from : Names, to : Names, content : FileContents]

\* A file gives one change or none.
LEMMA ChangeIs ==
  ASSUME WorkspaceInv, NEW i \in DOMAIN files
  PROVE  LET f == files[i] IN
         /\ f \in FileType /\ ChangeOf(f) \in Seq(ChangeType)
         /\ \/ ChangeOf(f) = << >>
            \/ \E c \in ChangeType :
                 /\ ChangeOf(f) = <<c>>
                 /\ \/ /\ c.kind = "add" /\ f.created /\ Live(f) /\ c.from = f.path /\ c.to = f.path
                       /\ c.content = Content(f.from, f.text, f.layout)
                    \/ c.kind = "delete" /\ ~f.created /\ ~Live(f) /\ c.from = f.from /\ c.to = f.from
                    \/ /\ c.kind = "update" /\ ~f.created /\ Live(f) /\ c.from = f.from /\ c.to = f.path
                       /\ c.content = Content(f.from, f.text, f.layout)
                       /\ f.from # f.path \/ c.content # OnDisk(f.from)
         /\ ChangeOf(f) = << >> =>
              \/ f.created /\ ~Live(f)
              \/ ~f.created /\ Live(f) /\ f.from = f.path /\ Content(f.from, f.text, f.layout) = OnDisk(f.from)
<1> DEFINE f == files[i]
           content == Content(f.from, f.text, f.layout)
<1>1. f \in FileType /\ FileInv(i) /\ New \notin Names
  BY WorkspaceAssumption DEF WorkspaceInv, FilesInv
<1>2. /\ f.path \in Names /\ f.created \in BOOLEAN /\ f.deleted \in BOOLEAN
      /\ f.created <=> f.from = New
      /\ ~f.created => f.from \in Names /\ OnDisk(f.from) \in FileContents
      /\ content \in FileContents
  BY <1>1, FreshType DEF FileType, FileInv, OnDisk, Content, FileContents
<1> HIDE DEF f, content
<1>3. CASE f.created /\ f.deleted
  BY <1>1, <1>2, <1>3 DEF ChangeOf, Live, f
<1>4. CASE f.created /\ ~f.deleted
  <2> DEFINE c == [kind |-> "add", from |-> f.path, to |-> f.path, content |-> content]
  <2>1. ChangeOf(f) = <<c>> /\ c \in ChangeType /\ c.kind = "add" /\ c.from = f.path /\ c.to = f.path /\ c.content = content
    BY <1>2, <1>4 DEF ChangeOf, ChangeType, ChangeKinds, content
  <2> HIDE DEF c
  <2>2. ChangeOf(f) \in Seq(ChangeType) /\ ChangeOf(f) # << >>
    BY <2>1
  <2> QED
    BY <1>1, <1>4, <2>1, <2>2 DEF Live, f, content
<1>5. CASE ~f.created /\ f.deleted
  <2> DEFINE c == [kind |-> "delete", from |-> f.from, to |-> f.from, content |-> OnDisk(f.from)]
  <2>1. ChangeOf(f) = <<c>> /\ c \in ChangeType /\ c.kind = "delete" /\ c.from = f.from /\ c.to = f.from
    BY <1>2, <1>5 DEF ChangeOf, ChangeType, ChangeKinds
  <2> HIDE DEF c
  <2>2. ChangeOf(f) \in Seq(ChangeType) /\ ChangeOf(f) # << >>
    BY <2>1
  <2> QED
    BY <1>1, <1>5, <2>1, <2>2 DEF Live, f
<1>6. CASE ~f.created /\ ~f.deleted /\ Touched(f, content)
  <2> DEFINE c == [kind |-> "update", from |-> f.from, to |-> f.path, content |-> content]
  <2>1. ChangeOf(f) = <<c>> /\ c \in ChangeType /\ c.kind = "update" /\ c.from = f.from /\ c.to = f.path /\ c.content = content
    BY <1>2, <1>6 DEF ChangeOf, ChangeType, ChangeKinds, content
  <2> HIDE DEF c
  <2>2. ChangeOf(f) \in Seq(ChangeType) /\ ChangeOf(f) # << >>
    BY <2>1
  <2> QED
    BY <1>1, <1>6, <2>1, <2>2 DEF Live, f, content, Touched
<1>7. CASE ~f.created /\ ~f.deleted /\ ~Touched(f, content)
  <2>1. ChangeOf(f) = << >>
    BY <1>7 DEF ChangeOf, content
  <2> QED
    BY <1>1, <1>7, <2>1 DEF Live, f, content, Touched
<1> QED
  BY <1>3, <1>4, <1>5, <1>6, <1>7

\* The list after every round of the loop in changes.
LEMMA ChangesRounds ==
  ASSUME WorkspaceInv
  PROVE  \E n \in [0..Len(files) -> Seq(ChangeType)] :
           /\ changesOf(files) = n[Len(files)] /\ n[0] = << >>
           /\ \A k \in 1..Len(files) : n[k] = n[k - 1] \o ChangeOf(files[k])
<1> DEFINE l == Len(files)
           V == Seq(ChangeType)
           step == [k \in 1..l |-> [s \in V |-> s \o ChangeOf(files[k])]]
           Solves(n) == n = [k \in 0..l |-> IF k = 0 THEN << >> ELSE n[k - 1] \o ChangeOf(files[k])]
           h == CHOOSE n : Solves(n)
<1>1. l \in Nat /\ DOMAIN files = 1..l
  BY DEF WorkspaceInv, FilesInv
<1>2. ASSUME NEW k \in 1..l PROVE ChangeOf(files[k]) \in V
  BY <1>1, ChangeIs
<1>3. ASSUME NEW k \in 1..l, NEW s \in V PROVE s \o ChangeOf(files[k]) \in V
  BY <1>2
<1>4. step \in [1..l -> [V -> V]] /\ << >> \in V
  BY <1>3
<1>5. PICK n \in [0..l -> V] : n[0] = << >> /\ \A k \in 1..l : n[k] = step[k][n[k - 1]]
  <2> HIDE DEF step, V, l
  <2> QED
    BY <1>1, <1>4, LoopExists
<1>6. ASSUME NEW k \in 1..l PROVE n[k] = n[k - 1] \o ChangeOf(files[k])
  <2> HIDE DEF V
  <2>1. k - 1 \in 0..l
    BY <1>1
  <2>2. n[k - 1] \in V /\ step[k] = [s \in V |-> s \o ChangeOf(files[k])]
    BY <1>5, <2>1
  <2> QED
    BY <1>5, <2>2
<1>7. Solves(n)
  <2>1. n = [k \in 0..l |-> n[k]]
    BY <1>5
  <2>2. ASSUME NEW k \in 0..l PROVE n[k] = IF k = 0 THEN << >> ELSE n[k - 1] \o ChangeOf(files[k])
    <3>1. CASE k = 0
      BY <1>5, <3>1
    <3>2. CASE k # 0
      <4>1. k \in 1..l
        BY <1>1, <3>2
      <4>2. n[k] = n[k - 1] \o ChangeOf(files[k])
        BY <1>6, <4>1
      <4> QED
        BY <3>2, <4>2
    <3> QED
      BY <3>1, <3>2
  <2> HIDE DEF V
  <2> QED
    BY <2>1, <2>2
<1>8. Solves(h)
  <2> HIDE DEF Solves
  <2> QED
    BY <1>7
<1>9. changesOf(files) = h[l]
  BY DEF changesOf
<1> HIDE DEF h
<1>10. h[0] = << >> /\ \A k \in 1..l : h[k] = h[k - 1] \o ChangeOf(files[k])
  <2>1. \A k \in 0..l : h[k] = IF k = 0 THEN << >> ELSE h[k - 1] \o ChangeOf(files[k])
    BY <1>8, Zenon
  <2> HIDE DEF Solves
  <2>2. 0 \in 0..l /\ \A k \in 1..l : k \in 0..l /\ k # 0
    BY <1>1
  <2> QED
    BY <2>1, <2>2
<1>11. \A k \in 0..l : h[k] \in V
  <2> DEFINE G == {k \in 0..l : h[k] \in V}
  <2> HIDE DEF Solves
  <2>1. 0 \in G
    <3>1. h[0] \in V /\ 0 \in 0..l
      BY <1>1, <1>4, <1>10
    <3> QED
      BY <3>1
  <2>2. ASSUME NEW k \in 1..l, k - 1 \in G PROVE k \in G
    <3>1. h[k - 1] \in V /\ k \in 0..l
      BY <1>1, <2>2
    <3> QED
      BY <1>3, <1>10, <3>1
  <2> HIDE DEF G
  <2>3. \A k \in 0..l : k \in G
    BY <1>1, <2>1, <2>2, Climb
  <2> QED
    BY <2>3 DEF G
<1>12. h = [k \in 0..l |-> h[k]]
  BY <1>8
<1>13. h \in [0..l -> V]
  BY <1>11, <1>12
<1> QED
  BY <1>9, <1>10, <1>13

\* The changes and the files that they come from, after the first k files.
Covers(s, k, g) ==
  /\ g \in [DOMAIN s -> 1..k]
  /\ \A a, b \in DOMAIN s : g[a] = g[b] => a = b
  /\ \A a \in DOMAIN s : ChangeOf(files[g[a]]) = <<s[a]>>
  /\ \A i \in 1..k : ChangeOf(files[i]) # << >> => \E a \in DOMAIN s : g[a] = i

\* One round adds the change of its file, when it has one.
LEMMA CoversStep ==
  ASSUME NEW k \in Nat \ {0}, NEW s \in Seq(ChangeType), NEW g, Covers(s, k - 1, g),
         \/ ChangeOf(files[k]) = << >>
         \/ \E c \in ChangeType : ChangeOf(files[k]) = <<c>>
  PROVE  \E h : Covers(s \o ChangeOf(files[k]), k, h)
<1>0. DOMAIN s = 1..Len(s) /\ Len(s) \in Nat /\ g \in [DOMAIN s -> 1..k - 1]
  BY DEF Covers
<1>1. CASE ChangeOf(files[k]) = << >>
  <2>1. s \o ChangeOf(files[k]) = s
    BY <1>1
  <2>2. g \in [DOMAIN s -> 1..k]
    BY <1>0
  <2>3. \A i \in 1..k : ChangeOf(files[i]) # << >> => i \in 1..k - 1
    BY <1>1
  <2>4. Covers(s, k, g)
    BY <2>2, <2>3 DEF Covers
  <2> QED
    BY <2>1, <2>4
<1>2. ASSUME NEW c \in ChangeType, ChangeOf(files[k]) = <<c>>
      PROVE  \E h : Covers(s \o ChangeOf(files[k]), k, h)
  <2> DEFINE t == s \o ChangeOf(files[k])
             n == Len(s) + 1
             h == [a \in 1..n |-> IF a = n THEN k ELSE g[a]]
  <2>1. t = s \o <<c>>
    BY <1>2
  <2>2. t \in Seq(ChangeType) /\ DOMAIN t = 1..n /\ t[n] = c /\ \A a \in 1..Len(s) : t[a] = s[a]
    BY <1>0, <2>1
  <2>3. h \in [1..n -> 1..k] /\ h[n] = k /\ \A a \in 1..Len(s) : h[a] = g[a] /\ g[a] \in 1..k - 1
    BY <1>0
  <2> HIDE DEF t, h
  <2>4. ASSUME NEW a \in 1..n, NEW b \in 1..n, h[a] = h[b] PROVE a = b
    <3>1. \A d \in 1..n : d = n \/ d \in 1..Len(s)
      BY <1>0
    <3>2. \A d \in 1..Len(s) : h[d] # k /\ d # n
      BY <1>0, <2>3
    <3>3. \A d, e \in 1..Len(s) : g[d] = g[e] => d = e
      BY <1>0 DEF Covers
    <3> HIDE DEF n
    <3> QED
      BY <2>3, <2>4, <3>1, <3>2, <3>3
  <2>5. ASSUME NEW a \in 1..n PROVE ChangeOf(files[h[a]]) = <<t[a]>>
    <3>1. CASE a = n
      BY <1>2, <2>2, <2>3, <3>1
    <3>2. CASE a # n
      <4>1. a \in DOMAIN s /\ h[a] = g[a] /\ t[a] = s[a]
        BY <1>0, <2>2, <2>3, <3>2
      <4> QED
        BY <4>1 DEF Covers
    <3> QED
      BY <3>1, <3>2
  <2>6. ASSUME NEW i \in 1..k, ChangeOf(files[i]) # << >> PROVE \E a \in 1..n : h[a] = i
    <3>1. CASE i = k
      BY <1>0, <2>3, <3>1
    <3>2. CASE i # k
      <4>1. i \in 1..k - 1
        BY <3>2
      <4>2. PICK a \in DOMAIN s : g[a] = i
        BY <2>6, <4>1 DEF Covers
      <4> QED
        BY <1>0, <2>3, <4>2
    <3> QED
      BY <3>1, <3>2
  <2>7. Covers(t, k, h)
    BY <2>2, <2>3, <2>4, <2>5, <2>6 DEF Covers
  <2> QED
    BY <2>7 DEF t
<1> QED
  BY <1>1, <1>2

\* Every change is one file's, and every file that needs one has its own.
LEMMA ChangesCover ==
  ASSUME WorkspaceInv
  PROVE  changesOf(files) \in Seq(ChangeType) /\ \E g : Covers(changesOf(files), Len(files), g)
<1> DEFINE l == Len(files)
<1>1. l \in Nat /\ DOMAIN files = 1..l
  BY DEF WorkspaceInv, FilesInv
<1>2. PICK n \in [0..l -> Seq(ChangeType)] :
        /\ changesOf(files) = n[l] /\ n[0] = << >>
        /\ \A k \in 1..l : n[k] = n[k - 1] \o ChangeOf(files[k])
  BY ChangesRounds
<1> DEFINE G == {k \in 0..l : \E g : Covers(n[k], k, g)}
<1>3. 0 \in G
  <2>1. Covers(<< >>, 0, << >>)
    BY DEF Covers
  <2> QED
    BY <1>1, <1>2, <2>1
<1>4. ASSUME NEW k \in 1..l, k - 1 \in G PROVE k \in G
  <2>1. k \in DOMAIN files /\ k - 1 \in 0..l /\ k \in Nat \ {0} /\ k \in 0..l
    BY <1>1
  <2>2. PICK g : Covers(n[k - 1], k - 1, g)
    BY <1>4
  <2>3. \/ ChangeOf(files[k]) = << >>
        \/ \E c \in ChangeType : ChangeOf(files[k]) = <<c>>
    BY <2>1, ChangeIs
  <2>4. n[k - 1] \in Seq(ChangeType) /\ n[k] = n[k - 1] \o ChangeOf(files[k])
    BY <1>2, <2>1
  <2>5. \E h : Covers(n[k], k, h)
    BY <2>1, <2>2, <2>3, <2>4, CoversStep
  <2> QED
    BY <2>1, <2>5
<1> HIDE DEF G
<1>5. \A k \in 0..l : k \in G
  BY <1>1, <1>3, <1>4, Climb
<1>6. l \in G /\ n[l] \in Seq(ChangeType)
  BY <1>1, <1>5
<1> QED
  BY <1>2, <1>6 DEF G

\* The list of changes and the files they come from, as one statement.
Derived(g) ==
  /\ changes \in Seq(ChangeType) /\ g \in [DOMAIN changes -> DOMAIN files]
  /\ \A a, b \in DOMAIN changes : g[a] = g[b] => a = b
  /\ \A i \in DOMAIN files : (\E a \in DOMAIN changes : g[a] = i) \/ ChangeOf(files[i]) = << >>
  /\ \A a \in DOMAIN changes :
       LET c == changes[a]
           f == files[g[a]]
       IN \/ /\ c.kind = "add" /\ f.created /\ Live(f) /\ c.from = f.path /\ c.to = f.path
             /\ c.content = Content(f.from, f.text, f.layout)
          \/ c.kind = "delete" /\ ~f.created /\ ~Live(f) /\ c.from = f.from /\ c.to = f.from
          \/ /\ c.kind = "update" /\ ~f.created /\ Live(f) /\ c.from = f.from /\ c.to = f.path
             /\ c.content = Content(f.from, f.text, f.layout)
             /\ f.from # f.path \/ c.content # OnDisk(f.from)

LEMMA ChangesDerived ==
  ASSUME WorkspaceInv, Rendered
  PROVE  \E g : Derived(g)
<1>1. changes = changesOf(files) /\ DOMAIN files = 1..Len(files)
  BY DEF WorkspaceInv, ChangesInv, FilesInv
<1>2. changes \in Seq(ChangeType)
  BY <1>1, ChangesCover
<1>3. PICK g : Covers(changes, Len(files), g)
  BY <1>1, ChangesCover
<1>4. g \in [DOMAIN changes -> DOMAIN files]
  BY <1>1, <1>3 DEF Covers
<1>5. ASSUME NEW a \in DOMAIN changes
      PROVE  LET c == changes[a]
                 f == files[g[a]]
             IN \/ /\ c.kind = "add" /\ f.created /\ Live(f) /\ c.from = f.path /\ c.to = f.path
                   /\ c.content = Content(f.from, f.text, f.layout)
                \/ c.kind = "delete" /\ ~f.created /\ ~Live(f) /\ c.from = f.from /\ c.to = f.from
                \/ /\ c.kind = "update" /\ ~f.created /\ Live(f) /\ c.from = f.from /\ c.to = f.path
                   /\ c.content = Content(f.from, f.text, f.layout)
                   /\ f.from # f.path \/ c.content # OnDisk(f.from)
  <2>1. g[a] \in DOMAIN files /\ ChangeOf(files[g[a]]) = <<changes[a]>> /\ ChangeOf(files[g[a]]) # << >>
    <3>1. ChangeOf(files[g[a]]) = <<changes[a]>>
      BY <1>3 DEF Covers
    <3>2. <<changes[a]>> # << >>
      OBVIOUS
    <3> QED
      BY <1>4, <3>1, <3>2
  <2> DEFINE f == files[g[a]]
  <2>2. PICK c \in ChangeType :
          /\ ChangeOf(f) = <<c>>
          /\ \/ /\ c.kind = "add" /\ f.created /\ Live(f) /\ c.from = f.path /\ c.to = f.path
                /\ c.content = Content(f.from, f.text, f.layout)
             \/ c.kind = "delete" /\ ~f.created /\ ~Live(f) /\ c.from = f.from /\ c.to = f.from
             \/ /\ c.kind = "update" /\ ~f.created /\ Live(f) /\ c.from = f.from /\ c.to = f.path
                /\ c.content = Content(f.from, f.text, f.layout)
                /\ f.from # f.path \/ c.content # OnDisk(f.from)
    BY <2>1, ChangeIs
  <2>3. c = changes[a]
    BY <2>1, <2>2
  <2> QED
    BY <2>2, <2>3
<1> QED
  BY <1>1, <1>2, <1>3, <1>4, <1>5 DEF Derived, Covers

\* Each name is the source of at most one change and the destination of at most
\* one, and no change takes the destination of another away.
LEMMA ChangesApart ==
  ASSUME WorkspaceInv, NEW g, Derived(g)
  PROVE  /\ \A a \in DOMAIN changes : changes[a].from \in Names /\ changes[a].to \in Names
                                      /\ changes[a].content \in FileContents
         /\ \A a \in DOMAIN changes : changes[a].kind # "add" =>
              disk[changes[a].from] # Absent /\ files[g[a]].from = changes[a].from /\ ~files[g[a]].created
         /\ \A a \in DOMAIN changes : changes[a].kind # "delete" =>
              /\ paths[changes[a].to] = g[a]
              /\ \/ disk[changes[a].to] = Absent
                 \/ changes[a].kind = "update" /\ changes[a].from = changes[a].to
         /\ \A a, b \in DOMAIN changes : a # b =>
              /\ changes[a].kind # "add" /\ changes[b].kind # "add" => changes[a].from # changes[b].from
              /\ changes[a].kind # "delete" /\ changes[b].kind # "delete" => changes[a].to # changes[b].to
              /\ changes[a].kind # "delete" /\ changes[b].kind # "add" => changes[a].to # changes[b].from
<1>1. ASSUME NEW a \in DOMAIN changes
      PROVE  /\ changes[a] \in ChangeType /\ g[a] \in DOMAIN files /\ FileInv(g[a]) /\ files[g[a]] \in FileType
             /\ changes[a].from \in Names /\ changes[a].to \in Names /\ changes[a].content \in FileContents
  <2>1. changes[a] \in ChangeType /\ g[a] \in DOMAIN files
    BY DEF Derived
  <2> QED
    BY <2>1 DEF WorkspaceInv, FilesInv, ChangeType
<1>2. ASSUME NEW a \in DOMAIN changes, changes[a].kind # "add"
      PROVE  disk[changes[a].from] # Absent /\ files[g[a]].from = changes[a].from /\ ~files[g[a]].created
  BY <1>1, <1>2 DEF Derived, FileInv
<1>3. ASSUME NEW a \in DOMAIN changes, changes[a].kind # "delete"
      PROVE  /\ paths[changes[a].to] = g[a]
             /\ \/ disk[changes[a].to] = Absent
                \/ changes[a].kind = "update" /\ changes[a].from = changes[a].to
  BY <1>1, <1>3 DEF Derived, FileInv
<1>4. ASSUME NEW a \in DOMAIN changes, NEW b \in DOMAIN changes, a # b
      PROVE  /\ changes[a].kind # "add" /\ changes[b].kind # "add" => changes[a].from # changes[b].from
             /\ changes[a].kind # "delete" /\ changes[b].kind # "delete" => changes[a].to # changes[b].to
             /\ changes[a].kind # "delete" /\ changes[b].kind # "add" => changes[a].to # changes[b].from
  <2>1. g[a] # g[b] /\ g[a] \in DOMAIN files /\ g[b] \in DOMAIN files
    BY <1>1, <1>4 DEF Derived
  <2>2. changes[a].kind # "add" /\ changes[b].kind # "add" => changes[a].from # changes[b].from
    BY <1>2, <2>1 DEF WorkspaceInv, FilesInv
  <2>3. changes[a].kind # "delete" /\ changes[b].kind # "delete" => changes[a].to # changes[b].to
    BY <1>3, <2>1
  <2>4. ASSUME changes[a].kind # "delete", changes[b].kind # "add", changes[a].to = changes[b].from PROVE FALSE
    <3>1. changes[a].kind = "update" /\ changes[a].from = changes[a].to
      BY <1>2, <1>3, <2>4
    <3> QED
      BY <2>2, <2>4, <3>1
  <2> QED
    BY <2>2, <2>3, <2>4
<1> QED
  BY <1>1, <1>2, <1>3, <1>4

\* What the changes leave at a name.
LEMMA ResultAt ==
  ASSUME WorkspaceInv, NEW g, Derived(g), NEW p \in Names
  PROVE  /\ \A a \in DOMAIN changes : changes[a].kind # "delete" /\ changes[a].to = p =>
              Result(disk, changes)[p] = changes[a].content
         /\ (\A a \in DOMAIN changes : changes[a].kind = "delete" \/ changes[a].to # p) =>
              /\ (\E a \in DOMAIN changes : changes[a].kind # "add" /\ changes[a].from = p) =>
                   Result(disk, changes)[p] = Absent
              /\ (\A a \in DOMAIN changes : changes[a].kind = "add" \/ changes[a].from # p) =>
                   Result(disk, changes)[p] = disk[p]
<1>1. \A a, b \in DOMAIN changes :
        changes[a].kind # "delete" /\ changes[b].kind # "delete" /\ changes[a].to = changes[b].to => a = b
  BY ChangesApart
<1>2. CASE \E a \in DOMAIN changes : changes[a].kind # "delete" /\ changes[a].to = p
  <2> DEFINE j == CHOOSE i \in DOMAIN changes : changes[i].kind # "delete" /\ changes[i].to = p
  <2>1. j \in DOMAIN changes /\ changes[j].kind # "delete" /\ changes[j].to = p
    BY <1>2
  <2>2. Result(disk, changes)[p] = changes[j].content
    BY <1>2 DEF Result
  <2> HIDE DEF j
  <2> QED
    BY <1>1, <1>2, <2>1, <2>2
<1>3. CASE ~\E a \in DOMAIN changes : changes[a].kind # "delete" /\ changes[a].to = p
  BY <1>3 DEF Result
<1> QED
  BY <1>2, <1>3

\* The result is the pending workspace with the rendered files.
LEMMA ResultIs ==
  ASSUME WorkspaceInv, NEW g, Derived(g), NEW p \in Names
  PROVE  Result(disk, changes)[p] =
           IF paths[p] # None
           THEN Content(files[paths[p]].from, files[paths[p]].text, files[paths[p]].layout)
           ELSE pending[p]
<1>0. \A q \in Names : paths[q] # None =>
        paths[q] \in DOMAIN files /\ files[paths[q]].path = q /\ Live(files[paths[q]])
  BY DEF WorkspaceInv, FilesInv, None
<1>1. CASE paths[p] # None
  <2> DEFINE i == paths[p]
             f == files[i]
  <2>1. i \in DOMAIN files /\ f.path = p /\ Live(f) /\ FileInv(i)
    BY <1>0, <1>1 DEF WorkspaceInv, FilesInv
  <2>2. CASE \E a \in DOMAIN changes : g[a] = i
    <3>1. PICK a \in DOMAIN changes : g[a] = i
      BY <2>2
    <3>2. changes[a].kind # "delete" /\ changes[a].to = p
          /\ changes[a].content = Content(f.from, f.text, f.layout)
      BY <2>1, <3>1 DEF Derived
    <3> QED
      BY <1>1, <3>2, ResultAt
  <2>3. CASE ~\E a \in DOMAIN changes : g[a] = i
    <3>1. ChangeOf(f) = << >>
      BY <2>1, <2>3 DEF Derived
    <3>2. ~f.created /\ f.from = p /\ Content(f.from, f.text, f.layout) = OnDisk(p)
      BY <2>1, <3>1, ChangeIs
    <3>3. disk[p] = OnDisk(p)
      BY <2>1, <3>2 DEF FileInv, WorkspaceInv, DiskInv
    <3>4. \A a \in DOMAIN changes : changes[a].kind = "delete" \/ changes[a].to # p
      BY <2>3, ChangesApart
    <3>5. \A a \in DOMAIN changes : changes[a].kind = "add" \/ changes[a].from # p
      <4> SUFFICES ASSUME NEW a \in DOMAIN changes, changes[a].kind # "add", changes[a].from = p PROVE FALSE
        OBVIOUS
      <4>1. g[a] \in DOMAIN files /\ ~files[g[a]].created /\ files[g[a]].from = p
        BY ChangesApart DEF Derived
      <4>2. g[a] = i
        BY <2>1, <3>2, <4>1 DEF WorkspaceInv, FilesInv
      <4> QED
        BY <2>3, <4>2
    <3>6. Result(disk, changes)[p] = disk[p]
      BY <3>4, <3>5, ResultAt
    <3> QED
      BY <1>1, <3>2, <3>3, <3>6
  <2> QED
    BY <2>2, <2>3
<1>2. CASE paths[p] = None
  <2>0. \A i \in DOMAIN files : i # None
    BY DEF WorkspaceInv, FilesInv, None
  <2>1. \A a \in DOMAIN changes : changes[a].kind = "delete" \/ changes[a].to # p
    BY <1>2, <2>0, ChangesApart DEF Derived
  <2>2. pending[p] = IF p \in blocked THEN Absent ELSE disk[p]
    BY <1>2 DEF WorkspaceInv, PendingInv
  <2>3. CASE \E a \in DOMAIN changes : changes[a].kind # "add" /\ changes[a].from = p
    <3>1. PICK a \in DOMAIN changes : changes[a].kind # "add" /\ changes[a].from = p
      BY <2>3
    <3>2. g[a] \in DOMAIN files /\ ~files[g[a]].created /\ files[g[a]].from = p /\ FileInv(g[a])
      BY <3>1, ChangesApart DEF Derived, WorkspaceInv, FilesInv
    <3>3. p \in blocked
      BY <1>2, <2>0, <3>2 DEF FileInv, InPlace
    <3> QED
      BY <1>2, <2>1, <2>2, <2>3, <3>3, ResultAt
  <2>4. CASE ~\E a \in DOMAIN changes : changes[a].kind # "add" /\ changes[a].from = p
    <3>1. Result(disk, changes)[p] = disk[p]
      BY <2>1, <2>4, ResultAt
    <3>2. ASSUME p \in blocked, disk[p] # Absent PROVE FALSE
      <4>1. PICK i \in DOMAIN files : ~files[i].created /\ files[i].from = p /\ ~InPlace(files[i])
        BY <3>2 DEF WorkspaceInv, FilesInv
      <4>2. ChangeOf(files[i]) # << >>
        BY <4>1, ChangeIs DEF InPlace
      <4>3. PICK a \in DOMAIN changes : g[a] = i
        BY <4>2 DEF Derived
      <4>4. changes[a].kind # "add" /\ changes[a].from = p
        BY <4>1, <4>3 DEF Derived
      <4> QED
        BY <2>4, <4>4
    <3> QED
      BY <1>2, <2>2, <3>1, <3>2
  <2> QED
    BY <2>3, <2>4
<1> QED
  BY <1>1, <1>2

-----------------------------------------------------------------------------
(* The patch, operation after operation.                                   *)

Places == [Names -> FileContents \cup {Absent}]

LEMMA RowsType ==
  ASSUME NEW c \in FileContents
  PROVE  Rows(c) \in FileContents
<1>1. LF \in Endings /\ c # Absent
  BY WorkspaceAssumption
<1>2. c.layout \in LayoutType /\ c = [from |-> c.from, text |-> c.text, layout |-> c.layout]
      /\ c.from \in Names \cup {New} /\ c.text \in SUBSET Nat
  BY DEF FileContents
<1>3. [c.layout EXCEPT !.ends = LF] \in LayoutType
  BY <1>1, <1>2 DEF LayoutType
<1> QED
  BY <1>1, <1>2, <1>3 DEF Rows, FileContents

\* The files after every operation of the patch.
LEMMA PatchRounds ==
  ASSUME WorkspaceInv, NEW g, Derived(g)
  PROVE  LET o == translate(changes)
             l == Len(changes)
         IN /\ l \in Nat /\ DOMAIN changes = 1..l
            /\ \E d \in [0..l -> Places] :
                 /\ Patched(o) = d[l] /\ d[0] = disk
                 /\ \A k \in 1..l : d[k] = PatchedBy(d[k - 1], Operation(changes[k]))
<1> DEFINE o == translate(changes)
           l == Len(changes)
           V == Places
           step == [k \in 1..l |-> [v \in V |-> PatchedBy(v, o[k])]]
           Solves(n) == n = [k \in 0..l |-> IF k = 0 THEN disk ELSE PatchedBy(n[k - 1], o[k])]
           h == CHOOSE n : Solves(n)
<1>1. l \in Nat /\ DOMAIN changes = 1..l /\ disk \in V
  BY DEF Derived, WorkspaceInv, DiskInv, Places
<1>2. Len(o) = l /\ \A k \in 1..l : o[k] = Operation(changes[k])
  BY <1>1 DEF translate
<1>3. ASSUME NEW k \in 1..l, NEW v \in V PROVE PatchedBy(v, o[k]) \in V
  <2>1. changes[k].content \in FileContents
    BY <1>1, ChangesApart
  <2>2. o[k].new = Rows(changes[k].content) /\ o[k].path = changes[k].from
    <3>1. o[k] = Operation(changes[k])
      BY <1>2
    <3> HIDE DEF o
    <3> QED
      BY <3>1 DEF Operation
  <2>3. changes[k].from \in Names
    BY <1>1, ChangesApart
  <2>4. Rows(changes[k].content) \in FileContents
    BY <2>1, RowsType
  <2> HIDE DEF o
  <2> QED
    BY <2>2, <2>3, <2>4 DEF PatchedBy, Places
<1>4. step \in [1..l -> [V -> V]]
  BY <1>3
<1>5. PICK n \in [0..l -> V] : n[0] = disk /\ \A k \in 1..l : n[k] = step[k][n[k - 1]]
  <2> HIDE DEF step, V, l
  <2> QED
    BY <1>1, <1>4, LoopExists
<1> HIDE DEF V, l, o
<1>6. ASSUME NEW k \in 1..l PROVE n[k] = PatchedBy(n[k - 1], o[k])
  <2>1. k - 1 \in 0..l
    BY <1>1
  <2>2. n[k - 1] \in V /\ step[k] = [v \in V |-> PatchedBy(v, o[k])]
    BY <1>5, <2>1
  <2> QED
    BY <1>5, <2>2
<1>7. Solves(n)
  <2>1. n = [k \in 0..l |-> n[k]]
    BY <1>5
  <2>2. ASSUME NEW k \in 0..l PROVE n[k] = IF k = 0 THEN disk ELSE PatchedBy(n[k - 1], o[k])
    <3>1. CASE k = 0
      BY <1>5, <3>1
    <3>2. CASE k # 0
      <4>1. k \in 1..l
        BY <1>1, <3>2
      <4>2. n[k] = PatchedBy(n[k - 1], o[k])
        BY <1>6, <4>1
      <4> QED
        BY <3>2, <4>2
    <3> QED
      BY <3>1, <3>2
  <2> QED
    BY <2>1, <2>2
<1>8. Solves(h)
  <2> HIDE DEF Solves
  <2> QED
    BY <1>7
<1>9. Patched(o) = h[l]
  BY <1>2 DEF Patched
<1> HIDE DEF h
<1>10. h[0] = disk /\ \A k \in 1..l : h[k] = PatchedBy(h[k - 1], o[k])
  <2>1. \A k \in 0..l : h[k] = IF k = 0 THEN disk ELSE PatchedBy(h[k - 1], o[k])
    BY <1>8, Zenon
  <2> HIDE DEF Solves
  <2>2. 0 \in 0..l /\ \A k \in 1..l : k \in 0..l /\ k # 0
    BY <1>1
  <2> QED
    BY <2>1, <2>2
<1>11. h = [k \in 0..l |-> h[k]]
  BY <1>8
<1> HIDE DEF Solves
<1>12. \A k \in 0..l : h[k] \in V
  <2> DEFINE G == {k \in 0..l : h[k] \in V}
  <2>1. 0 \in G
    BY <1>1, <1>10
  <2>2. ASSUME NEW k \in 1..l, k - 1 \in G PROVE k \in G
    <3>1. h[k - 1] \in V /\ k \in 0..l
      BY <1>1, <2>2
    <3> QED
      BY <1>3, <1>10, <3>1
  <2> HIDE DEF G
  <2>3. \A k \in 0..l : k \in G
    BY <1>1, <2>1, <2>2, Climb
  <2> QED
    BY <2>3 DEF G
<1>13. h \in [0..l -> V]
  BY <1>11, <1>12
<1>14. \A k \in 1..l : h[k] = PatchedBy(h[k - 1], Operation(changes[k]))
  BY <1>2, <1>10
<1> QED
  BY <1>1, <1>9, <1>10, <1>13, <1>14 DEF V, l, o

\* What the first k operations leave at a name.
LeavesAt(v, k, p) ==
  /\ \A a \in 1..k : changes[a].kind # "delete" /\ changes[a].to = p =>
       v \in {changes[a].content, Rows(changes[a].content)}
  /\ (\A a \in 1..k : changes[a].kind = "delete" \/ changes[a].to # p) =>
       v = IF \E a \in 1..k : changes[a].kind # "add" /\ changes[a].from = p THEN Absent ELSE disk[p]

\* The patch, operation after operation, leaves what the changes at once leave,
\* or its lines: nothing before an operation touched the file that it takes.
LEMMA PatchIsResult ==
  ASSUME WorkspaceInv, NEW g, Derived(g), NEW p \in Names
  PROVE  Patched(translate(changes))[p] \in {Result(disk, changes)[p], Rows(Result(disk, changes)[p])}
<1> DEFINE l == Len(changes)
<1>1. l \in Nat /\ DOMAIN changes = 1..l
  BY PatchRounds
<1>2. PICK d \in [0..l -> Places] :
        /\ Patched(translate(changes)) = d[l] /\ d[0] = disk
        /\ \A k \in 1..l : d[k] = PatchedBy(d[k - 1], Operation(changes[k]))
  BY PatchRounds
<1> HIDE DEF l
<1> DEFINE G == {k \in 0..l : \A q \in Names : LeavesAt(d[k][q], k, q)}
<1>3. 0 \in G
  BY <1>1, <1>2 DEF LeavesAt
<1>4. ASSUME NEW k \in 1..l, k - 1 \in G PROVE k \in G
  <2>0. k - 1 \in 0..l /\ k \in 0..l /\ 1..k - 1 \subseteq 1..l /\ \A a \in 1..k : a = k \/ a \in 1..k - 1
    BY <1>1
  <2>1. \A a \in 1..k - 1 : a # k /\ a \in 1..k
    BY <1>1
  <2> SUFFICES ASSUME NEW q \in Names PROVE LeavesAt(d[k][q], k, q)
    BY <2>0
  <2>2. \A r \in Names : LeavesAt(d[k - 1][r], k - 1, r)
    BY <1>4
  <2> DEFINE c == changes[k]
             v == d[k - 1][q]
             o == Operation(c)
  <2>4. \A a \in 1..k - 1 :
          /\ changes[a].kind # "delete" /\ c.kind # "delete" => changes[a].to # c.to
          /\ changes[a].kind # "delete" /\ c.kind # "add" => changes[a].to # c.from
          /\ changes[a].kind # "add" /\ c.kind # "add" => changes[a].from # c.from
    BY <1>1, <2>0, <2>1, ChangesApart
  <2>8. c.from \in Names /\ c.to \in Names /\ k \in DOMAIN changes
    BY <1>1, ChangesApart
  <2>9. c.kind # "add" => d[k - 1][c.from] = OnDisk(c.from) /\ OnDisk(c.from) # Absent
    <3>1. c.kind # "add" => d[k - 1][c.from] = disk[c.from]
      BY <2>2, <2>4, <2>8 DEF LeavesAt
    <3>2. c.kind # "add" => disk[c.from] # Absent
      BY <2>8, ChangesApart
    <3>3. disk[c.from] # Absent => disk[c.from] = OnDisk(c.from)
      BY <2>8 DEF WorkspaceInv, DiskInv
    <3> QED
      BY <3>1, <3>2, <3>3
  <2>10. /\ o.op = IF c.kind = "update" /\ c.content = OnDisk(c.from) THEN "move" ELSE c.kind
         /\ o.to = c.to /\ o.path = c.from /\ o.old = Rows(OnDisk(c.from)) /\ o.new = Rows(c.content)
    BY DEF Operation, OnlyMoves
  <2>11. d[k] = PatchedBy(d[k - 1], o)
    BY <1>2
  <2>12. c.kind \in {"add", "update", "delete"}
    BY <2>8 DEF Derived
  <2> HIDE DEF o
  <2>13. Accepts(d[k - 1], o)
    BY <2>9, <2>10, <2>12 DEF Accepts
  <2>14. d[k][q] = IF o.op # "delete" /\ q = o.to
                   THEN IF o.op = "move" THEN d[k - 1][o.path] ELSE o.new
                   ELSE IF o.op # "add" /\ q = o.path THEN Absent ELSE v
    BY <2>11, <2>13 DEF PatchedBy
  <2>3. /\ c.kind # "delete" /\ q = c.to => d[k][q] \in {c.content, Rows(c.content)}
        /\ ~(c.kind # "delete" /\ q = c.to) => d[k][q] = IF c.kind # "add" /\ q = c.from THEN Absent ELSE v
    BY <2>9, <2>10, <2>12, <2>14
  <2> HIDE DEF v, c
  <2>5. CASE c.kind # "delete" /\ q = c.to
    BY <2>0, <2>1, <2>3, <2>4, <2>5 DEF LeavesAt, c
  <2>6. CASE ~(c.kind # "delete" /\ q = c.to) /\ c.kind # "add" /\ q = c.from
    BY <2>0, <2>1, <2>3, <2>4, <2>6 DEF LeavesAt, c
  <2>7. CASE ~(c.kind # "delete" /\ q = c.to) /\ ~(c.kind # "add" /\ q = c.from)
    <3>1. LeavesAt(v, k - 1, q)
      BY <2>2 DEF v
    <3> QED
      BY <2>0, <2>1, <2>3, <2>7, <3>1 DEF LeavesAt, c
  <2> QED
    BY <2>5, <2>6, <2>7
<1> HIDE DEF G
<1>5. \A k \in 0..l : k \in G
  BY <1>1, <1>3, <1>4, Climb
<1>6. LeavesAt(d[l][p], l, p)
  BY <1>1, <1>5 DEF G
<1> QED
  BY <1>1, <1>2, <1>6, ResultAt DEF LeavesAt

\* The changes of a rendered workspace mean the script.
LEMMA ChangesMean ==
  ASSUME WorkspaceInv
  PROVE  ChangesMeanScript
<1> SUFFICES ASSUME Rendered
             PROVE  LET after == Result(disk, changes)
                        patched == Patched(translate(changes)) IN
                    /\ WellFormed(disk, changes)
                    /\ \A p \in Names : patched[p] \in {after[p], Rows(after[p])}
                    /\ \A i \in DOMAIN changes : changes[i].kind = "update" =>
                         changes[i].from # changes[i].to \/ changes[i].content # disk[changes[i].from]
                    /\ \A p \in Names :
                         /\ Plain(after[p]) = Plain(pending[p])
                         /\ p \notin GoPaths /\ after[p] # Absent => after[p].layout.ends = pending[p].layout.ends
                         /\ Untouched(pending[p]) /\ (pending[p].from \in GoPaths <=> p \in GoPaths) =>
                              after[p] = pending[p]
  BY DEF ChangesMeanScript, Rendered
<1>1. PICK g : Derived(g)
  BY ChangesDerived
<1>2. WellFormed(disk, changes)
  BY <1>1, ChangesApart DEF WellFormed
<1>3. ASSUME NEW p \in Names
      PROVE  Patched(translate(changes))[p] \in {Result(disk, changes)[p], Rows(Result(disk, changes)[p])}
  BY <1>1, PatchIsResult
<1>4. ASSUME NEW i \in DOMAIN changes, changes[i].kind = "update"
      PROVE  changes[i].from # changes[i].to \/ changes[i].content # disk[changes[i].from]
  <2>1. disk[changes[i].from] = OnDisk(changes[i].from)
    BY <1>1, <1>4, ChangesApart DEF WorkspaceInv, DiskInv
  <2> QED
    BY <1>1, <1>4, <2>1 DEF Derived
<1>5. ASSUME NEW p \in Names
      PROVE  LET after == Result(disk, changes) IN
             /\ Plain(after[p]) = Plain(pending[p])
             /\ p \notin GoPaths /\ after[p] # Absent => after[p].layout.ends = pending[p].layout.ends
             /\ Untouched(pending[p]) /\ (pending[p].from \in GoPaths <=> p \in GoPaths) => after[p] = pending[p]
  <2>1. CASE paths[p] = None
    BY <1>1, <2>1, ResultIs
  <2>2. CASE paths[p] # None
    <3> DEFINE f == files[paths[p]]
    <3>1. Result(disk, changes)[p] = Content(f.from, f.text, f.layout)
      BY <1>1, <2>2, ResultIs
    <3>2. PICK l \in LayoutType :
            pending[p] = Content(f.from, f.text, l) /\ (f.layout # l => Reformats(f, l))
      BY <2>2 DEF WorkspaceInv, PendingInv
    <3>3. paths[p] \in DOMAIN files /\ f.path = p /\ FileInv(paths[p])
      BY <2>2 DEF WorkspaceInv, FilesInv, None
    <3>4. f \in FileType
      BY <3>3 DEF WorkspaceInv, FilesInv
    <3>5. /\ f.from \in Names \cup {New} /\ f.text \in SUBSET Nat /\ f.layout \in LayoutType
          /\ f.created => f.from = New
      BY <3>3, <3>4 DEF FileType, FileInv
    <3>11. f.path = p
      BY <3>3
    <3> HIDE DEF f
    <3>6. /\ Content(f.from, f.text, f.layout) # Absent /\ Content(f.from, f.text, l) # Absent
      BY <3>5, WorkspaceAssumption DEF Content, FileContents
    <3>7. Plain(Content(f.from, f.text, f.layout)) = Plain(Content(f.from, f.text, l))
      BY <3>6 DEF Plain, Content
    <3>8. ASSUME Untouched(pending[p]), pending[p].from \in GoPaths <=> p \in GoPaths
          PROVE  f.layout = l
      <4>1. pending[p].from = f.from /\ pending[p].text = f.text /\ pending[p].layout = l
        BY <3>2 DEF Content
      <4>2. OnDisk(f.from).text = {} /\ OnDisk(f.from).layout = Fresh(f.from)
        BY DEF OnDisk, Content
      <4>3. f.from # New /\ f.text = {} /\ l = Fresh(f.from)
        BY <3>8, <4>1, <4>2 DEF Untouched
      <4> QED
        BY <3>2, <3>5, <3>8, <3>11, <4>1, <4>3 DEF Reformats
    <3>9. p \notin GoPaths => f.layout.ends = l.ends
      BY <3>2, <3>11 DEF Reformats
    <3>10. /\ Content(f.from, f.text, f.layout).layout = f.layout /\ Content(f.from, f.text, l).layout = l
      BY DEF Content
    <3>12. Plain(Result(disk, changes)[p]) = Plain(pending[p])
      BY <3>1, <3>2, <3>7
    <3>13. p \notin GoPaths => Result(disk, changes)[p].layout.ends = pending[p].layout.ends
      BY <3>1, <3>2, <3>9, <3>10
    <3>14. Untouched(pending[p]) /\ (pending[p].from \in GoPaths <=> p \in GoPaths) =>
             Result(disk, changes)[p] = pending[p]
      BY <3>1, <3>2, <3>8
    <3> QED
      BY <3>12, <3>13, <3>14
  <2> QED
    BY <2>1, <2>2
<1> QED
  BY <1>2, <1>3, <1>4, <1>5

\* The changes mean the script, applied at once or, line for line, as a patch,
\* operation after operation, and are what the transaction relies on
\* (workspace.go:387-415, validation.go:178-279, translate.go:26-101, 157-183).
THEOREM ChangesAreFaithful == Spec => []ChangesMeanScript
<1>1. WorkspaceInv => ChangesMeanScript
  BY ChangesMean
<1> QED
  BY <1>1, WorkspaceAlways, PTL

-----------------------------------------------------------------------------
(* The answer: what the phases of the host operation leave behind.         *)

Phases == {"open", "evaluate", "render", "effect", "finish", "diagnose", "errorHooks", "outcome",
           "outcomeHooks", "answer", "done"}
Early == phase \in {"open", "evaluate", "render", "effect"}
Errors == {"none", "ctx", "invalid", "rejected", "translate", "commit"}

\* Every edit that a file shows is a command of the script, and a file without
\* edits that differs from the disk knows the command it owes that to.
Blamed(f, n, rendered) ==
  /\ f.edits \subseteq 1..n /\ f.indents \subseteq 1..n /\ f.text \subseteq f.edits
  /\ f.layout # Fresh(f.from) /\ ~rendered => f.edits # {}
  /\ f.created \/ f.path # f.from => f.origin \in 1..n

ReportInv ==
  /\ reported \in Seq([file : Nat, command : Nat])
  /\ \A i \in DOMAIN reported :
       /\ reported[i].file \in DOMAIN files /\ Live(files[reported[i].file])
       /\ reported[i].command \in files[reported[i].file].edits
  /\ \A i, j \in DOMAIN reported : i < j => reported[i].command < reported[j].command

\* The script so far.
ScriptInv ==
  /\ count \in Nat /\ (phase = "open" => count = 0)
  /\ failures \subseteq 1..count /\ (failures # {} => phase = "evaluate")
  /\ \A i \in DOMAIN files : Blamed(files[i], count, Rendered)
  /\ ReportInv

\* What an error, or none, says about the disk and about the caller.
OutcomeInv ==
  /\ mode \in {"apply", "translate"} /\ cancelled \in BOOLEAN /\ phase \in Phases /\ err \in Errors
  /\ phase \in {"open", "evaluate", "render"} => changes = << >>
  /\ Early => err = "none" /\ written = "no"
  /\ (err = "rejected" <=> rejections # {}) /\ \A c \in rejections : 1 <= c /\ (c <= count \/ count = 0)
  /\ rejections \subseteq Nat
  /\ err = "none" => failureStage = ""
  /\ err = "none" /\ ~Early => written = IF mode = "apply" /\ changes # << >> THEN "yes" ELSE "no"
  /\ err \notin {"none", "commit"} => written = "no"
  /\ err = "commit" => mode = "apply" /\ failureStage = "applied"
  /\ err = "ctx" => cancelled
  /\ err \notin {"none", "ctx"} => failureStage # ""

Stages == {"", "evaluated", "translated", "applied"}
ResultType == [stage : Stages, status : {"", "rejected", "failed", "already-satisfied", "succeeded"},
               applied : BOOLEAN, published : BOOLEAN, returned : {"none", "nil", "error", "ctx"},
               diagnostic : SUBSET {"failure", "warning"}, failures : {"none", "commands", "stage"}]

Finished == ~Early /\ phase # "finish"

\* The answer as far as it is written.
ResultInv ==
  /\ result \in ResultType /\ failureStage \in Stages
  /\ ~Finished => ~result.applied /\ result.diagnostic = {}
  /\ phase = "diagnose" => err # "none"
  /\ Finished =>
       /\ err # "none" =>
            /\ result.stage = failureStage /\ ~result.applied /\ result.status \in {"rejected", "failed"}
            /\ result.failures = hostFailures
       /\ err = "none" =>
            /\ changes # << >> /\ mode = "apply" => result.stage = "applied"
            /\ result.applied => changes # << >> /\ mode = "apply"
            /\ result.status = "succeeded" => changes # << >>
  /\ phase \in {"outcome", "errorHooks", "outcomeHooks", "answer"} =>
       cancelled \/ ("failure" \in result.diagnostic <=> err # "none")
  /\ phase = "done" =>
       /\ result.published <=> err = "none" /\ ~cancelled
       /\ result.returned = IF cancelled THEN "ctx" ELSE IF err = "none" THEN "nil" ELSE "error"
       /\ cancelled => result.diagnostic = {}
       /\ cancelled \/ ("failure" \in result.diagnostic <=> err # "none")

HookType == [routed : BOOLEAN, left : Nat, late : BOOLEAN,
             ran : Seq({"errorHooks", "outcomeHooks"} \X {"ok", "failed", "killed"})]

\* The hooks that ran and those that are left.
HookInv ==
  /\ hook \in HookType
  /\ ~Finished \/ phase = "diagnose" \/ (phase = "outcome" /\ hook.routed) => hook.ran = << >>
  /\ phase = "errorHooks" => ~hook.routed
  /\ phase = "outcomeHooks" => hook.routed
  /\ phase = "errorHooks" => err = "rejected"
  /\ phase \in {"errorHooks", "outcomeHooks"} =>
       hook.left > 0 /\ \A i \in DOMAIN hook.ran : hook.ran[i][2] # "killed"
  /\ \A i \in DOMAIN hook.ran :
       /\ hook.ran[i][1] = "errorHooks" <=> ~hook.routed
       /\ hook.ran[i][1] = "errorHooks" => err = "rejected"
       /\ hook.ran[i][2] = "killed" => i = Len(hook.ran)

AnswerInv == ScriptInv /\ OutcomeInv /\ ResultInv /\ HookInv

\* The entries of a report r that are not about file i, in the same order.
Retains(s, r, i, g) ==
  /\ s \in Seq([file : Nat, command : Nat]) /\ g \in [DOMAIN s -> DOMAIN r]
  /\ \A a, b \in DOMAIN s : a < b => g[a] < g[b]
  /\ \A a \in DOMAIN s : s[a] = r[g[a]] /\ r[g[a]].file # i

LEMMA RetainedIs ==
  ASSUME NEW r, r = reported, r \in Seq([file : Nat, command : Nat]), NEW i
  PROVE  \E g : Retains(Retained(i), r, i, g)
<1> DEFINE E == [file : Nat, command : Nat]
           l == Len(r)
           V == Seq(E)
           Next1(v, k) == IF r[k].file = i THEN v ELSE Append(v, r[k])
           step == [k \in 1..l |-> [v \in V |-> Next1(v, k)]]
           Solves(n) == n = [k \in 0..l |-> IF k = 0 THEN << >>
                               ELSE IF r[k].file = i THEN n[k - 1] ELSE Append(n[k - 1], r[k])]
           h == CHOOSE n : Solves(n)
<1>0. r \in Seq(E)
  OBVIOUS
<1> HIDE DEF E
<1>1. l \in Nat /\ DOMAIN r = 1..l /\ << >> \in V
  BY <1>0
<1>2. ASSUME NEW k \in 1..l PROVE r[k] \in E
  BY <1>0, <1>1
<1>3. ASSUME NEW k \in 1..l, NEW v \in V PROVE Next1(v, k) \in V
  BY <1>2
<1>4. step \in [1..l -> [V -> V]]
  BY <1>3
<1>5. PICK n \in [0..l -> V] : n[0] = << >> /\ \A k \in 1..l : n[k] = step[k][n[k - 1]]
  <2> HIDE DEF step, V, l, Solves, h, Next1
  <2>1. << >> \in V /\ l \in Nat
    BY <1>1
  <2> QED
    <3>1. PICK V1, l1, s1, v1 : V1 = V /\ l1 = l /\ s1 = step /\ v1 = << >>
      OBVIOUS
    <3>2. v1 \in V1 /\ l1 \in Nat /\ s1 \in [1..l1 -> [V1 -> V1]]
      BY <1>4, <2>1, <3>1
    <3>3. \E f \in [0..l1 -> V1] : f[0] = v1 /\ \A k \in 1..l1 : f[k] = s1[k][f[k - 1]]
      BY ONLY <3>2, LoopExists
    <3> QED
      BY <3>1, <3>3
<1> HIDE DEF V, l
<1>6. ASSUME NEW k \in 1..l PROVE n[k] = Next1(n[k - 1], k)
  <2>1. k - 1 \in 0..l
    BY <1>1
  <2>2. n[k - 1] \in V /\ step[k] = [v \in V |-> Next1(v, k)]
    BY <1>5, <2>1
  <2> QED
    BY <1>5, <2>2
<1>7. Solves(n)
  <2>1. n = [k \in 0..l |-> n[k]]
    BY <1>5
  <2>2. ASSUME NEW k \in 0..l
        PROVE  n[k] = IF k = 0 THEN << >>
                      ELSE IF r[k].file = i THEN n[k - 1] ELSE Append(n[k - 1], r[k])
    <3>1. CASE k = 0
      BY <1>5, <3>1
    <3>2. CASE k # 0
      <4>1. k \in 1..l
        BY <1>1, <3>2
      <4>2. n[k] = Next1(n[k - 1], k)
        BY <1>6, <4>1
      <4> QED
        BY <3>2, <4>2
    <3> QED
      BY <3>1, <3>2
  <2> QED
    BY <2>1, <2>2
<1>8. Solves(h)
  <2> HIDE DEF Solves
  <2> QED
    BY <1>7
<1>9. Retained(i) = h[l]
  BY DEF Retained, l
<1> HIDE DEF h
<1>10. h[0] = << >> /\ \A k \in 1..l : h[k] = Next1(h[k - 1], k)
  <2>1. \A k \in 0..l : h[k] = IF k = 0 THEN << >>
                               ELSE IF r[k].file = i THEN h[k - 1] ELSE Append(h[k - 1], r[k])
    BY <1>8, Zenon
  <2> HIDE DEF Solves
  <2>2. 0 \in 0..l /\ \A k \in 1..l : k \in 0..l /\ k # 0
    BY <1>1
  <2> QED
    BY <2>1, <2>2
<1> HIDE DEF Solves
<1> DEFINE Picks(s, k, g) ==
             /\ s \in V /\ g \in [DOMAIN s -> 1..k]
             /\ \A a, b \in DOMAIN s : a < b => g[a] < g[b]
             /\ \A a \in DOMAIN s : s[a] = r[g[a]] /\ r[g[a]].file # i
           G == {k \in 0..l : \E g : Picks(h[k], k, g)}
<1>11. 0 \in G
  <2>1. Picks(<< >>, 0, << >>)
    BY <1>1
  <2> HIDE DEF Picks
  <2> QED
    BY <1>1, <1>10, <2>1
<1>12. ASSUME NEW k \in 1..l, k - 1 \in G PROVE k \in G
  <2> DEFINE s == h[k - 1]
  <2>1. k \in 0..l /\ k \in Nat /\ k - 1 \in Nat /\ r[k] \in E
    BY <1>1, <1>2
  <2>2. PICK g : Picks(s, k - 1, g)
    <3> HIDE DEF Picks
    <3> QED
      BY <1>12
  <2>3. s \in V /\ Len(s) \in Nat /\ DOMAIN s = 1..Len(s)
    BY <2>2 DEF V
  <2>4. CASE r[k].file = i
    <3>1. h[k] = s
      BY <1>10, <2>4
    <3>2. g \in [DOMAIN s -> 1..k]
      BY <2>1, <2>2, <2>3
    <3>3. Picks(s, k, g)
      BY <2>2, <3>2
    <3> HIDE DEF Picks, s
    <3> QED
      BY <2>1, <3>1, <3>3
  <2>5. CASE r[k].file # i
    <3> DEFINE t == Append(s, r[k])
               m == Len(s) + 1
               f == [a \in 1..m |-> IF a = m THEN k ELSE g[a]]
    <3>1. h[k] = t
      BY <1>10, <2>5
    <3>2. t \in V /\ DOMAIN t = 1..m /\ t[m] = r[k] /\ \A a \in 1..Len(s) : t[a] = s[a]
      <4> HIDE DEF s
      <4> QED
        BY <2>1, <2>3 DEF V
    <3>3. f \in [1..m -> 1..k] /\ f[m] = k /\ \A a \in 1..Len(s) : f[a] = g[a] /\ g[a] \in 1..k - 1
      <4>1. g \in [1..Len(s) -> 1..k - 1]
        BY <2>2, <2>3
      <4>2. m \in 1..m /\ \A a \in 1..m : a = m \/ a \in 1..Len(s)
        BY <2>3
      <4>3. \A a \in 1..Len(s) : a \in 1..m /\ a # m
        BY <2>3
      <4>4. k \in 1..k /\ \A x \in 1..k - 1 : x \in 1..k
        BY <2>1
      <4> HIDE DEF s, Picks, m
      <4> QED
        BY ONLY <4>1, <4>2, <4>3, <4>4
    <3> HIDE DEF t, f, s
    <3>4. ASSUME NEW a \in 1..m, NEW b \in 1..m, a < b PROVE f[a] < f[b]
      <4>1. a \in 1..Len(s)
        BY <2>3, <3>4
      <4>2. CASE b = m
        <5>1. f[b] = k /\ f[a] \in 1..k - 1
          BY <3>3, <4>1, <4>2
        <5> QED
          BY <2>1, <5>1
      <4>3. CASE b # m
        <5>1. b \in 1..Len(s)
          BY <2>3, <4>3
        <5> QED
          BY <2>2, <2>3, <3>3, <3>4, <4>1, <5>1
      <4> QED
        BY <4>2, <4>3
    <3>5. ASSUME NEW a \in 1..m PROVE t[a] = r[f[a]] /\ r[f[a]].file # i
      <4>1. CASE a = m
        BY <2>5, <3>2, <3>3, <4>1
      <4>2. CASE a # m
        <5>1. a \in 1..Len(s)
          BY <2>3, <4>2
        <5> QED
          BY <2>2, <2>3, <3>2, <3>3, <5>1
      <4> QED
        BY <4>1, <4>2
    <3>6. Picks(t, k, f)
      BY <3>2, <3>3, <3>4, <3>5
    <3> HIDE DEF Picks
    <3> QED
      BY <2>1, <3>1, <3>6
  <2> QED
    BY <2>4, <2>5
<1> HIDE DEF G, Picks
<1>13. \A k \in 0..l : k \in G
  BY <1>1, <1>11, <1>12, Climb
<1>14. PICK g : Picks(h[l], l, g)
  <2>1. l \in G
    BY <1>1, <1>13
  <2> QED
    BY <2>1 DEF G
<1>15. Retained(i) \in V /\ g \in [DOMAIN Retained(i) -> DOMAIN r]
  BY <1>1, <1>9, <1>14 DEF Picks
<1>16. \A a, b \in DOMAIN Retained(i) : a < b => g[a] < g[b]
  BY <1>9, <1>14 DEF Picks
<1>17. \A a \in DOMAIN Retained(i) : Retained(i)[a] = r[g[a]] /\ r[g[a]].file # i
  BY <1>9, <1>14 DEF Picks
<1>18. Retains(Retained(i), r, i, g)
  BY <1>15, <1>16, <1>17 DEF V, E, Retains
<1> QED
  BY <1>18

-----------------------------------------------------------------------------
(* Steps of the script.                                                    *)

\* One more command leaves the blame of a file that it does not touch.
LEMMA BlamedLater ==
  ASSUME NEW f, NEW n \in Nat, NEW r \in BOOLEAN, Blamed(f, n, r)
  PROVE  Blamed(f, n + 1, r)
  BY DEF Blamed

\* The report stays true when its files keep their edits.
LEMMA ReportKept ==
  ASSUME ReportInv, reported' = reported, DOMAIN files \subseteq DOMAIN files',
         \A i \in DOMAIN files : Live(files[i]) => Live(files'[i]) /\ files[i].edits \subseteq files'[i].edits
  PROVE  ReportInv'
<1>1. reported' \in Seq([file : Nat, command : Nat])
  BY DEF ReportInv
<1>2. ASSUME NEW i \in DOMAIN reported
      PROVE  /\ reported[i].file \in DOMAIN files' /\ Live(files'[reported[i].file])
             /\ reported[i].command \in files'[reported[i].file].edits
  BY DEF ReportInv
<1>3. \A i, j \in DOMAIN reported : i < j => reported[i].command < reported[j].command
  BY DEF ReportInv
<1> QED
  BY <1>1, <1>2, <1>3 DEF ReportInv

\* The edit of the running command comes last in the report.
LEMMA ReportAdds ==
  ASSUME ScriptInv, count' = count + 1, Reports, active \in DOMAIN files, active \in Nat,
         DOMAIN files' = DOMAIN files, Live(files'[active]), count' \in files'[active].edits,
         \A i \in DOMAIN files : Live(files[i]) => Live(files'[i]) /\ files[i].edits \subseteq files'[i].edits
  PROVE  ReportInv'
<1> DEFINE E == [file : Nat, command : Nat]
           e == [file |-> active, command |-> count']
           n == Len(reported) + 1
<1>1. reported \in Seq(E) /\ count \in Nat /\ reported' = Append(reported, e)
  BY DEF ScriptInv, ReportInv, Reports
<1>2. e \in E /\ e.file = active /\ e.command = count + 1
  BY <1>1
<1> HIDE DEF E, e
<1>3. /\ reported' \in Seq(E) /\ Len(reported) \in Nat /\ DOMAIN reported = 1..Len(reported)
      /\ DOMAIN reported' = 1..n /\ reported'[n] = e /\ \A i \in 1..Len(reported) : reported'[i] = reported[i]
  BY <1>1, <1>2
<1>4. ASSUME NEW i \in DOMAIN reported
      PROVE  /\ reported[i].file \in DOMAIN files /\ Live(files[reported[i].file])
             /\ reported[i].command \in files[reported[i].file].edits
             /\ reported[i].command \in 1..count
  <2>1. /\ reported[i].file \in DOMAIN files /\ Live(files[reported[i].file])
        /\ reported[i].command \in files[reported[i].file].edits
    BY DEF ScriptInv, ReportInv
  <2>2. files[reported[i].file].edits \subseteq 1..count
    BY <2>1 DEF ScriptInv, Blamed
  <2> QED
    BY <2>1, <2>2
<1>5. ASSUME NEW i \in 1..n
      PROVE  /\ reported'[i].file \in DOMAIN files' /\ Live(files'[reported'[i].file])
             /\ reported'[i].command \in files'[reported'[i].file].edits
  <2>1. CASE i = n
    BY <1>1, <1>2, <1>3, <2>1
  <2>2. CASE i # n
    <3>1. i \in DOMAIN reported /\ reported'[i] = reported[i]
      BY <1>3, <2>2
    <3> QED
      BY <1>4, <3>1
  <2> QED
    BY <2>1, <2>2
<1>6. ASSUME NEW i \in 1..n, NEW j \in 1..n, i < j PROVE reported'[i].command < reported'[j].command
  <2>1. i \in DOMAIN reported /\ reported'[i] = reported[i]
    BY <1>3, <1>6
  <2>2. CASE j = n
    BY <1>1, <1>2, <1>3, <1>4, <2>1, <2>2
  <2>3. CASE j # n
    <3>1. j \in DOMAIN reported /\ reported'[j] = reported[j]
      BY <1>3, <2>3
    <3> QED
      BY <1>6, <2>1, <3>1 DEF ScriptInv, ReportInv
  <2> QED
    BY <2>2, <2>3
<1> QED
  BY <1>3, <1>5, <1>6 DEF ReportInv, E

\* A command that goes on.
LEMMA CommandGoes ==
  ASSUME ScriptInv, Step, phase' = "evaluate", failures' \subseteq failures \cup {count'}, ReportInv',
         \A i \in DOMAIN files' : Blamed(files'[i], count', FALSE)
  PROVE  ScriptInv'
<1>1. count \in Nat /\ count' = count + 1 /\ failures \subseteq 1..count
  BY DEF ScriptInv, Step
<1>2. count' \in Nat /\ failures' \subseteq 1..count'
  BY <1>1
<1>3. Rendered' = FALSE
  BY DEF Rendered
<1> QED
  BY <1>2, <1>3 DEF ScriptInv

\* An empty workspace has nothing to report.
LEMMA NothingToReport ==
  ASSUME count' \in Nat, phase' = "finish", Discards
  PROVE  ScriptInv'
  BY DEF Discards, ScriptInv, ReportInv

\* Commands that touch neither an existing file nor the report.
LEMMA UntouchedGoes ==
  ASSUME ScriptInv, Step, phase' = "evaluate", failures' \subseteq failures \cup {count'},
         reported' = reported, UNCHANGED files
  PROVE  ScriptInv'
<1>1. count \in Nat /\ count' = count + 1 /\ Rendered = FALSE
  BY DEF ScriptInv, Step, Rendered
<1>2. \A i \in DOMAIN files' : Blamed(files'[i], count', FALSE)
  BY <1>1, BlamedLater DEF ScriptInv
<1>3. ReportInv'
  BY ReportKept DEF ScriptInv
<1> QED
  BY <1>2, <1>3, CommandGoes

\* A file joins the workspace.
LEMMA JoinGoes ==
  ASSUME WorkspaceInv, ScriptInv, Step, phase' = "evaluate", failures' = failures, reported' = reported,
         NEW f, files' = Append(files, f), Blamed(f, count', FALSE)
  PROVE  ScriptInv'
<1>1. count \in Nat /\ count' = count + 1 /\ Rendered = FALSE
  BY DEF ScriptInv, Step, Rendered
<1>2. /\ Len(files) \in Nat /\ DOMAIN files = 1..Len(files) /\ DOMAIN files' = 1..Len(files) + 1
      /\ files'[Len(files) + 1] = f /\ \A i \in DOMAIN files : files'[i] = files[i]
  BY DEF WorkspaceInv, FilesInv
<1>3. ASSUME NEW i \in DOMAIN files' PROVE Blamed(files'[i], count', FALSE)
  <2>1. CASE i \in DOMAIN files
    <3>1. Blamed(files[i], count, FALSE)
      BY <1>1, <2>1 DEF ScriptInv
    <3> QED
      BY <1>1, <1>2, <2>1, <3>1, BlamedLater
  <2>2. CASE i \notin DOMAIN files
    <3>1. i = Len(files) + 1
      BY <1>2, <2>2
    <3> QED
      BY <1>2, <3>1
  <2> QED
    BY <2>1, <2>2
<1>4. ReportInv'
  BY <1>2, ReportKept DEF ScriptInv
<1> QED
  BY <1>3, <1>4, CommandGoes

\* The active file becomes another one.
LEMMA BlameOthers ==
  ASSUME WorkspaceInv, ScriptInv, Step, active # None, NEW g, files' = [files EXCEPT ![active] = g],
         Blamed(g, count', FALSE)
  PROVE  /\ active \in DOMAIN files /\ active \in Nat /\ DOMAIN files' = DOMAIN files /\ files'[active] = g
         /\ \A i \in DOMAIN files : i # active => files'[i] = files[i]
         /\ \A i \in DOMAIN files' : Blamed(files'[i], count', FALSE)
<1>1. count \in Nat /\ count' = count + 1 /\ Rendered = FALSE
  BY DEF ScriptInv, Step, Rendered
<1>2. /\ active \in DOMAIN files /\ active \in Nat /\ DOMAIN files' = DOMAIN files /\ files'[active] = g
      /\ \A i \in DOMAIN files : i # active => files'[i] = files[i]
  BY ActiveFile DEF WorkspaceInv, FilesInv
<1>3. ASSUME NEW i \in DOMAIN files' PROVE Blamed(files'[i], count', FALSE)
  <2>1. CASE i = active
    BY <1>2, <2>1
  <2>2. CASE i # active
    <3>1. Blamed(files[i], count, FALSE)
      BY <1>1, <1>2 DEF ScriptInv
    <3> QED
      BY <1>1, <1>2, <2>2, <3>1, BlamedLater
  <2> QED
    BY <2>1, <2>2
<1> QED
  BY <1>2, <1>3

LEMMA MoveGoes ==
  ASSUME WorkspaceInv, ScriptInv, NEW p \in Names, NEW spelling, moveFile(p, spelling)
  PROVE  ScriptInv'
<1> DEFINE f == files[active]
           g == [f EXCEPT !.path = p, !.origin = count']
<1>1. /\ Step /\ phase' = "evaluate" /\ active # None /\ failures' = failures /\ reported' = reported
      /\ files' = [files EXCEPT ![active].path = p, ![active].origin = count']
  BY DEF moveFile, Goes
<1>2. active \in DOMAIN files /\ f \in FileType /\ Live(f) /\ files \in Seq(FileType)
  BY <1>1, ActiveFile DEF WorkspaceInv, FilesInv
<1>3. count \in Nat /\ count' = count + 1 /\ Rendered = FALSE
  BY <1>1 DEF ScriptInv, Step, Rendered
<1>4. g.origin = count' /\ Live(g) /\ g.created = f.created /\ g.from = f.from
      /\ g.edits = f.edits /\ g.text = f.text /\ g.layout = f.layout /\ g.indents = f.indents
  BY <1>2 DEF FileType, Live
<1>5. files' = [files EXCEPT ![active] = g]
  BY <1>1, <1>2 DEF FileType
<1> HIDE DEF g
<1>6. Blamed(f, count, FALSE)
  BY <1>2, <1>3 DEF ScriptInv
<1>7. Blamed(g, count', FALSE)
  BY <1>3, <1>4, <1>6 DEF Blamed
<1>8. /\ DOMAIN files' = DOMAIN files /\ files'[active] = g
      /\ \A i \in DOMAIN files : i # active => files'[i] = files[i]
      /\ \A i \in DOMAIN files' : Blamed(files'[i], count', FALSE)
  BY <1>1, <1>5, <1>7, BlameOthers
<1>9. ReportInv'
  BY <1>1, <1>4, <1>8, ReportKept DEF ScriptInv
<1> QED
  BY <1>1, <1>8, <1>9, CommandGoes

LEMMA RemoveGoes ==
  ASSUME WorkspaceInv, ScriptInv, removeFile
  PROVE  ScriptInv'
<1> DEFINE f == files[active]
           g == [f EXCEPT !.deleted = TRUE]
<1>1. /\ Step /\ phase' = "evaluate" /\ active # None /\ failures' = failures /\ reported' = Retained(active)
      /\ files' = [files EXCEPT ![active].deleted = TRUE]
  BY DEF removeFile, Goes
<1>2. active \in DOMAIN files /\ f \in FileType /\ files \in Seq(FileType)
  BY <1>1, ActiveFile DEF WorkspaceInv, FilesInv
<1>3. count \in Nat /\ count' = count + 1 /\ Rendered = FALSE
  BY <1>1 DEF ScriptInv, Step, Rendered
<1>4. g.origin = f.origin /\ g.created = f.created /\ g.from = f.from /\ g.path = f.path
      /\ g.edits = f.edits /\ g.text = f.text /\ g.layout = f.layout /\ g.indents = f.indents
  BY <1>2 DEF FileType
<1>5. files' = [files EXCEPT ![active] = g]
  BY <1>1, <1>2 DEF FileType
<1> HIDE DEF g
<1>6. Blamed(f, count, FALSE)
  BY <1>2, <1>3 DEF ScriptInv
<1>7. Blamed(g, count', FALSE)
  BY <1>3, <1>4, <1>6 DEF Blamed
<1>8. /\ DOMAIN files' = DOMAIN files /\ files'[active] = g
      /\ \A i \in DOMAIN files : i # active => files'[i] = files[i]
      /\ \A i \in DOMAIN files' : Blamed(files'[i], count', FALSE)
  BY <1>1, <1>5, <1>7, BlameOthers
<1>9. ReportInv'
  <2> DEFINE s == Retained(active)
  <2>1. reported \in Seq([file : Nat, command : Nat])
    BY DEF ScriptInv, ReportInv
  <2>2. PICK h : Retains(s, reported, active, h)
    <3>1. PICK r, k : r = reported /\ k = active
      OBVIOUS
    <3>2. r = reported /\ r \in Seq([file : Nat, command : Nat])
      BY <2>1, <3>1
    <3>3. \E h : Retains(Retained(k), r, k, h)
      BY <3>2, RetainedIs
    <3> QED
      BY <3>1, <3>3
  <2> HIDE DEF s
  <2>3. reported' = s
    BY <1>1 DEF s
  <2>4. ASSUME NEW a \in DOMAIN s
        PROVE  /\ s[a].file \in DOMAIN files' /\ Live(files'[s[a].file])
               /\ s[a].command \in files'[s[a].file].edits
    <3>1. h[a] \in DOMAIN reported /\ s[a] = reported[h[a]] /\ s[a].file # active
      BY <2>2 DEF Retains
    <3>2. /\ s[a].file \in DOMAIN files /\ Live(files[s[a].file])
          /\ s[a].command \in files[s[a].file].edits
      BY <3>1 DEF ScriptInv, ReportInv
    <3> QED
      BY <1>8, <3>1, <3>2
  <2>5. ASSUME NEW a \in DOMAIN s, NEW b \in DOMAIN s, a < b PROVE s[a].command < s[b].command
    <3>1. h[a] \in DOMAIN reported /\ s[a] = reported[h[a]] /\ h[b] \in DOMAIN reported /\ s[b] = reported[h[b]]
          /\ h[a] < h[b]
      BY <2>2, <2>5 DEF Retains
    <3> QED
      BY <3>1 DEF ScriptInv, ReportInv
  <2> QED
    BY <2>2, <2>3, <2>4, <2>5 DEF ReportInv, Retains
<1> QED
  BY <1>1, <1>8, <1>9, CommandGoes

\* The active file is edited and the edit reported.
LEMMA EditGoes ==
  ASSUME WorkspaceInv, ScriptInv, Step, phase' = "evaluate", failures' = failures, Reports, active # None,
         NEW g, files' = [files EXCEPT ![active] = g], Live(g), Blamed(g, count', FALSE),
         files[active].edits \subseteq g.edits, count' \in g.edits
  PROVE  ScriptInv'
<1>1. /\ active \in DOMAIN files /\ active \in Nat /\ DOMAIN files' = DOMAIN files /\ files'[active] = g
      /\ \A i \in DOMAIN files : i # active => files'[i] = files[i]
      /\ \A i \in DOMAIN files' : Blamed(files'[i], count', FALSE)
  BY BlameOthers
<1>2. count' = count + 1
  BY DEF Step
<1>3. ReportInv'
  BY <1>1, <1>2, ReportAdds
<1> QED
  BY <1>1, <1>3, CommandGoes

LEMMA InitializeGoes ==
  ASSUME WorkspaceInv, ScriptInv, NEW empty \in BOOLEAN, NEW ends \in Endings, initialize(empty, ends)
  PROVE  ScriptInv'
<1>1. Step /\ phase' = "evaluate" /\ active # None /\ failures' = failures /\ initializable = active
  BY DEF initialize, Goes
<1>2. CASE empty
  BY <1>1, <1>2, UntouchedGoes DEF initialize
<1>3. CASE ~empty
  <2> DEFINE f == files[active]
             g == [f EXCEPT !.edits = {count'}, !.text = {count'}, !.layout = Layout(FALSE, ends)]
  <2>1. Reports /\ files' = [files EXCEPT ![active].edits = {count'}, ![active].text = {count'},
                                  ![active].layout = Layout(FALSE, ends)]
    BY <1>3 DEF initialize
  <2>2. active \in DOMAIN files /\ f \in FileType /\ Live(f) /\ files \in Seq(FileType) /\ f.edits = {}
    BY <1>1, ActiveFile DEF WorkspaceInv, FilesInv
  <2>3. count \in Nat /\ count' = count + 1 /\ Rendered = FALSE
    BY <1>1 DEF ScriptInv, Step, Rendered
  <2>4. g.origin = f.origin /\ g.created = f.created /\ g.from = f.from /\ g.path = f.path /\ Live(g)
        /\ g.edits = {count'} /\ g.text = {count'} /\ g.indents = f.indents
    BY <2>2 DEF FileType, Live
  <2>5. files' = [files EXCEPT ![active] = g]
    BY <2>1, <2>2 DEF FileType
  <2> HIDE DEF g
  <2>6. Blamed(f, count, FALSE)
    BY <2>2, <2>3 DEF ScriptInv
  <2>7. Blamed(g, count', FALSE)
    BY <2>3, <2>4, <2>6 DEF Blamed
  <2>8. f.edits \subseteq g.edits /\ count' \in g.edits
    BY <2>2, <2>4
  <2> QED
    BY <1>1, <2>1, <2>4, <2>5, <2>7, <2>8, EditGoes
<1> QED
  BY <1>2, <1>3

LEMMA MutationGoes ==
  ASSUME WorkspaceInv, ScriptInv, NEW effect \in Effects, NEW ends \in Endings, NEW indents \in BOOLEAN,
         applyMutation(effect, ends, indents)
  PROVE  ScriptInv'
<1>1. Step /\ phase' = "evaluate" /\ active # None /\ failures' = failures
  BY DEF applyMutation, Goes
<1>2. CASE effect = "none"
  BY <1>1, <1>2, UntouchedGoes DEF applyMutation
<1>3. CASE effect # "none"
  <2> DEFINE f == files[active]
             text == IF effect = "text" THEN f.text \cup {count'} ELSE f.text
             layout == Layout(f.layout.spacing \/ effect = "spacing", ends)
             g == [f EXCEPT !.edits = @ \cup {count'}, !.text = text,
                            !.layout = layout, !.indents = @ \cup (IF indents THEN {count'} ELSE {})]
  <2>1. Reports /\ files' = [files EXCEPT ![active] = g]
    BY <1>3 DEF applyMutation
  <2>2. active \in DOMAIN files /\ f \in FileType /\ Live(f)
    BY <1>1, ActiveFile
  <2>3. count \in Nat /\ count' = count + 1 /\ Rendered = FALSE
    BY <1>1 DEF ScriptInv, Step, Rendered
  <2>4. text \subseteq f.text \cup {count'}
    OBVIOUS
  <2> HIDE DEF text, layout
  <2>5. g.origin = f.origin /\ g.created = f.created /\ g.from = f.from /\ g.path = f.path /\ Live(g)
        /\ g.edits = f.edits \cup {count'} /\ g.text = text
        /\ g.indents = f.indents \cup (IF indents THEN {count'} ELSE {})
    BY <2>2 DEF FileType, Live
  <2> HIDE DEF g
  <2>6. Blamed(f, count, FALSE)
    BY <2>2, <2>3 DEF ScriptInv
  <2>7. Blamed(g, count', FALSE)
    <3>1. g.indents \subseteq f.indents \cup {count'}
      BY <2>5
    <3> QED
      BY <2>3, <2>4, <2>5, <2>6, <3>1 DEF Blamed
  <2>8. f.edits \subseteq g.edits /\ count' \in g.edits
    BY <2>5
  <2> QED
    BY <1>1, <2>1, <2>5, <2>7, <2>8, EditGoes
<1> QED
  BY <1>2, <1>3

-----------------------------------------------------------------------------
(* Steps up to the host's effect.                                          *)

\* The earliest indentation failure exists and is a command of the script.
LEMMA EarliestIs ==
  ASSUME ScriptInv
  PROVE  /\ EarliestIndentation \subseteq 1..count
         /\ indentationFailure # {} => EarliestIndentation # {}
<1> DEFINE all == UNION {files[i].indents : i \in indentationFailure}
<1>1. \A i \in indentationFailure : files[i].indents # {} /\ files[i].indents \subseteq 1..count
  BY DEF indentationFailure, Rejects, ScriptInv, Blamed
<1>2. count \in Nat /\ all \subseteq 1..count /\ all \subseteq Nat
  <2>1. all \subseteq 1..count
    BY <1>1
  <2> QED
    BY <2>1 DEF ScriptInv
<1>3. EarliestIndentation = {c \in all : \A d \in all : c <= d}
  BY DEF EarliestIndentation
<1>4. indentationFailure # {} => all # {}
  BY <1>1
<1> HIDE DEF all
<1>5. ASSUME all # {} PROVE EarliestIndentation # {}
  <2>1. PICK c \in all : \A d \in all : c <= d
    BY <1>2, <1>5, Least
  <2> QED
    BY <1>3, <2>1
<1> QED
  BY <1>2, <1>3, <1>4, <1>5

\* A failed language check blames commands of the script.
LEMMA RenderBlames ==
  ASSUME WorkspaceInv, ScriptInv, phase = "render", NEW blamed \in renderFailures
  PROVE  blamed # {} /\ blamed \subseteq 1..count
<1>1. ASSUME NEW i \in DOMAIN files, Live(files[i]), Validated(files[i]) PROVE Blames(files[i]) \subseteq 1..count
  <2> DEFINE f == files[i]
  <2>0. Rendered = FALSE
    BY DEF Rendered
  <2>1. Blamed(f, count, FALSE) /\ f \in FileType
    <3>1. Blamed(f, count, Rendered)
      BY DEF ScriptInv
    <3>2. f \in FileType
      BY DEF WorkspaceInv, FilesInv
    <3> QED
      BY <2>0, <3>1, <3>2
  <2>2. CASE f.edits # {}
    BY <2>1, <2>2 DEF Blames, Blamed
  <2>3. CASE f.edits = {}
    <3>1. f.text = {} /\ f.layout = Fresh(f.from)
      BY <2>1, <2>3 DEF Blamed, FileType
    <3>2. f.created \/ f.path # f.from
      <4>1. Content(f.from, f.text, f.layout) = OnDisk(f.from)
        BY <3>1 DEF OnDisk
      <4> QED
        BY <1>1, <3>1, <4>1 DEF Validated, Formats, Touched
    <3> QED
      BY <2>1, <2>3, <3>2 DEF Blames, Blamed
  <2> QED
    BY <2>2, <2>3
<1>2. blamed # {} /\ blamed \subseteq
        UNION {Blames(files[i]) : i \in {j \in DOMAIN files : Live(files[j]) /\ Validated(files[j])}}
  BY DEF renderFailures
<1> QED
  BY <1>1, <1>2

\* A refusal that names commands of the script, or one that has none to name.
Refusal(why, commands) ==
  \/ why = "rejected" /\ commands # {} /\ commands \subseteq Nat /\ \A c \in commands : 1 <= c /\ (c <= count' \/ count' = 0)
  \/ why = "invalid" /\ commands = {}
  \/ why = "ctx" /\ commands = {} /\ cancelled

LEMMA RefusalStep ==
  ASSUME AnswerInv, phase \in {"open", "evaluate", "render"}, NEW why, NEW commands, Rejected(why, commands),
         Refusal(why, commands), count' \in Nat, UNCHANGED <<mode, cancelled, changes, written, result, hook>>
  PROVE  AnswerInv'
<1>1. /\ phase' = "finish" /\ err' = why /\ failureStage' = "evaluated" /\ rejections' = commands /\ Discards
  BY DEF Rejected
<1>2. ScriptInv'
  BY <1>1, NothingToReport
<1>3. changes' = << >> /\ written' = "no" /\ mode' \in {"apply", "translate"} /\ cancelled' \in BOOLEAN
  BY DEF AnswerInv, OutcomeInv, Early
<1>4. OutcomeInv'
  <2>1. CASE why = "rejected" /\ commands # {} /\ commands \subseteq Nat /\ \A c \in commands : 1 <= c /\ (c <= count' \/ count' = 0)
    BY <1>1, <1>3, <2>1 DEF OutcomeInv, Phases, Errors, Early
  <2>2. CASE why = "invalid" /\ commands = {}
    BY <1>1, <1>3, <2>2 DEF OutcomeInv, Phases, Errors, Early
  <2>3. CASE why = "ctx" /\ commands = {} /\ cancelled
    BY <1>1, <1>3, <2>3 DEF OutcomeInv, Phases, Errors, Early
  <2> QED
    BY <2>1, <2>2, <2>3 DEF Refusal
<1>5. ResultInv'
  BY <1>1 DEF AnswerInv, ResultInv, Finished, Early, Stages
<1>6. HookInv'
  BY <1>1 DEF AnswerInv, HookInv, Finished, Early
<1> QED
  BY <1>2, <1>4, <1>5, <1>6 DEF AnswerInv

\* A step before the effect that refuses nothing.
LEMMA EarlyStep ==
  ASSUME AnswerInv, phase \in {"open", "evaluate", "render"}, phase' \in {"evaluate", "render", "effect"},
         phase' # "effect" => changes' = changes, ScriptInv',
         UNCHANGED <<mode, cancelled, err, rejections, failureStage, written, result, hook>>
  PROVE  AnswerInv'
<1>1. err = "none" /\ rejections = {} /\ written = "no" /\ changes = << >> /\ failureStage = ""
  BY DEF AnswerInv, OutcomeInv, Early
<1>2. OutcomeInv'
  BY <1>1 DEF AnswerInv, OutcomeInv, Phases, Errors, Early
<1>3. ResultInv'
  BY <1>1 DEF AnswerInv, ResultInv, Finished, Early
<1>4. HookInv'
  BY DEF AnswerInv, HookInv, Finished, Early
<1> QED
  BY <1>2, <1>3, <1>4 DEF AnswerInv

\* A command that stops the script names a command of it.
LEMMA StopStep ==
  ASSUME AnswerInv, Step, Stop
  PROVE  AnswerInv'
<1> DEFINE commands == IF indentationFailure = {} THEN {count'} ELSE EarliestIndentation
<1>1. /\ phase = "evaluate" /\ count \in Nat /\ count' = count + 1
      /\ UNCHANGED <<mode, cancelled, changes, written, result, hook>>
  BY DEF Step, AnswerInv, ScriptInv
<1>2. Rejected("rejected", commands)
  BY DEF Stop
<1>3. commands # {} /\ commands \subseteq 1..count'
  <2>1. EarliestIndentation \subseteq 1..count /\ (indentationFailure # {} => EarliestIndentation # {})
    BY EarliestIs DEF AnswerInv
  <2> QED
    BY <1>1, <2>1
<1> HIDE DEF commands
<1>4. count' \in Nat /\ commands \subseteq Nat /\ \A c \in commands : 1 <= c /\ (c <= count' \/ count' = 0)
  BY <1>1, <1>3
<1>5. Refusal("rejected", commands)
  BY <1>3, <1>4 DEF Refusal
<1> QED
  BY <1>1, <1>2, <1>4, <1>5, RefusalStep

\* A command that goes on.
LEMMA GoesStep ==
  ASSUME AnswerInv, Step, phase' = "evaluate", UNCHANGED <<err, rejections, failureStage>>, ScriptInv'
  PROVE  AnswerInv'
  BY EarlyStep DEF Step

LEMMA OpenAnswer ==
  ASSUME AnswerInv, evaluateScript
  PROVE  AnswerInv'
<1>1. /\ phase = "open" /\ count' = count /\ count = 0
      /\ UNCHANGED <<mode, cancelled, changes, written, result, hook>>
  BY DEF evaluateScript, AnswerInv, ScriptInv
<1>2. CASE cancelled /\ Rejected("ctx", {})
  <2>1. Refusal("ctx", {})
    BY <1>2 DEF Refusal
  <2> QED
    BY <1>1, <1>2, <2>1, RefusalStep
<1>3. CASE Rejected("invalid", {})
  <2>1. Refusal("invalid", {})
    BY DEF Refusal
  <2> QED
    BY <1>1, <1>3, <2>1, RefusalStep
<1>4. CASE Rejected("rejected", {1})
  <2>1. Refusal("rejected", {1})
    BY <1>1 DEF Refusal
  <2> QED
    BY <1>1, <1>4, <2>1, RefusalStep
<1>5. CASE phase' = "evaluate" /\ UNCHANGED <<wsVars, err, rejections, failureStage, pending>>
  <2>1. UNCHANGED <<files, reported, failures>>
    BY <1>5 DEF wsVars
  <2>2. ScriptInv'
    BY <1>1, <1>5, <2>1 DEF AnswerInv, ScriptInv, ReportInv, Rendered
  <2> QED
    BY <1>1, <1>5, <2>2, EarlyStep
<1> QED
  BY <1>2, <1>3, <1>4, <1>5 DEF evaluateScript

LEMMA SelectAnswer ==
  ASSUME WorkspaceInv, AnswerInv, NEW p \in Names, NEW spelling, selectFile(p, spelling)
  PROVE  AnswerInv'
<1>1. Step /\ phase' = "evaluate" /\ UNCHANGED <<err, rejections, failureStage, failures, reported>>
  BY DEF selectFile, Goes
<1>2. CASE UNCHANGED files
  <2>1. ScriptInv'
    BY <1>1, <1>2, UntouchedGoes DEF AnswerInv
  <2> QED
    BY <1>1, <2>1, GoesStep
<1>3. CASE ~UNCHANGED files
  <2> DEFINE f == [from |-> p, path |-> p, created |-> FALSE, deleted |-> FALSE,
                   edits |-> {}, text |-> {}, layout |-> Fresh(p), indents |-> {}, origin |-> 0]
  <2>1. files' = Append(files, f)
    BY <1>3 DEF selectFile
  <2>2. Blamed(f, count', FALSE)
    BY DEF Blamed
  <2> HIDE DEF f
  <2>3. ScriptInv'
    BY <1>1, <2>1, <2>2, JoinGoes DEF AnswerInv
  <2> QED
    BY <1>1, <2>3, GoesStep
<1> QED
  BY <1>2, <1>3

LEMMA NewAnswer ==
  ASSUME WorkspaceInv, AnswerInv, NEW p \in Names, NEW spelling, newFile(p, spelling)
  PROVE  AnswerInv'
<1> DEFINE f == [from |-> New, path |-> p, created |-> TRUE, deleted |-> FALSE,
                 edits |-> {}, text |-> {}, layout |-> Fresh(New), indents |-> {}, origin |-> count']
<1>1. Step /\ phase' = "evaluate" /\ UNCHANGED <<err, rejections, failureStage, failures, reported>>
      /\ files' = Append(files, f)
  BY DEF newFile, Goes
<1>2. count' \in 1..count'
  BY <1>1 DEF Step, AnswerInv, ScriptInv
<1>3. Blamed(f, count', FALSE)
  BY <1>2 DEF Blamed
<1> HIDE DEF f
<1>4. ScriptInv'
  BY <1>1, <1>3, JoinGoes DEF AnswerInv
<1> QED
  BY <1>1, <1>4, GoesStep

LEMMA FailureAnswer ==
  ASSUME AnswerInv, baselineFailure
  PROVE  AnswerInv'
<1>1. Step
  BY DEF baselineFailure
<1>2. CASE Stop
  BY <1>1, <1>2, StopStep
<1>3. CASE ~Stop
  <2>1. phase' = "evaluate" /\ failures' = failures \cup {count'} /\ UNCHANGED <<files, reported, err, rejections, failureStage>>
    BY <1>3 DEF baselineFailure
  <2>2. ScriptInv'
    BY <1>1, <2>1, UntouchedGoes DEF AnswerInv
  <2> QED
    BY <1>1, <2>1, <2>2, GoesStep
<1> QED
  BY <1>2, <1>3

LEMMA EvaluatedAnswer ==
  ASSUME AnswerInv, evaluated
  PROVE  AnswerInv'
<1>1. /\ phase = "evaluate" /\ count' = count /\ count \in Nat
      /\ UNCHANGED <<mode, cancelled, changes, written, result, hook>>
  BY DEF evaluated, AnswerInv, ScriptInv
<1>2. CASE Doomed
  <2> DEFINE commands == IF failures # {} THEN failures ELSE EarliestIndentation
  <2>1. Rejected("rejected", commands)
    BY <1>2 DEF evaluated
  <2>2. commands # {} /\ commands \subseteq 1..count
    <3>1. EarliestIndentation \subseteq 1..count /\ (indentationFailure # {} => EarliestIndentation # {})
      BY EarliestIs DEF AnswerInv
    <3> QED
      BY <1>2, <3>1 DEF Doomed, AnswerInv, ScriptInv
  <2> HIDE DEF commands
  <2>3. commands \subseteq Nat /\ \A c \in commands : 1 <= c /\ (c <= count' \/ count' = 0)
    BY <1>1, <2>2
  <2>4. Refusal("rejected", commands)
    BY <2>2, <2>3 DEF Refusal
  <2> QED
    BY <1>1, <2>1, <2>4, RefusalStep
<1>3. CASE ~Doomed
  <2>1. phase' = "render" /\ UNCHANGED <<wsVars, err, rejections, failureStage>>
    BY <1>3 DEF evaluated
  <2>2. UNCHANGED <<files, reported, failures>>
    BY <2>1 DEF wsVars
  <2>3. ScriptInv'
    BY <1>1, <1>3, <2>1, <2>2 DEF AnswerInv, ScriptInv, ReportInv, Rendered, Doomed
  <2> QED
    BY <1>1, <2>1, <2>3, EarlyStep
<1> QED
  BY <1>2, <1>3

LEMMA RenderAnswer ==
  ASSUME WorkspaceInv, AnswerInv, renderFinal
  PROVE  AnswerInv'
<1>1. /\ phase = "render" /\ count' = count /\ count \in Nat
      /\ UNCHANGED <<mode, cancelled, written, result, hook>>
  BY DEF renderFinal, AnswerInv, ScriptInv
<1>2. CASE \E blamed \in renderFailures : Rejected("rejected", blamed) /\ UNCHANGED changes
  <2>1. PICK blamed \in renderFailures : Rejected("rejected", blamed) /\ UNCHANGED changes
    BY <1>2
  <2>2. blamed # {} /\ blamed \subseteq 1..count
    BY <1>1, RenderBlames DEF AnswerInv
  <2>3. blamed \subseteq Nat /\ \A c \in blamed : 1 <= c /\ (c <= count' \/ count' = 0)
    BY <1>1, <2>2
  <2>4. Refusal("rejected", blamed)
    BY <2>2, <2>3 DEF Refusal
  <2> QED
    BY <1>1, <2>1, <2>4, RefusalStep
<1>3. CASE ~\E blamed \in renderFailures : Rejected("rejected", blamed) /\ UNCHANGED changes
  <2>1. PICK layout \in [DOMAIN files -> LayoutType] :
          files' = [i \in DOMAIN files |-> [files[i] EXCEPT !.layout = layout[i]]]
    BY <1>3 DEF renderFinal
  <2>2. phase' = "effect" /\ UNCHANGED <<err, rejections, failureStage, reported, failures>>
    BY <1>3 DEF renderFinal
  <2>3. DOMAIN files' = DOMAIN files
    BY <2>1
  <2>4. ASSUME NEW i \in DOMAIN files
        PROVE  Blamed(files'[i], count, TRUE) /\ Live(files'[i]) = Live(files[i]) /\ files'[i].edits = files[i].edits
    <3>1. files[i] \in FileType /\ files'[i] = [files[i] EXCEPT !.layout = layout[i]] /\ Blamed(files[i], count, FALSE)
      <4>1. Rendered = FALSE
        BY <1>1 DEF Rendered
      <4>2. Blamed(files[i], count, Rendered)
        BY DEF AnswerInv, ScriptInv
      <4>3. files[i] \in FileType
        BY DEF WorkspaceInv, FilesInv
      <4> QED
        BY <2>1, <4>1, <4>2, <4>3
    <3>2. files'[i].edits = files[i].edits /\ files'[i].text = files[i].text /\ files'[i].indents = files[i].indents
          /\ files'[i].origin = files[i].origin /\ files'[i].created = files[i].created
          /\ files'[i].path = files[i].path /\ files'[i].from = files[i].from /\ files'[i].deleted = files[i].deleted
      BY <3>1 DEF FileType
    <3> QED
      BY <3>1, <3>2 DEF Blamed, Live
  <2>5. ReportInv'
    BY <2>2, <2>3, <2>4, ReportKept DEF AnswerInv, ScriptInv
  <2>6. ScriptInv'
    BY <1>1, <2>2, <2>3, <2>4, <2>5 DEF AnswerInv, ScriptInv, Rendered
  <2> QED
    BY <1>1, <2>2, <2>6, EarlyStep
<1> QED
  BY <1>2, <1>3

LEMMA EffectAnswer ==
  ASSUME AnswerInv, applyEffect \/ translateEffect
  PROVE  AnswerInv'
<1>1. /\ phase = "effect" /\ phase' = "finish" /\ Discards /\ count' = count
      /\ UNCHANGED <<mode, cancelled, changes, rejections, result, hook>>
  BY DEF applyEffect, translateEffect
<1>2. /\ err = "none" /\ rejections = {} /\ written = "no" /\ failureStage = "" /\ count \in Nat
      /\ mode \in {"apply", "translate"} /\ cancelled \in BOOLEAN
  BY <1>1 DEF AnswerInv, ScriptInv, OutcomeInv, Early
<1>3. ScriptInv'
  BY <1>1, <1>2, NothingToReport
<1>4. OutcomeInv'
  <2>1. CASE err' = "ctx" /\ cancelled /\ written' = "no"
    BY <1>1, <1>2, <2>1 DEF OutcomeInv, Phases, Errors, Early
  <2>2. CASE /\ err' = "none" /\ failureStage' = ""
             /\ written' = IF mode = "apply" /\ changes # << >> THEN "yes" ELSE "no"
    BY <1>1, <1>2, <2>2 DEF OutcomeInv, Phases, Errors, Early
  <2>3. CASE err' = "commit" /\ failureStage' = "applied" /\ mode = "apply"
    BY <1>1, <1>2, <2>3 DEF OutcomeInv, Phases, Errors, Early
  <2>4. CASE err' = "translate" /\ failureStage' = "translated" /\ written' = "no"
    BY <1>1, <1>2, <2>4 DEF OutcomeInv, Phases, Errors, Early
  <2>5. CASE applyEffect
    BY <1>1, <1>2, <2>1, <2>2, <2>3, <2>5 DEF applyEffect, Commits
  <2>6. CASE translateEffect
    BY <1>1, <1>2, <2>1, <2>2, <2>4, <2>6 DEF translateEffect
  <2> QED
    BY <2>5, <2>6
<1>5. failureStage' \in Stages
  BY <1>2 DEF applyEffect, translateEffect, Stages
<1>6. ResultInv'
  BY <1>1, <1>5 DEF AnswerInv, ResultInv, Finished, Early
<1>7. HookInv'
  BY <1>1 DEF AnswerInv, HookInv, Finished, Early
<1> QED
  BY <1>3, <1>4, <1>6, <1>7 DEF AnswerInv

-----------------------------------------------------------------------------
(* Steps of the answer and its hooks.                                      *)

\* The script and its outcome are settled once the effect is over.
LEMMA SettledStep ==
  ASSUME AnswerInv, ~Early, phase' \in Phases, ~Early', cancelled' \in BOOLEAN, cancelled => cancelled',
         UNCHANGED <<mode, wsVars, count, changes, err, rejections, failureStage, written>>
  PROVE  ScriptInv' /\ OutcomeInv'
<1>1. UNCHANGED <<files, reported, failures>>
  BY DEF wsVars
<1>2. ScriptInv'
  <2>1. count \in Nat /\ failures = {} /\ phase' # "open" /\ Rendered = FALSE /\ Rendered' = FALSE
    BY DEF AnswerInv, ScriptInv, Early, Rendered
  <2>2. \A i \in DOMAIN files : Blamed(files[i], count, FALSE)
    BY <2>1 DEF AnswerInv, ScriptInv
  <2>3. ReportInv'
    BY <1>1, ReportKept DEF AnswerInv, ScriptInv
  <2> QED
    BY <1>1, <2>1, <2>2, <2>3 DEF ScriptInv
<1>3. OutcomeInv'
  BY DEF AnswerInv, OutcomeInv, Early
<1> QED
  BY <1>2, <1>3

LEMMA FinishAnswer ==
  ASSUME AnswerInv, finishHostChange
  PROVE  AnswerInv'
<1>1. /\ phase = "finish" /\ phase' \in {"answer", "diagnose", "outcome"}
      /\ UNCHANGED <<mode, wsVars, count, cancelled, changes, err, rejections, failureStage, written>>
  BY DEF finishHostChange
<1>2. ScriptInv' /\ OutcomeInv'
  <2>1. ~Early /\ ~Early' /\ phase' \in Phases /\ cancelled' \in BOOLEAN
    BY <1>1 DEF Early, Phases, AnswerInv, OutcomeInv
  <2> QED
    BY <1>1, <2>1, SettledStep
<1>3. result \in ResultType /\ failureStage \in Stages /\ result.diagnostic = {} /\ ~result.applied
  BY <1>1 DEF AnswerInv, ResultInv, Finished, Early
<1>4. ResultInv'
  <2>1. CASE err # "none"
    <3> DEFINE status == IF failureStage = "evaluated" THEN "rejected" ELSE "failed"
    <3>1. /\ result' = [result EXCEPT !.stage = failureStage, !.status = status, !.failures = hostFailures]
          /\ phase' = IF cancelled THEN "answer" ELSE "diagnose"
      BY <2>1 DEF finishHostChange
    <3>2. hostFailures \in {"none", "commands", "stage"} /\ status \in {"rejected", "failed"}
      BY DEF hostFailures
    <3> HIDE DEF status
    <3>3. /\ result' \in ResultType /\ result'.stage = failureStage /\ result'.status = status
          /\ result'.failures = hostFailures /\ result'.applied = result.applied
          /\ result'.diagnostic = result.diagnostic
      BY <1>3, <3>1, <3>2 DEF ResultType
    <3>4. hostFailures' = hostFailures
      BY <1>1 DEF hostFailures
    <3> QED
      BY <1>1, <1>3, <2>1, <3>1, <3>2, <3>3, <3>4 DEF ResultInv, Finished, Early
  <2>2. CASE err = "none"
    <3> DEFINE stage == IF changes = << >> THEN "evaluated" ELSE IF AppliedMode THEN "applied" ELSE "translated"
               status == IF changes = << >> THEN "already-satisfied" ELSE "succeeded"
               applied == changes # << >> /\ AppliedMode
    <3>1. /\ result' = [result EXCEPT !.stage = stage, !.status = status, !.applied = applied]
          /\ phase' = "outcome"
      BY <2>2 DEF finishHostChange
    <3>2. /\ stage \in Stages /\ status \in {"already-satisfied", "succeeded"} /\ applied \in BOOLEAN
          /\ changes # << >> /\ mode = "apply" => stage = "applied"
          /\ applied => changes # << >> /\ mode = "apply"
          /\ status = "succeeded" => changes # << >>
      BY DEF AppliedMode, Stages
    <3> HIDE DEF stage, status, applied
    <3>3. /\ result' \in ResultType /\ result'.stage = stage /\ result'.status = status
          /\ result'.applied = applied /\ result'.diagnostic = result.diagnostic
      BY <1>3, <3>1, <3>2 DEF ResultType
    <3> QED
      BY <1>1, <1>3, <2>2, <3>1, <3>2, <3>3 DEF ResultInv, Finished, Early
  <2> QED
    BY <2>1, <2>2
<1>5. HookInv'
  <2>1. PICK routed \in BOOLEAN : hook' = [hook EXCEPT !.routed = routed]
    BY DEF finishHostChange
  <2>2. hook \in HookType /\ hook.ran = << >>
    BY <1>1 DEF AnswerInv, HookInv, Finished, Early
  <2>3. hook' \in HookType /\ hook'.ran = << >>
    BY <2>1, <2>2 DEF HookType
  <2> QED
    BY <1>1, <2>3 DEF HookInv
<1> QED
  BY <1>2, <1>4, <1>5 DEF AnswerInv

\* A step of the hooks keeps the answer as far as it is written, except for
\* the diagnostic.
LEMMA SaysStep ==
  ASSUME AnswerInv, phase \in {"diagnose", "errorHooks", "outcome", "outcomeHooks"},
         phase' \in {"errorHooks", "outcome", "outcomeHooks", "answer"},
         NEW texts \in SUBSET {"failure", "warning"}, Says(texts), HookStep, cancelled' \in BOOLEAN,
         cancelled => cancelled',
         IF phase = "diagnose" THEN "failure" \in texts ELSE "failure" \notin texts
  PROVE  ScriptInv' /\ OutcomeInv' /\ ResultInv'
<1>1. ScriptInv' /\ OutcomeInv'
  <2>1. ~Early /\ ~Early' /\ phase' \in Phases
    BY DEF Early, Phases
  <2> QED
    BY <2>1, SettledStep DEF HookStep
<1>2. result \in ResultType
  BY DEF AnswerInv, ResultInv
<1>3. /\ result' \in ResultType /\ result'.stage = result.stage /\ result'.status = result.status
      /\ result'.failures = result.failures /\ result'.applied = result.applied
      /\ result'.diagnostic = result.diagnostic \cup texts
  BY <1>2 DEF Says, ResultType
<1>4. UNCHANGED <<mode, changes, err, rejections, failureStage>>
  BY DEF HookStep
<1>5. hostFailures' = hostFailures
  BY <1>4 DEF hostFailures
<1>6. "failure" \in result'.diagnostic <=> ("failure" \in result.diagnostic \/ phase = "diagnose")
  BY <1>3
<1> QED
  BY <1>1, <1>3, <1>4, <1>5, <1>6 DEF AnswerInv, ResultInv, Finished, Early

\* The hooks of an event start with none of them run, or there are none.
LEMMA StartsStep ==
  ASSUME AnswerInv, NEW runs \in Nat, NEW hooks, NEW next, Starts(runs, hooks, next), err' = err,
         \/ phase = "diagnose" /\ hooks = "errorHooks" /\ next = "outcome" /\ (runs > 0 => ErrorHooksDue)
         \/ phase = "outcome" /\ hooks = "outcomeHooks" /\ next = "answer" /\ (runs > 0 => hook.routed)
  PROVE  HookInv' /\ phase' \in {"errorHooks", "outcome", "outcomeHooks", "answer"}
<1>1. hook \in HookType /\ hook' = [hook EXCEPT !.left = runs, !.late = FALSE]
  BY DEF AnswerInv, HookInv, Starts
<1>2. hook' \in HookType /\ hook'.routed = hook.routed /\ hook'.left = runs /\ hook'.ran = hook.ran
  BY <1>1 DEF HookType
<1>3. /\ phase = "diagnose" => hook.ran = << >>
      /\ phase = "outcome" /\ hook.routed => hook.ran = << >>
  BY DEF AnswerInv, HookInv
<1>4. \A i \in DOMAIN hook.ran :
        /\ hook.ran[i][1] = "errorHooks" <=> ~hook.routed
        /\ hook.ran[i][1] = "errorHooks" => err = "rejected"
        /\ hook.ran[i][2] = "killed" => i = Len(hook.ran)
  BY DEF AnswerInv, HookInv
<1>5. CASE phase = "diagnose" /\ hooks = "errorHooks" /\ next = "outcome" /\ (runs > 0 => ErrorHooksDue)
  <2>1. phase' = IF runs = 0 THEN "outcome" ELSE "errorHooks"
    BY <1>5 DEF Starts
  <2>2. runs > 0 => ~hook.routed /\ err = "rejected"
    BY <1>5 DEF ErrorHooksDue, AnswerInv, OutcomeInv
  <2>3. hook'.ran = << >>
    BY <1>2, <1>3, <1>5
  <2> QED
    BY <1>2, <2>1, <2>2, <2>3 DEF HookInv, Finished, Early
<1>6. CASE phase = "outcome" /\ hooks = "outcomeHooks" /\ next = "answer" /\ (runs > 0 => hook.routed)
  <2>1. phase' = IF runs = 0 THEN "answer" ELSE "outcomeHooks"
    BY <1>6 DEF Starts
  <2>2. CASE runs = 0
    BY <1>2, <1>4, <2>1, <2>2 DEF HookInv, Finished, Early
  <2>3. CASE runs # 0
    <3>1. hook.routed /\ hook'.ran = << >>
      BY <1>2, <1>3, <1>6, <2>3
    <3> QED
      BY <1>2, <2>1, <2>3, <3>1 DEF HookInv, Finished, Early
  <2> QED
    BY <2>1, <2>2, <2>3
<1> QED
  BY <1>5, <1>6

LEMMA DiagnoseAnswer ==
  ASSUME AnswerInv, evaluationDiagnostic
  PROVE  AnswerInv'
<1>1. phase = "diagnose" /\ HookStep /\ cancelled' = cancelled /\ cancelled \in BOOLEAN /\ err' = err
  BY DEF evaluationDiagnostic, AnswerInv, OutcomeInv, HookStep
<1>2. \E runs \in Nat, texts \in SUBSET {"failure", "warning"} :
        /\ Says(texts) /\ "failure" \in texts /\ Starts(runs, "errorHooks", "outcome")
        /\ runs > 0 => ErrorHooksDue
  <2>1. CASE Says({"failure"}) /\ Starts(0, "errorHooks", "outcome")
    BY <2>1
  <2>2. CASE Says({"failure", "warning"}) /\ Starts(0, "errorHooks", "outcome")
    BY <2>2
  <2>3. CASE /\ ErrorHooksDue
             /\ \E configured \in readSettings \ {0}, named \in {1, 2} :
                  /\ configured # Broken
                  /\ Says({"failure"}) /\ Starts(configured * named, "errorHooks", "outcome")
    <3>1. PICK configured \in readSettings \ {0}, named \in {1, 2} :
            configured # Broken /\ Says({"failure"}) /\ Starts(configured * named, "errorHooks", "outcome")
      BY <2>3
    <3>2. configured \in Nat
      BY <3>1, WorkspaceAssumption DEF readSettings
    <3>3. configured * named \in Nat
      BY <3>1, <3>2
    <3> QED
      BY <2>3, <3>1, <3>3
  <2> QED
    BY <2>1, <2>2, <2>3 DEF evaluationDiagnostic
<1>3. PICK runs \in Nat, texts \in SUBSET {"failure", "warning"} :
        /\ Says(texts) /\ "failure" \in texts /\ Starts(runs, "errorHooks", "outcome")
        /\ runs > 0 => ErrorHooksDue
  BY <1>2
<1>4. HookInv' /\ phase' \in {"errorHooks", "outcome", "outcomeHooks", "answer"}
  BY <1>1, <1>3, StartsStep
<1>5. ScriptInv' /\ OutcomeInv' /\ ResultInv'
  BY <1>1, <1>3, <1>4, SaysStep
<1> QED
  BY <1>4, <1>5 DEF AnswerInv

LEMMA OutcomeAnswer ==
  ASSUME AnswerInv, runOutcomeHooks
  PROVE  AnswerInv'
<1>1. phase = "outcome" /\ HookStep /\ cancelled' = cancelled /\ cancelled \in BOOLEAN /\ err' = err
  BY DEF runOutcomeHooks, AnswerInv, OutcomeInv, HookStep
<1>0. UNCHANGED result => Says({})
  <2>1. result \in ResultType
    BY DEF AnswerInv, ResultInv
  <2>2. [result EXCEPT !.diagnostic = @ \cup {}] = result
    BY <2>1 DEF ResultType
  <2> QED
    BY <2>2 DEF Says
<1>2. \E runs \in Nat, texts \in SUBSET {"failure", "warning"} :
        /\ Says(texts) /\ "failure" \notin texts /\ Starts(runs, "outcomeHooks", "answer")
        /\ runs > 0 => hook.routed
  <2>1. CASE hook.routed /\ Says({"warning"}) /\ Starts(0, "outcomeHooks", "answer")
    BY <2>1
  <2>2. CASE UNCHANGED result /\ Starts(0, "outcomeHooks", "answer")
    BY <1>0, <2>2
  <2>3. CASE /\ hook.routed
             /\ \E configured \in readSettings :
                  configured # Broken /\ UNCHANGED result /\ Starts(configured, "outcomeHooks", "answer")
    <3>1. PICK configured \in readSettings :
            configured # Broken /\ UNCHANGED result /\ Starts(configured, "outcomeHooks", "answer")
      BY <2>3
    <3>2. configured \in Nat
      BY <3>1, WorkspaceAssumption DEF readSettings
    <3> QED
      BY <1>0, <2>3, <3>1, <3>2
  <2> QED
    BY <2>1, <2>2, <2>3 DEF runOutcomeHooks
<1>3. PICK runs \in Nat, texts \in SUBSET {"failure", "warning"} :
        /\ Says(texts) /\ "failure" \notin texts /\ Starts(runs, "outcomeHooks", "answer")
        /\ runs > 0 => hook.routed
  BY <1>2
<1>4. HookInv' /\ phase' \in {"errorHooks", "outcome", "outcomeHooks", "answer"}
  BY <1>1, <1>3, StartsStep
<1>5. ScriptInv' /\ OutcomeInv' /\ ResultInv'
  BY <1>1, <1>3, <1>4, SaysStep
<1> QED
  BY <1>4, <1>5 DEF AnswerInv

\* One hook ran, with the given end, or was skipped.
LEMMA RanStep ==
  ASSUME AnswerInv, phase \in {"errorHooks", "outcomeHooks"}, err' = err, hook' \in HookType,
         hook'.routed = hook.routed, NEW ends \in {"unrendered", "ok", "failed", "killed"},
         hook'.left = LeftAfter(ends),
         \/ hook'.ran = hook.ran
         \/ ends # "unrendered" /\ hook'.ran = Append(hook.ran, <<phase, ends>>),
         phase' = IF hook'.left > 0 THEN phase ELSE IF phase = "errorHooks" THEN "outcome" ELSE "answer"
  PROVE  HookInv'
<1> DEFINE R == {"errorHooks", "outcomeHooks"} \X {"ok", "failed", "killed"}
           n == Len(hook.ran) + 1
<1>1. /\ hook \in HookType /\ hook.left > 0 /\ \A i \in DOMAIN hook.ran : hook.ran[i][2] # "killed"
      /\ phase = "errorHooks" => ~hook.routed /\ err = "rejected"
      /\ phase = "outcomeHooks" => hook.routed
      /\ \A i \in DOMAIN hook.ran : /\ hook.ran[i][1] = "errorHooks" <=> ~hook.routed
                                    /\ hook.ran[i][1] = "errorHooks" => err = "rejected"
  BY DEF AnswerInv, HookInv
<1>2. hook.ran \in Seq(R) /\ Len(hook.ran) \in Nat /\ DOMAIN hook.ran = 1..Len(hook.ran)
  BY <1>1 DEF HookType
<1>3. ends = "killed" => hook'.left = 0
  BY DEF LeftAfter
<1>4. Finished' /\ phase' # "diagnose" /\ (phase' = "outcome" => ~hook'.routed)
  BY <1>1 DEF Finished, Early
<1>5. CASE hook'.ran = hook.ran
  BY <1>1, <1>4, <1>5 DEF HookInv
<1>6. CASE ends # "unrendered" /\ hook'.ran = Append(hook.ran, <<phase, ends>>)
  <2>1. <<phase, ends>> \in R
    BY <1>6
  <2> HIDE DEF R
  <2>2. /\ DOMAIN hook'.ran = 1..n /\ Len(hook'.ran) = n /\ hook'.ran[n] = <<phase, ends>>
        /\ \A i \in 1..Len(hook.ran) : hook'.ran[i] = hook.ran[i]
    BY <1>2, <1>6, <2>1
  <2>3. ASSUME NEW i \in DOMAIN hook'.ran
        PROVE  /\ hook'.ran[i][1] = "errorHooks" <=> ~hook'.routed
               /\ hook'.ran[i][1] = "errorHooks" => err' = "rejected"
               /\ hook'.ran[i][2] = "killed" => i = n /\ hook'.left = 0
    <3>1. CASE i = n
      BY <1>1, <1>3, <2>2, <3>1
    <3>2. CASE i # n
      <4>1. i \in DOMAIN hook.ran /\ hook'.ran[i] = hook.ran[i]
        BY <1>2, <2>2, <3>2
      <4> QED
        BY <1>1, <4>1
    <3> QED
      BY <3>1, <3>2
  <2> HIDE DEF n
  <2>4. phase' \in {"errorHooks", "outcomeHooks"} => hook'.left > 0 /\ phase' = phase /\ hook'.left # 0
    BY <1>2
  <2> QED
    BY <1>1, <1>4, <2>2, <2>3, <2>4 DEF HookInv
<1> QED
  BY <1>5, <1>6

LEMMA HookAnswer ==
  ASSUME AnswerInv, runRenderedHook
  PROVE  AnswerInv'
<1>1. phase \in {"errorHooks", "outcomeHooks"} /\ HookStep /\ err' = err /\ hook \in HookType
      /\ hook.left > 0 /\ cancelled \in BOOLEAN
  BY DEF runRenderedHook, HookStep, AnswerInv, HookInv, OutcomeInv
<1>2. PICK ends \in {"unrendered", "ok", "failed", "killed"} :
        /\ Says(IF ends = "ok" THEN {} ELSE {"warning"})
        /\ IF ends = "killed" /\ ~Expired
           THEN \E gone \in BOOLEAN : cancelled' = gone /\ hook' = [hook EXCEPT
                  !.left = LeftAfter(ends), !.late = ~gone, !.ran = Append(@, <<phase, ends>>)]
           ELSE UNCHANGED cancelled /\ hook' = [hook EXCEPT !.left = LeftAfter(ends),
                  !.ran = IF ends \in {"ok", "failed"} THEN Append(@, <<phase, ends>>) ELSE @]
        /\ phase' = IF hook'.left > 0 THEN phase ELSE IF phase = "errorHooks" THEN "outcome" ELSE "answer"
  BY DEF runRenderedHook
<1> DEFINE R == {"errorHooks", "outcomeHooks"} \X {"ok", "failed", "killed"}
<1>3. LeftAfter(ends) \in Nat
  BY <1>1 DEF LeftAfter, HookType
<1>4. hook.ran \in Seq(R)
  BY <1>1 DEF HookType
<1>5. ends # "unrendered" => Append(hook.ran, <<phase, ends>>) \in Seq(R)
  <2> SUFFICES ASSUME ends # "unrendered" PROVE Append(hook.ran, <<phase, ends>>) \in Seq(R)
    OBVIOUS
  <2>1. <<phase, ends>> \in R
    BY <1>1
  <2> HIDE DEF R
  <2> QED
    BY <1>4, <2>1
<1>6. /\ cancelled' \in BOOLEAN /\ (cancelled => cancelled')
      /\ hook' \in HookType /\ hook'.routed = hook.routed /\ hook'.left = LeftAfter(ends)
      /\ \/ hook'.ran = hook.ran
         \/ ends # "unrendered" /\ hook'.ran = Append(hook.ran, <<phase, ends>>)
  <2>1. CASE ends = "killed" /\ ~Expired
    <3>1. PICK gone \in BOOLEAN : cancelled' = gone /\ hook' = [hook EXCEPT
                  !.left = LeftAfter(ends), !.late = ~gone, !.ran = Append(@, <<phase, ends>>)]
      BY <1>2, <2>1
    <3>2. ~cancelled
      BY <2>1 DEF Expired
    <3> HIDE DEF LeftAfter
    <3> QED
      BY <1>1, <1>3, <1>5, <2>1, <3>1, <3>2 DEF HookType
  <2>2. CASE ~(ends = "killed" /\ ~Expired)
    <3> DEFINE ran == IF ends \in {"ok", "failed"} THEN Append(hook.ran, <<phase, ends>>) ELSE hook.ran
    <3>1. UNCHANGED cancelled /\ hook' = [hook EXCEPT !.left = LeftAfter(ends), !.ran = ran]
      BY <1>2, <2>2
    <3>2. ran \in Seq(R) /\ (ran = hook.ran \/ (ends # "unrendered" /\ ran = Append(hook.ran, <<phase, ends>>)))
      BY <1>4, <1>5
    <3> HIDE DEF ran
    <3> QED
      BY <1>1, <1>3, <3>1, <3>2 DEF HookType
  <2> QED
    BY <2>1, <2>2
<1>7. HookInv'
  BY <1>1, <1>2, <1>6, RanStep
<1>8. phase' \in {"errorHooks", "outcome", "outcomeHooks", "answer"}
  BY <1>1, <1>2
<1>9. ScriptInv' /\ OutcomeInv' /\ ResultInv'
  <2> DEFINE texts == IF ends = "ok" THEN {} ELSE {"warning"}
  <2>1. Says(texts) /\ texts \in SUBSET {"failure", "warning"} /\ "failure" \notin texts
    BY <1>2
  <2> HIDE DEF texts
  <2> QED
    BY <1>1, <1>6, <1>8, <2>1, SaysStep
<1> QED
  BY <1>7, <1>9 DEF AnswerInv

LEMMA AnswersAnswer ==
  ASSUME AnswerInv, answers
  PROVE  AnswerInv'
<1> DEFINE returned == IF cancelled THEN "ctx" ELSE IF err = "none" THEN "nil" ELSE "error"
           diagnostic == IF cancelled THEN {} ELSE result.diagnostic
<1>1. /\ phase = "answer" /\ phase' = "done" /\ HookStep /\ UNCHANGED <<cancelled, hook>>
      /\ result' = [result EXCEPT !.published = Publishes, !.diagnostic = diagnostic, !.returned = returned]
      /\ cancelled \in BOOLEAN
  BY DEF answers, AnswerInv, OutcomeInv
<1>2. UNCHANGED <<mode, changes, err, rejections, failureStage>>
  BY <1>1 DEF HookStep
<1>3. ScriptInv' /\ OutcomeInv'
  <2>1. ~Early /\ ~Early' /\ phase' \in Phases
    BY <1>1 DEF Early, Phases
  <2> QED
    BY <1>1, <2>1, SettledStep DEF HookStep
<1>4. result \in ResultType /\ Publishes \in BOOLEAN /\ diagnostic \in SUBSET {"failure", "warning"}
      /\ returned \in {"none", "nil", "error", "ctx"}
  BY DEF AnswerInv, ResultInv, ResultType, Publishes
<1>5. /\ result' \in ResultType /\ result'.stage = result.stage /\ result'.status = result.status
      /\ result'.failures = result.failures /\ result'.applied = result.applied
      /\ result'.diagnostic = diagnostic /\ result'.published = Publishes /\ result'.returned = returned
  <2> HIDE DEF returned, diagnostic
  <2> QED
    BY <1>1, <1>4 DEF ResultType
<1>6. hostFailures' = hostFailures
  BY <1>2 DEF hostFailures
<1>7. ResultInv'
  BY <1>1, <1>2, <1>5, <1>6 DEF AnswerInv, ResultInv, Finished, Early, Publishes
<1>8. HookInv'
  BY <1>1, <1>2 DEF AnswerInv, HookInv, Finished, Early
<1> QED
  BY <1>3, <1>7, <1>8 DEF AnswerInv

LEMMA CancelAnswer ==
  ASSUME AnswerInv, cancel
  PROVE  AnswerInv'
<1>1. /\ phase # "done" /\ cancelled' = TRUE /\ UNCHANGED <<mode, count, phase>> /\ UNCHANGED wsVars /\ UNCHANGED hostVars
  BY DEF cancel
<1>2. UNCHANGED <<files, reported, failures>> /\ UNCHANGED <<changes, err, rejections, failureStage, written, result, hook>>
  BY <1>1 DEF wsVars, hostVars
<1>3. ScriptInv'
  BY <1>1, <1>2 DEF AnswerInv, ScriptInv, ReportInv, Rendered
<1>4. OutcomeInv'
  BY <1>1, <1>2 DEF AnswerInv, OutcomeInv, Early
<1>5. hostFailures' = hostFailures
  BY <1>2 DEF hostFailures
<1>6. ResultInv'
  BY <1>1, <1>2, <1>5 DEF AnswerInv, ResultInv, Finished, Early
<1>7. HookInv'
  BY <1>1, <1>2 DEF AnswerInv, HookInv, Finished, Early
<1> QED
  BY <1>3, <1>4, <1>6, <1>7 DEF AnswerInv

LEMMA StutterAnswer ==
  ASSUME AnswerInv, UNCHANGED vars
  PROVE  AnswerInv'
<1>1. UNCHANGED <<mode, count, phase, cancelled>> /\ UNCHANGED wsVars /\ UNCHANGED hostVars
  BY DEF vars
<1>2. UNCHANGED <<files, reported, failures>> /\ UNCHANGED <<changes, err, rejections, failureStage, written, result, hook>>
  BY <1>1 DEF wsVars, hostVars
<1>3. ScriptInv'
  BY <1>1, <1>2 DEF AnswerInv, ScriptInv, ReportInv, Rendered
<1>4. OutcomeInv'
  BY <1>1, <1>2 DEF AnswerInv, OutcomeInv, Early
<1>5. hostFailures' = hostFailures
  BY <1>2 DEF hostFailures
<1>6. ResultInv'
  BY <1>1, <1>2, <1>5 DEF AnswerInv, ResultInv, Finished, Early
<1>7. HookInv'
  BY <1>1, <1>2 DEF AnswerInv, HookInv, Finished, Early
<1> QED
  BY <1>3, <1>4, <1>6, <1>7 DEF AnswerInv

LEMMA AnswerInit ==
  ASSUME Init
  PROVE  AnswerInv
<1>1. /\ mode \in {"apply", "translate"} /\ files = << >> /\ reported = << >> /\ failures = {}
      /\ count = 0 /\ cancelled = FALSE /\ phase = "open" /\ changes = << >> /\ err = "none"
      /\ rejections = {} /\ failureStage = "" /\ written = "no"
  BY DEF Init
<1>2. result = [stage |-> "", status |-> "", applied |-> FALSE, published |-> FALSE,
               returned |-> "none", diagnostic |-> {}, failures |-> "none"]
  BY DEF Init
<1>3. hook = [routed |-> FALSE, left |-> 0, late |-> FALSE, ran |-> << >>]
  BY DEF Init
<1>4. ScriptInv
  <2>0. files = << >> /\ reported = << >>
    BY <1>1
  <2>1. ReportInv
    BY <2>0 DEF ReportInv
  <2>2. DOMAIN files = {}
    BY <2>0
  <2> QED
    BY <1>1, <2>1, <2>2 DEF ScriptInv
<1>5. OutcomeInv
  BY <1>1 DEF OutcomeInv, Phases, Errors, Early
<1>6. ResultInv
  <2>1. result \in ResultType /\ ~result.applied /\ result.diagnostic = {}
    BY <1>2 DEF ResultType, Stages
  <2> QED
    BY <1>1, <2>1 DEF ResultInv, Stages, Finished, Early
<1>7. HookInv
  <2>1. hook \in HookType /\ hook.ran = << >>
    BY <1>3 DEF HookType
  <2>2. DOMAIN hook.ran = {}
    BY <2>1
  <2> QED
    BY <1>1, <2>1, <2>2 DEF HookInv
<1> QED
  BY <1>4, <1>5, <1>6, <1>7 DEF AnswerInv

LEMMA AnswerStep ==
  ASSUME WorkspaceInv, AnswerInv, [Next]_vars
  PROVE  AnswerInv'
<1>1. CASE evaluateScript
  BY <1>1, OpenAnswer
<1>2. ASSUME NEW p \in Names, NEW spelling \in Spellings,
             selectFile(p, spelling) \/ newFile(p, spelling) \/ moveFile(p, spelling)
      PROVE  AnswerInv'
  <2>1. CASE moveFile(p, spelling)
    <3>1. ScriptInv'
      BY <2>1, MoveGoes DEF AnswerInv
    <3>2. Step /\ phase' = "evaluate" /\ UNCHANGED <<err, rejections, failureStage>>
      BY <2>1 DEF moveFile, Goes
    <3> QED
      BY <3>1, <3>2, GoesStep
  <2> QED
    BY <1>2, <2>1, SelectAnswer, NewAnswer
<1>3. CASE \E spelling \in Spellings : refusesPath(spelling)
  BY <1>3, StopStep DEF refusesPath
<1>4. CASE removeFile
  <2>1. ScriptInv'
    BY <1>4, RemoveGoes DEF AnswerInv
  <2>2. Step /\ phase' = "evaluate" /\ UNCHANGED <<err, rejections, failureStage>>
    BY <1>4 DEF removeFile, Goes
  <2> QED
    BY <2>1, <2>2, GoesStep
<1>5. ASSUME NEW empty \in BOOLEAN, NEW ends \in Endings, initialize(empty, ends) PROVE AnswerInv'
  <2>1. ScriptInv'
    BY <1>5, InitializeGoes DEF AnswerInv
  <2>2. Step /\ phase' = "evaluate" /\ UNCHANGED <<err, rejections, failureStage>>
    BY <1>5 DEF initialize, Goes
  <2> QED
    BY <2>1, <2>2, GoesStep
<1>6. ASSUME NEW effect \in Effects, NEW ends \in Endings, NEW indents \in BOOLEAN, applyMutation(effect, ends, indents)
      PROVE  AnswerInv'
  <2>1. ScriptInv'
    BY <1>6, MutationGoes DEF AnswerInv
  <2>2. Step /\ phase' = "evaluate" /\ UNCHANGED <<err, rejections, failureStage>>
    BY <1>6 DEF applyMutation, Goes
  <2> QED
    BY <2>1, <2>2, GoesStep
<1>7. CASE baselineFailure
  BY <1>7, FailureAnswer
<1>8. CASE commandFails
  BY <1>8, StopStep DEF commandFails
<1>9. CASE stopsEarly
  <2>1. /\ phase \in {"open", "evaluate", "render"} /\ Rejected("ctx", {}) /\ cancelled
        /\ UNCHANGED <<mode, cancelled, changes, written, result, hook>> /\ count' \in Nat
    BY <1>9 DEF stopsEarly, AnswerInv, ScriptInv
  <2>2. Refusal("ctx", {})
    BY <2>1 DEF Refusal
  <2> QED
    BY <2>1, <2>2, RefusalStep
<1>10. CASE evaluated \/ renderFinal
  BY <1>10, EvaluatedAnswer, RenderAnswer
<1>11. CASE applyEffect \/ translateEffect \/ finishHostChange
  BY <1>11, EffectAnswer, FinishAnswer
<1>12. CASE evaluationDiagnostic \/ runOutcomeHooks \/ runRenderedHook \/ answers
  BY <1>12, DiagnoseAnswer, OutcomeAnswer, HookAnswer, AnswersAnswer
<1>13. CASE cancel \/ UNCHANGED vars
  BY <1>13, CancelAnswer, StutterAnswer
<1> QED
  BY <1>1, <1>2, <1>3, <1>4, <1>5, <1>6, <1>7, <1>8, <1>9, <1>10, <1>11, <1>12, <1>13 DEF Next

\* The invariant tells the caller what happened.
LEMMA AnswerTells ==
  ASSUME AnswerInv
  PROVE  CallerIsTold
<1>1. /\ \A i \in DOMAIN reported :
           Live(files[reported[i].file]) /\ reported[i].command \in files[reported[i].file].edits
      /\ \A i, j \in DOMAIN reported : i < j => reported[i].command < reported[j].command
  BY DEF AnswerInv, ScriptInv, ReportInv
<1>2. failures # {} => changes = << >> /\ phase = "evaluate"
  BY DEF AnswerInv, ScriptInv, OutcomeInv
<1>3. (err = "rejected" <=> rejections # {}) /\ \A c \in rejections : 1 <= c /\ (c <= count \/ count = 0)
  BY DEF AnswerInv, OutcomeInv
<1>4. ASSUME phase = "done"
      PROVE  /\ written # "no" => result.stage = "applied" /\ mode = "apply"
             /\ result.applied => written = "yes"
             /\ result.published <=> result.returned = "nil"
             /\ result.returned = "nil" /\ changes # << >> /\ mode = "apply" => written = "yes"
             /\ result.status = "succeeded" /\ mode = "apply" => written = "yes"
             /\ result.returned = "ctx" <=> cancelled
             /\ result.returned = "ctx" => result.diagnostic = {}
             /\ "failure" \in result.diagnostic <=> result.returned = "error"
             /\ result.returned = "error" => result.failures # "none"
  <2>1. Finished /\ ~Early
    BY <1>4 DEF Finished, Early
  <2>2. /\ result.published <=> err = "none" /\ ~cancelled
        /\ result.returned = IF cancelled THEN "ctx" ELSE IF err = "none" THEN "nil" ELSE "error"
        /\ cancelled => result.diagnostic = {}
        /\ cancelled \/ ("failure" \in result.diagnostic <=> err # "none")
    BY <1>4 DEF AnswerInv, ResultInv
  <2>3. /\ err # "none" => /\ result.stage = failureStage /\ ~result.applied
                           /\ result.status \in {"rejected", "failed"} /\ result.failures = hostFailures
        /\ err = "none" =>
             /\ changes # << >> /\ mode = "apply" => result.stage = "applied"
             /\ result.applied => changes # << >> /\ mode = "apply"
             /\ result.status = "succeeded" => changes # << >>
    BY <2>1 DEF AnswerInv, ResultInv
  <2>4. /\ err = "none" => written = IF mode = "apply" /\ changes # << >> THEN "yes" ELSE "no"
        /\ err \notin {"none", "commit"} => written = "no"
        /\ err = "commit" => mode = "apply" /\ failureStage = "applied"
        /\ err = "ctx" => cancelled
        /\ err \notin {"none", "ctx"} => failureStage # ""
    BY <2>1 DEF AnswerInv, OutcomeInv
  <2>5. hostFailures = "none" => failureStage = ""
    BY DEF hostFailures
  <2>6. CASE err = "none"
    BY <2>2, <2>3, <2>4, <2>6
  <2>7. CASE err # "none"
    BY <2>2, <2>3, <2>4, <2>5, <2>7
  <2> QED
    BY <2>6, <2>7
<1>5. \A i \in DOMAIN hook.ran :
        /\ hook.ran[i][1] = "errorHooks" <=> ~hook.routed
        /\ hook.ran[i][1] = "errorHooks" => err = "rejected"
        /\ hook.ran[i][2] = "killed" => i = Len(hook.ran)
  BY DEF AnswerInv, HookInv
<1> QED
  BY <1>1, <1>2, <1>3, <1>4, <1>5 DEF CallerIsTold, HonestAnswer, HooksOnlyReport

\* The host is told the truth whenever the caller gave up, and the hooks only
\* report it (run.go:470-553, hooks.go:82-122).
THEOREM CallerKnows == Spec => []CallerIsTold
<1>1. Init => WorkspaceInv /\ count \in Nat /\ AnswerInv
  <2>1. Init => count = 0
    BY DEF Init
  <2> QED
    BY <2>1, WorkspaceInit, AnswerInit
<1>2. WorkspaceInv /\ count \in Nat /\ AnswerInv /\ [Next]_vars => (WorkspaceInv /\ count \in Nat /\ AnswerInv)'
  BY WorkspaceStep, AnswerStep
<1>3. AnswerInv => CallerIsTold
  BY AnswerTells
<1> QED
  BY <1>1, <1>2, <1>3, PTL DEF Spec
=============================================================================
