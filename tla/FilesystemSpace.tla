-------------------------- MODULE FilesystemSpace --------------------------
(***************************************************************************)
(* lib/snmpy/module/filesystem_space.py: the mounts are listed, then each  *)
(* mount point is asked for its figures by its path, while filesystems are *)
(* mounted and unmounted.                                                  *)
(***************************************************************************)
EXTENDS Updates, FiniteSetsExt

CONSTANTS Root,        \* the device mounted on RootPath
          RootPath,
          Devices,     \* the others
          Paths,       \* where they may be mounted, each in the root filesystem
          Disks,       \* the devices whose name is a path
          Excluded,    \* those of an excluded filesystem type
          Failing,     \* those whose statvfs fails, or finds no blocks
          MaxMounts,   \* bound
          NoFigures

ASSUME MountAssumption == /\ Root \notin Devices /\ RootPath \notin Paths
                          /\ Excluded \subseteq Devices /\ Failing \subseteq Devices
                          /\ Disks \subseteq Devices \cup {Root}
                          /\ NoFigures \notin Devices \cup {Root}
                          /\ MaxMounts \in Nat \ {0}

VARIABLES
  mounts,    \* the mounts, oldest first
  listed,    \* the lines of mountinfo
  next,      \* the one the loop is at
  seen,      \* the devices of the lines it has
  shown      \* history, what could be seen where since the update began

mountVars == <<mounts, listed, next, seen, shown>>

AllDevices == Devices \cup {Root}
Mounts == [dev : AllDevices, path : Paths \cup {RootPath}]

MountTypeOK == /\ mounts \in Seq(Mounts) /\ listed \in Seq(Mounts)
               /\ next \in 1..Len(listed) + 1
               /\ Len(mounts) \in 1..MaxMounts
               /\ seen \subseteq AllDevices \ Excluded
               /\ shown \subseteq AllDevices \X (Paths \cup {RootPath})
               /\ kind = "filesystem_space" =>
                    \A r \in Range(rows) \cup Range(served) :
                      r \in [dev : Disks, path : Paths \cup {RootPath}, of : AllDevices]

\* The filesystem that a path leads to: what was mounted there last, or the one the
\* mount point lies in.  External.
OnTop(path) == LET there == {i \in DOMAIN mounts : mounts[i].path = path}
               IN  IF there = {} THEN Root ELSE mounts[Max(there)].dev

Visible == {<<OnTop(p), p>> : p \in Paths \cup {RootPath}}

\* Kept while the loop runs.
Watch == shown' = IF stage = "loop" THEN shown \cup Visible' ELSE {}

MountInit == /\ mounts = <<[dev |-> Root, path |-> RootPath]>>
             /\ listed = <<>> /\ next = 1 /\ seen = {} /\ shown = {}

\* External.  A device may be mounted on several paths, a path may be mounted over.
Mount == /\ Len(mounts) < MaxMounts
         /\ \E d \in Devices, p \in Paths : mounts' = Append(mounts, [dev |-> d, path |-> p])
         /\ Watch
         /\ UNCHANGED <<frameVars, listed, next, seen>>

Unmount == /\ \E i \in 2..Len(mounts) : mounts' = RemoveAt(mounts, i)
           /\ Watch
           /\ UNCHANGED <<frameVars, listed, next, seen>>

ReadMounts == /\ stage = "update"
              /\ listed' = mounts /\ next' = 1 /\ seen' = {} /\ shown' = Visible
              /\ GoOn("loop")
              /\ UNCHANGED <<rows, mounts>>

\* Mutant: the variable keeps the figures of the mount before.
FiguresKept(path) == IF OnTop(path) \notin Failing THEN OnTop(path)
                     ELSE IF rows = <<>> THEN NoFigures ELSE Last(rows).of

\* os.statvfs.
Figures(path) == IF OnTop(path) \in Failing THEN NoFigures ELSE OnTop(path)

\* Mutant: what counts as seen is the path.
PathSkipped(line) == \/ line.dev \in Excluded
                     \/ \E i \in 1..(next - 1) : listed[i].path = line.path

\* An excluded type, or a device that was seen: an overlay or a duplicate.
Skipped(line) == line.dev \in Excluded \cup seen

NextLine ==
  /\ stage = "loop" /\ next <= Len(listed)
  /\ LET line == listed[next]
         of == Figures(line.path)
     IN  /\ IF Skipped(line) \/ of = NoFigures \/ line.dev \notin Disks THEN UNCHANGED rows
            ELSE Add([dev |-> line.dev, path |-> line.path, of |-> of])
         /\ seen' = IF Skipped(line) THEN seen ELSE seen \cup {line.dev}
  /\ next' = next + 1
  /\ UNCHANGED <<kind, stage, served, mounts, listed, shown>>

LinesDone == /\ stage = "loop" /\ next > Len(listed)
             /\ listed' = <<>> /\ next' = 1 /\ seen' = {} /\ shown' = {}
             /\ GoOn("return")
             /\ UNCHANGED <<rows, mounts>>

MountNext == Mount \/ Unmount \/ ReadMounts \/ NextLine \/ LinesDone

-----------------------------------------------------------------------------
\* A device has one row, however often it is mounted and whatever changes.
OneRowPerDevice ==
  kind = "filesystem_space" =>
    \A i, j \in DOMAIN rows : rows[i].dev = rows[j].dev => i = j

\* The figures of a row are those of a filesystem that its own path led to at some
\* time since the update began, never those of the mount before.  They need not be
\* its own device's: a path that is mounted over, or unmounted since the list was
\* made, leads to another filesystem.
FiguresOfOwnPath ==
  kind = "filesystem_space" /\ stage = "loop" =>
    \A i \in DOMAIN rows : <<rows[i].of, rows[i].path>> \in shown

\* A disk whose first mount in the list could be seen there all the time has its
\* row, with its own figures.
FirstOf(dev) == listed[Min({i \in DOMAIN listed : listed[i].dev = dev})].path
SpaceComplete ==
  kind = "filesystem_space" /\ stage = "loop" /\ next > Len(listed) =>
    \A dev \in {listed[i].dev : i \in DOMAIN listed} \ (Excluded \cup Failing) :
      dev \in Disks /\ (\A s \in shown : s[2] = FirstOf(dev) => s[1] = dev)
        => [dev |-> dev, path |-> FirstOf(dev), of |-> dev] \in Range(rows)
=============================================================================
