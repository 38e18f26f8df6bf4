----------------------------- MODULE Collection -----------------------------
(***************************************************************************)
(* One plugin, of any of the modules that are modelled: the frame of       *)
(* Updates with each of the bodies of update().                            *)
(***************************************************************************)
EXTENDS ProcessInfo, FilesystemSpace, ParsedTables, ItemValues, FileHash

vars == <<frameVars, processVars, mountVars, textVars, itemVars, fileVars>>

Init == /\ kind \in TableKinds \cup {"exec_value", "file_value"}
        /\ FrameInit
        /\ ProcessInit /\ MountInit /\ TextInit /\ ItemInit /\ FileInit
        /\ kind # "file_value" => /\ setting = CHOOSE s \in Settings : TRUE
                                  /\ node = CHOOSE i \in Inodes : TRUE

\* What the body of update() and the commit of items do, and what goes on beside them.
Body ==
  \/ /\ kind = "process_info" /\ ProcessNext
     /\ UNCHANGED <<mountVars, textVars, itemVars, fileVars>>
  \/ /\ kind = "filesystem_space" /\ MountNext
     /\ UNCHANGED <<processVars, textVars, itemVars, fileVars>>
  \/ /\ kind \in TextKinds /\ TextNext
     /\ UNCHANGED <<processVars, mountVars, itemVars, fileVars>>
  \/ /\ kind = "exec_value" /\ ItemNext
     /\ UNCHANGED <<processVars, mountVars, textVars, fileVars>>
  \/ /\ kind = "file_value" /\ FileNext
     /\ UNCHANGED <<processVars, mountVars, textVars, itemVars>>

Frame == FrameStep /\ UNCHANGED <<processVars, mountVars, textVars, itemVars, fileVars>>

Next == Body \/ Frame

Spec == Init /\ [][Next]_vars


TypeOK == /\ kind \in TableKinds \cup {"exec_value", "file_value"}
          /\ stage \in Stages
          /\ kind \notin TableKinds => rows = <<>> /\ served = <<>>
          /\ ProcessTypeOK /\ MountTypeOK /\ ParsedTypeOK /\ ItemTypeOK /\ FileTypeOK
=============================================================================
