---------------------------- MODULE MCRepackTree ----------------------------
(* A root with one archive that holds another one, and a second archive.    *)
EXTENDS RepackTree

MCDirs == {"root", "mid", "leaf", "side"}
MCParent == [d \in MCDirs \ {"root"} |-> IF d = "leaf" THEN "mid" ELSE "root"]
MCBelow == [d \in MCDirs |-> CASE d = "root" -> MCDirs
                               [] d = "mid" -> {"mid", "leaf"}
                               [] OTHER -> {d}]
MCForm == [d \in MCDirs |-> CASE d = "root" -> "txt" [] d = "leaf" -> "png"
                              [] d = "side" -> "obj" [] OTHER -> "none"]
=============================================================================
