-------------------------------- MODULE MCDream --------------------------------
(* Instances of Dream for TLC: documents each with a name and a file of its  *)
(* own, two sections of one file, two files of one name.                    *)
EXTENDS Dream

CONSTANTS d1, d2

TwoDocs == <<d1, d2>>
Apart == [name |-> [d \in Docs |-> d], file |-> [d \in Docs |-> d]]
Sections == [Apart EXCEPT !.file[d2] = d1]
Namesakes == [Apart EXCEPT !.name[d2] = d1]

AllLayouts == {Apart, Sections, Namesakes}
================================================================================
