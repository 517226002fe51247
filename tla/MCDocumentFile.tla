--------------------------- MODULE MCDocumentFile ----------------------------
(* Three paths, documents that meet each refusal once, and files of another *)
(* program with resources of odd lengths, with names, unknown ones, and two *)
(* of a kind.                                                               *)
EXTENDS DocumentFile, TLC

MCExtension == [p \in Paths |-> IF p = "capital" THEN "PSD" ELSE p]

MCProfile(size, declared) == [name |-> "icc", size |-> size, declared |-> declared]
MCProfiles == {MCProfile(131, 131), MCProfile(132, 131)}

MCSettings(side, mode, depth, dpi, profile) ==
  [side |-> side, mode |-> mode, depth |-> depth, dpi |-> dpi, profile |-> profile]

MCCreated ==
  {MCSettings(20, "rgb", 8, 72, NoProfile) @@ [layers |-> "sound", merged |-> 20],
   MCSettings(20, "indexed", 8, 72, NoProfile) @@ [layers |-> "unwritable", merged |-> 0],
   MCSettings(20, "rgb", 16, 72, NoProfile) @@ [layers |-> "unwritable", merged |-> 0],
   MCSettings(30001, "grayscale", 32, 300, MCProfile(130, 130)) @@ [layers |-> "sound", merged |-> 0]}

MCResource(kind, name, val, size) == [kind |-> kind, name |-> name, val |-> val, size |-> size]
MCResolution == MCResource("resolution", 0, 150, 16)

MCOther(version, settings, color, resources) ==
  [version |-> version, settings |-> settings, color |-> color, resources |-> resources]

MCOthers ==
  {MCOther("psd", MCSettings(30, "indexed", 8, 150, MCProfile(131, 131)), 768,
           <<MCResource("profile", 0, MCProfile(131, 131), 131), MCResolution>>),
   MCOther("psb", MCSettings(30, "rgb", 16, 72, NoProfile), 0,
           <<MCResource("other", 253, 0, 5), MCResource("other", 4, 0, 0)>>),
   MCOther("psd", MCSettings(30, "bitmap", 1, 150, NoProfile), 0, <<MCResolution>>),
   MCOther("psd", MCSettings(30, "rgb", 8, 150, MCProfile(131, 131)), 0,
           <<MCResource("profile", 0, MCProfile(131, 131), 131), MCResolution,
             MCResource("resolution", 0, 300, 16),
             MCResource("profile", 0, MCProfile(140, 140), 140)>>),
   MCOther("psd", MCSettings(30, "rgb", 32, 72, NoProfile), 112, <<>>)}

\* Names as long as their length byte allows.
MCLongNames ==
  {MCOther("psd", MCSettings(30, "rgb", 8, 150, NoProfile), 0,
           <<MCResource("other", name, 0, 4), MCResolution>>) : name \in {254, 255}}
=============================================================================
