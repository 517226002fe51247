---------------------------- MODULE MCTaggedBlocks ----------------------------
(* Sections of two blocks and a name, as another program may have written     *)
(* them, and sections of linked layers.  A template has the bytes of a block  *)
(* and what the reader should have of it.                                     *)
EXTENDS TaggedBlocks

MCBlock(name, length, payload) ==
  Text("8BIM") \o Text(name) \o length \o payload

MCReadable(name, type, key, payload, data) ==
  [bytes |-> MCBlock(name, Number(Len(payload)), payload),
   readable |-> <<[type |-> type, key |-> key, signature |-> "8BIM", data |-> data]>>]

MCLost(name, payload) ==
  [bytes |-> MCBlock(name, Number(Len(payload)), payload), readable |-> <<>>]

MCFill(d, n)  == [i \in 1..n |-> Data(d)]
MCColor(d)    == MCReadable("lclr", "SheetColor", "lrSheetColorSetting",
                            MCFill(d, 2) \o Zeros(6), MCFill(d, 2))
MCName(units, stored) ==
  MCReadable("luni", "UnicodeLayerName", "lrUnicodeName", units, stored)

MCSettings ==
  {MCReadable("lsct", "LrSection", "lrSectionDivider", Number(0), <<>>),
   MCReadable("lsct", "LrSection", "lrSectionDivider",
              Number(1) \o Text("8BIM") \o Text("mul "), Text("mul ")),
   MCReadable("lsdk", "LrSection", "lrSectionDivider",
              Number(3) \o Text("8BIM") \o Text("norm") \o Number(0), Text("norm")),
   MCReadable("lsct", "LrSection", "lrSectionDivider",
              Number(2) \o Text("8BIM") \o Text("xxxx"), <<>>),
   MCReadable("lspf", "ProtectedSetting", "lrProtectedSetting",
              <<Data("locked")>> \o Zeros(3), <<Data("locked")>>),
   MCReadable("lspf", "ProtectedSetting", "lrProtectedSetting", MCFill("x", 8), <<Data("zero")>>),
   MCReadable("lspf", "ProtectedSetting", "lrProtectedSetting", <<>>, <<Data("zero")>>),
   MCColor("red"), MCColor("blue"),
   MCReadable("iOpa", "BlendFill", "lrSheetColorSetting",
              <<Data("half")>> \o Zeros(3), <<Data("half")>>),
   MCReadable("fxrp", "ReferencePoint", "lrReferencePoint", MCFill("center", 16), MCFill("center", 16)),
   MCName(Number(2) \o MCFill("a", 2) \o Null, MCFill("a", 2)),
   MCName(Number(1) \o Null \o Zeros(2), <<>>)}

MCKeptAsTheyAre ==
  {MCReadable("lyid", "Base", "lrId", Number(7), Number(7)),
   MCReadable("abdd", "Base", "lrArtboard", MCFill("board", 5), MCFill("board", 5)),
   MCReadable("TySh", "TypeTool", "lrTypeTool", MCFill("text", 6), MCFill("text", 6)),
   MCReadable("SoLd", "PlacedLayerData", "lrPlacedData",
              Text("soLD") \o MCFill("warp", 3), Text("soLD") \o MCFill("warp", 3))}

MCRefused ==
  {MCLost("lsct", Number(4)),
   MCLost("lsct", Number(1) \o MCFill("x", 8)),
   MCLost("iOpa", MCFill("x", 8)),
   MCLost("lclr", <<>>),
   MCLost("luni", Number(2) \o MCFill("lone", 4)),
   MCLost("PlLd", MCFill("x", 8)),
   MCLost("zzzz", MCFill("x", 7))}

MCMask(wide) ==
  LET length == IF wide THEN Number(0) \o Number(5) ELSE Number(5)
  IN  [bytes |-> MCBlock("FMsk", length, MCFill("mask", 5)),
       readable |-> <<[type |-> "Base", key |-> "lrFilterMask", signature |-> "8BIM",
                       data |-> MCFill("mask", 5)]>>]

MCTemplates(wide) == MCSettings \cup MCKeptAsTheyAre \cup MCRefused \cup {MCMask(wide)}

MCLast == MCName(Number(2) \o MCFill("b", 4), MCFill("b", 4))

MCSection(templates, padding, wide) ==
  [bytes    |-> templates[1].bytes \o templates[2].bytes \o templates[3].bytes,
   readable |-> templates[1].readable \o templates[2].readable \o templates[3].readable,
   padding  |-> padding, wide |-> wide]

MCOfLayers ==
  UNION {{MCSection(<<a, b, MCLast>>, 1, wide) : a, b \in MCTemplates(wide)} : wide \in BOOLEAN}

\* The linked layers of a document: items of 4 and of 7 bytes, one of a version
\* that is refused, and no item; and a block that is padded to 4.
MCItem(type, version, n) ==
  Number(0) \o Number(8 + n) \o Text(type) \o Number(version) \o MCFill("image", n)
    \o Zeros(RoundUp(n, 4) - n)
MCStored(type, version, n) ==
  Text(type) \o Number(version) \o MCFill("image", n) \o Zeros(RoundUp(n, 4) - n)

MCLinked(name, key, wide, items, stored) ==
  LET length == IF key = "lrLinked_8Byte" /\ wide
                THEN Number(0) \o Number(Len(items)) ELSE Number(Len(items))
  IN  [bytes |-> MCBlock(name, length, items),
       readable |-> IF stored = <<>> THEN <<>>
                    ELSE <<[type |-> "LinkedLayer", key |-> key, signature |-> "8BIM",
                            data |-> stored[1]]>>]

MCLinkedLayers(wide) ==
  UNION {{MCLinked(l[1], l[2], wide, <<>>, <<<<>>>>),
          MCLinked(l[1], l[2], wide, MCItem("liFD", 7, 4), <<MCStored("liFD", 7, 4)>>),
          MCLinked(l[1], l[2], wide, MCItem("liFE", 4, 0) \o MCItem("liFD", 7, 7),
                   <<MCStored("liFE", 4, 0) \o MCStored("liFD", 7, 7)>>),
          MCLinked(l[1], l[2], wide, MCItem("liFD", 7, 4) \o MCItem("liFD", 9, 4), <<>>),
          MCLinked(l[1], l[2], wide, MCItem("xxxx", 7, 4), <<>>)} :
         l \in {<<"lnk2", "lrLinked_8Byte">>, <<"lnkE", "lrLinked">>}}

MCPadded ==
  [bytes |-> MCBlock("abdd", Number(5), MCFill("board", 5) \o Zeros(3)),
   readable |-> <<[type |-> "Base", key |-> "lrArtboard", signature |-> "8BIM",
                   data |-> MCFill("board", 5) \o Zeros(3)]>>]

MCOfDocuments ==
  UNION {{MCSection(<<a, b, MCPadded>>, 4, wide) :
            a, b \in MCLinkedLayers(wide) \cup {MCPadded}} : wide \in BOOLEAN}

MCSections == MCOfLayers \cup MCOfDocuments
MCTexts    == STRING
MCTrailer  == MCFill("rest", 8)

\* What is too short or not aligned to tell its end from what was read.
MCMisaligned ==
  {MCSection(<<a, MCColor("red"), MCLast>>, 1, FALSE) :
     a \in {MCLost("lsct", Number(4) \o Text("8BIM") \o Text("norm")),
            MCLost("luni", Number(1) \o MCFill("lone", 2) \o Zeros(2)),
            MCLost("fxrp", MCFill("x", 7))}}

MCTruncated == {MCSection(<<MCColor("red"), MCColor("blue"), MCLast>>, 1, FALSE)}

\* A block with a name that other blocks of its key do not have.
MCNamed == {MCSection(<<a, MCColor("red"), MCLast>>, 1, FALSE) : a \in MCKeptAsTheyAre}

MCDocumented == MCMisaligned \cup MCTruncated \cup MCNamed
=============================================================================
