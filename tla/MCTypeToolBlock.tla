--------------------------- MODULE MCTypeToolBlock ---------------------------
(* Layers as the constructor makes them and as other programs may write      *)
(* them.  A text descriptor has its text, indexes into it at several depths, *)
(* engine data, and more items of its own.                                   *)
EXTENDS TypeToolBlock

MCKnown == {"TxLr", "Txt ", "Ornt", "AntA", "Annt", "AnCr", "Anno", "Hrzn", "Vrtc",
            "From", "T   ", "Left", "Top ", "Rght", "Btom"}

MCText == <<"a">>

MCPoint(d) == <<d, "point", "a", "return">>
MCBox(d)   == <<d, "box", "small", "a", "return">>

MCItem(key, type, fields) == <<key, <<type, fields>>>>

MCLong(key, n) == MCItem(key, "long", <<n>>)

MCObject(name, items) == <<"Objc", <<name, "range", items>>>>

\* Ranges in an object in a list, and in an object array.
MCRanges ==
  LET first  == MCObject(<<>>, <<MCLong("From", 0), MCLong("T   ", 1)>>)
      second == MCObject(<<Null>>, <<MCLong("From", 1), MCLong("T   ", 2)>>)
  IN  <<MCLong("From", 0), MCItem("ranges", "VlLs", <<<<first, second>>>>)>>

MCArray == <<MCItem("runs", "ObAr", <<2, <<>>, "run", <<MCLong("T   ", 1)>>>>)>>

\* The types that are read into a tree and stepped over.
MCPlainItems ==
  LET property   == <<"prop", <<<<>>, "layer", "name">>>>
      identifier == <<"Idnt", <<3>>>>
      enumerated == <<"Enmr", <<<<>>, "layer", "Ornt", "Hrzn">>>>
      offset     == <<"rele", <<<<>>, "layer", 1>>>>
  IN  <<MCItem("flag", "bool", <<TRUE>>),
        MCItem("stamp", "comp", <<7>>),
        MCItem("file", "alis", <<<<"x", "y">>>>),
        MCItem("kind", "type", <<<<>>, "kind">>),
        MCItem("lengths", "UnFl", <<"#Prc", <<1, 2>>>>),
        MCItem("target", "obj ", <<<<property, identifier, enumerated, offset>>>>)>>

\* Those that only one of the two takes.
MCReadOnly ==
  LET class == <<"Clss", <<<<>>, "owner">>>>
      named == <<"name", <<<<>>, "layer", <<"n">>>>>>
  IN  <<MCItem("owner", "obj ", << <<class, named>> >>)>>

MCTextBody(units, items, payload) ==
  WriteBody(<<<<>>, "TxLr",
              <<MCItem("Txt ", "TEXT", <<units>>)>> \o items
                \o <<MCItem("EngineData", "tdta", <<payload>>)>>>>)

MCEnums == <<EnumItem("Ornt", "Ornt", "Vrtc"), EnumItem("AntA", "Annt", "Anno")>>

\* A global object in place of an object: the type is not written by the code.
MCWithGlobal(body) ==
  [k \in DOMAIN body |-> IF body[k] = <<"chars", "Objc">> THEN <<"chars", "GlbO">> ELSE body[k]]

MCWarp ==
  <<<<"u32", 0>>, <<"u32", 4>>, <<"chars", "warp">>, <<"u32", 4>>>>
    \o WriteKey("warpStyle") \o <<<<"chars", "enum">>>> \o WriteKey("warpStyle") \o WriteKey("warpArc")
    \o WriteKey("warpValue") \o WriteValue(<<"UntF", <<"#Prc", 5>>>>)
    \o WriteKey("warpRotate") \o <<<<"chars", "enum">>>> \o WriteKey("Ornt") \o WriteKey("Vrtc")
    \o WriteKey("bounds") \o WriteValue(<<"Objc", <<<<>>, "bounds", <<>>>>>>)

MCBehind == Tokens("byte", <<"1", "2">>)

MCBytes(text, warp) == Assemble([k \in 1..Doubles |-> k], text, warp, MCBehind)

MCBuilt == BuildBlock(MCText, [k \in 1..Doubles |-> 3], MCPoint("Hrzn"))

MCPhotoshop ==
  MCBytes(MCTextBody(<<"a", Null, Null>>, MCEnums \o MCRanges \o MCArray \o MCPlainItems \o MCReadOnly,
                     MCBox("Vrtc")), MCWarp)

MCBare == MCBytes(MCTextBody(MCText, <<MCLong("T   ", 1)>>, MCPoint("Vrtc")), MCWarp)

MCGlobalInText ==
  MCBytes(MCWithGlobal(MCTextBody(MCText, MCEnums \o MCRanges, MCPoint("Vrtc"))), MCWarp)

MCGlobalInWarp ==
  MCBytes(MCTextBody(MCText, MCEnums \o MCRanges \o MCPlainItems, MCBox("Vrtc")), MCWithGlobal(MCWarp))

MCCut ==
  LET whole == MCBytes(MCTextBody(MCText, MCEnums \o MCRanges, MCBox("Vrtc")), MCWarp)
  IN  SubSeq(whole, 1, Len(whole) - 12)

MCBrokenEngine == MCBytes(MCTextBody(MCText, MCEnums \o MCRanges, <<Broken>>), MCWithGlobal(MCWarp))

MCHeadOnly == SubSeq(MCBuilt, 1, HeadTokens)

MCLayers ==
  <<<<MCBuilt>>, <<MCPhotoshop>>, <<MCGlobalInWarp>>, <<MCCut>>, <<MCBare, MCBuilt>>,
    <<MCBrokenEngine, MCPhotoshop>>, <<MCHeadOnly, MCGlobalInText>>>>

MCTransforms == {<<4, 5>>}
MCTexts      == {<<"b", "a">>, <<"b", "b", "b">>}

\* The last call is only there for the steps that make it.
Layer == <<blocks, calls>>
=============================================================================
