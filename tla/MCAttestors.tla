---------------------------- MODULE MCAttestors ----------------------------
(***************************************************************************)
(* Instances of Attestors.                                                 *)
(*                                                                         *)
(* Files: a working directory w with a file a, a directory d and a link l, *)
(* and a directory o outside it.                                           *)
(***************************************************************************)
EXTENDS Attestors

MCWalkOrder == <<<<"o">>, <<"o", "a">>, <<"w">>, <<"w", "a">>, <<"w", "d">>,
                 <<"w", "d", "a">>, <<"w", "l">>>>

MCWorkingDir == <<"w">>

MCNames == {<<"w", "a">>, <<"w", "d", "a">>, <<"w", "l", "a">>}

MCTargets == {<<"o">>, <<"w", "d">>}

\* d/a and o/a may lead back into the working directory, l nowhere, to itself or
\* to where there is a file on the way.
MCTrees ==
  {[p \in Path |-> CASE p = <<"w", "a">> -> a
                     [] p = <<"w", "d", "a">> -> da
                     [] p = <<"w", "l">> -> l
                     [] p = <<"o", "a">> -> oa
                     [] OTHER -> Dir] :
     a \in {File(c) : c \in Content} \cup {Absent, Special},
     da \in {File(c) : c \in Content} \cup {Link(<<"w", "d">>)},
     l \in {Link(t) : t \in Targets}
           \cup {Link(<<"o", "x">>), Link(<<"w", "l">>), Link(<<"w", "a", "x">>), Absent},
     oa \in {File(c) : c \in Content} \cup {Link(<<"w">>)}}

MCDirHashGlobs == {{}, {<<"d">>}}

\* Without links: a file that is created, and one that is there.
MCPostTrees ==
  {t \in MCTrees : /\ t[<<"w", "a">>] = Absent
                   /\ t[<<"w", "d", "a">>] = File("c1")
                   /\ t[<<"w", "l">>] = Absent
                   /\ t[<<"o", "a">>] = File("c1")}

\* c1 is of the type that is looked for, c2 may be; either may parse.
MCReadings ==
  {r \in [wanted : {{"c1"}, Content}, parses : SUBSET Content,
          partial : {{}, {"c2"}}] : r.parses \cap r.partial = {}}

-----------------------------------------------------------------------------
(* Environment: keys that are on the default list by name and by a glob,   *)
(* one that is added by name and one that is added by a glob.              *)

MCMatches == [DEF |-> {"def"}, GLOB |-> {"glob"}, ADD |-> {"add"}, ADDGLOB |-> {"add2"}]

MCCaptureOptions ==
  [add : {{}, {"ADD"}, {"ADD", "ADDGLOB"}}, exclude : {{}, {"def"}},
   filter : BOOLEAN, disableDefault : BOOLEAN]

MCScanCaptures ==
  [add : {{"ADD"}}, exclude : {{}}, filter : BOOLEAN, disableDefault : BOOLEAN]

-----------------------------------------------------------------------------
(* Secret scan: five layers, one more than can be undone, with a secret,   *)
(* a value and an allowed pattern in some of them.                         *)

MCEncodings == <<"base64", "hex", "base64", "url", "none">>

MCContent(secretAt, key, keyAt, allowedAt) ==
  [i \in 1..5 |-> [secrets |-> IF i \in secretAt THEN {"s"} ELSE {},
                   env |-> IF i \in keyAt THEN {key} ELSE {},
                   allowed |-> i \in allowedAt,
                   encoding |-> MCEncodings[i]]]

MCContents ==
  {MCContent(s, k, e, a) : s \in {{}, {1}, {3}, {4}, {5}, {2, 4}},
                           k \in {"def", "add"}, e \in {{}, {1}, {2, 4}, {5}},
                           a \in {{}, {2}}}

MCSecret == MCContent({2}, "def", {}, {})

MCClean == MCContent({}, "def", {}, {})

MCFile(type, big, content) == [type |-> type, big |-> big, content |-> content]

MCCorpora ==
  {[attestors |-> {[name |-> "command-run", runType |-> "execute",
                    contents |-> {c, MCClean}],
                   [name |-> "sbom", runType |-> "postproduct", contents |-> {MCSecret}]},
    products |-> [p1 |-> MCFile("text", FALSE, MCSecret), p2 |-> MCFile(t, b, c)]] :
     c \in MCContents, t \in {"text", "binary"}, b \in {FALSE}}
  \cup {[attestors |-> {}, products |-> [p1 |-> MCFile("text", TRUE, c)]] : c \in {MCSecret}}

MCScanOptions ==
  [failOnDetection : BOOLEAN, configPath : BOOLEAN, maxDecodeLayers : {0, 2, 3, 4}]

-----------------------------------------------------------------------------
(* Manifests: the same pod applied twice, nodes by themselves and in a     *)
(* list, documents that do not parse or decode.                            *)

MCItem(kind, fields, decodes) ==
  [kind |-> kind, name |-> "n", fields |-> fields, decodes |-> decodes]

MCDoc(kind, fields, decodes, items) ==
  [parses |-> TRUE, kind |-> kind, name |-> "n", fields |-> fields,
   decodes |-> decodes, items |-> items]

MCDocs ==
  {MCDoc("Pod", {"spec"}, TRUE, <<>>), MCDoc("Pod", {"spec", "uid", "note"}, TRUE, <<>>),
   MCDoc("Node", {"spec", "status"}, TRUE, <<>>), MCDoc("Pod", {"spec"}, FALSE, <<>>),
   MCDoc("List", {}, TRUE, <<MCItem("Node", {"status"}, TRUE), MCItem("Pod", {}, FALSE)>>),
   [MCDoc("Pod", {}, TRUE, <<>>) EXCEPT !.parses = FALSE]}

MCManifests ==
  {[f1 |-> [ext |-> x, docs |-> <<d, e>>],
    f2 |-> [ext |-> y, docs |-> <<MCDoc("Pod", {"spec", "status"}, TRUE, <<>>)>>]] :
     x \in {"json", "yaml"}, y \in {"json", "other"}, d \in MCDocs, e \in MCDocs}

MCServerDefaults ==
  [k \in {"Pod", "Node", "List"} |-> IF k = "Pod" THEN {"note", "policy"} ELSE {}]

MCK8sOptions ==
  [dryRun : BOOLEAN, recordCluster : BOOLEAN, ignore : {{}, {"note"}}]
=============================================================================
