------------------------------- MODULE MCBundle -------------------------------
(* An executable, a shared and a static library, two libraries from        *)
(* elsewhere and one of the system, and two files of one name, in five     *)
(* projects.                                                               *)
EXTENDS Bundle

CONSTANTS app, core, base, ext, zlib, libc, conf, data, memo, dist, tools, plugins, pack

KindOf == [t \in BuildTarget |-> CASE t = app -> "executable" [] t = core -> "shared"
                                   [] t = base -> "static"]
ConfForApp == [t \in BuildTarget |-> IF t = app THEN {conf} ELSE {}]

Paths   == <<app, base, core, conf, data, ext, libc, memo, zlib>>
Ordered == <<base, core, app>>

BelowIt == [d \in Folder |-> CASE d = dist -> Folder [] d = tools -> {tools, plugins}
                               [] d = plugins -> {plugins}]

NamesOf == [f \in File |-> IF f = memo THEN data ELSE f]

Into(folder, files) == [f \in files |-> folder]

ABundle(folder, targets, includes, excludes, libraries) ==
    [kind |-> "bundle", folder |-> folder, targets |-> targets, includes |-> includes,
     excludes |-> excludes, libraries |-> libraries]
AnArchive(folder) == [kind |-> "archive", name |-> pack, includes |-> {folder}]
AStep             == [kind |-> "step"]

(* Everything in the distribution directory, with a folder for the tools;  *)
(* the tools only, with a plugin; a folder shared by two bundles; a target *)
(* that is put there twice; two excludes, of which the first may match     *)
(* nothing.                                                                *)
Whole  == <<ABundle(dist, {app, core}, Into(dist, {data}), <<{conf}>>, TRUE),
            ABundle(tools, {core}, Into(tools, {memo}), <<>>, FALSE), AnArchive(dist), AStep>>
Tools  == <<ABundle(tools, {app}, Into(tools, {data}) @@ Into(plugins, {ext}), <<>>, TRUE),
            AnArchive(tools)>>
Shared == <<ABundle(tools, {app}, Into(tools, {}), <<>>, TRUE),
            ABundle(tools, {base}, Into(tools, {data, core}), <<>>, TRUE), AStep>>
Twice  == <<ABundle(tools, {app}, Into(tools, {}), <<>>, FALSE),
            ABundle(tools, {app}, Into(tools, {}), <<>>, FALSE)>>
Spare  == <<ABundle(tools, {app}, Into(plugins, {data}), <<{data}, {conf}>>, FALSE)>>
FiveProjects == {Whole, Tools, Shared, Twice, Spare}

Chain(ofApp, ofCore, ofExt, ofZlib) ==
    [x \in Binary |-> CASE x = app -> ofApp [] x = core -> ofCore [] x = ext -> ofExt
                        [] x = zlib -> ofZlib [] OTHER -> {}]
SomeGraphs ==
    {[transitive |-> FALSE, needs |-> Chain({core, libc}, {ext}, {libc}, {})],
     [transitive |-> FALSE, needs |-> Chain({ext, libc}, {}, {zlib}, {ext})],
     [transitive |-> TRUE,  needs |-> Chain({core, libc}, {ext}, {zlib, libc}, {ext})]}

=============================================================================
