----------------------------- MODULE GraphBuilder -----------------------------
(***************************************************************************)
(* The code graph as tree-sitter sees it: graph/builder.py and             *)
(* graph/inherit.py.  A symbol is a path and a simple name, an edge        *)
(* <<symbol, relation, symbol>>.                                           *)
(*                                                                         *)
(* A source is what the parser takes from a file: the names it defines     *)
(* (defs), the names it imports from a module (names: name |-> <<path,     *)
(* name there>>), module aliases (modules: name |-> path), star imports in *)
(* order (stars: a sequence of paths), calls ([by, name, on], where `on'   *)
(* is the receiver or "") and bases ([by, name]).  A module is the path it *)
(* would be found at; nested definitions and ambiguous names of one file   *)
(* are left out.                                                           *)
(***************************************************************************)
EXTENDS Integers, Sequences, FiniteSets

_resolve_module(module, files) == IF module \in DOMAIN files THEN {module} ELSE {}

_symbols_named(name, path, files) ==
    IF path \in DOMAIN files /\ name \in files[path].defs THEN {<<path, name>>} ELSE {}

(* Every symbol of this simple name.                                       *)
Anywhere(name, files) ==
    { <<path, name>> : path \in { p \in DOMAIN files : name \in files[p].defs } }

(* What the first star import that has the name resolves it to.            *)
FromStars(name, stars, files) ==
    LET hits(module) == UNION { _symbols_named(name, target, files) :
                                  target \in _resolve_module(module, files) }
        found == SelectSeq(stars, LAMBDA module : hits(module) # {})
    IN  IF found = <<>> THEN {} ELSE hits(found[1])

Imported(name, source, files) ==
    UNION { _symbols_named(source.names[name][2], target, files) :
              target \in _resolve_module(source.names[name][1], files) }

(* Local definitions hide imported names, which hide star imports; what    *)
(* none of them explains is any symbol of that name.  An imported name     *)
(* whose module is not among the files is resolved to nothing.             *)
Resolve(name, path, files, anywhere) ==
    LET source == files[path]
    IN  IF name \in source.defs THEN {<<path, name>>}
        ELSE IF name \in DOMAIN source.names THEN Imported(name, source, files)
        ELSE IF FromStars(name, source.stars, files) # {}
        THEN FromStars(name, source.stars, files)
        ELSE anywhere

(* A call on an imported module is looked for in that module only.         *)
_resolve_call(call, path, files) ==
    IF call.on \in DOMAIN files[path].modules
    THEN UNION { _symbols_named(call.name, target, files) :
                   target \in _resolve_module(files[path].modules[call.on], files) }
    ELSE Resolve(call.name, path, files, Anywhere(call.name, files))

(* Bases are also looked for among symbols that are in the graph already.  *)
_resolve_base(name, path, files, known) ==
    Resolve(name, path, files,
            Anywhere(name, files) \cup { s \in known : s[2] = name })

extract_inheritance_edges(files, known) ==
    UNION { UNION { { <<<<path, base.by>>, "IMPLEMENTS", s>> :
                        s \in _resolve_base(base.name, path, files, known)
                              \ {<<path, base.by>>} } :
                    base \in files[path].bases } : path \in DOMAIN files }

GraphNodes(files) == UNION { { <<path, name>> : name \in files[path].defs } :
                             path \in DOMAIN files }

build_graph_from_files(files, known) ==
    [nodes |-> GraphNodes(files),
     edges |-> extract_inheritance_edges(files, known) \cup
        UNION { UNION { { <<<<path, call.by>>, "CALLS", s>> :
                            s \in _resolve_call(call, path, files) \ {<<path, call.by>>} } :
                        call \in files[path].calls } : path \in DOMAIN files }]
=============================================================================
