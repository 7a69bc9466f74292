------------------------------ MODULE OzoQuery ------------------------------
(***************************************************************************)
(* The query objects of the ozo library (src/middleware-cpp/includes/ozo): *)
(* the query repository that reads a configuration of named queries        *)
(* (query_conf.h) and the query builder behind the _SQL literal            *)
(* (query_builder.h).                                                      *)
(*                                                                         *)
(* A query text is abstracted to the sequence of its elements: a piece of  *)
(* SQL, [part |-> p], the name of a parameter, [param |-> name], and, once *)
(* the text is built, the placeholder $n, [place |-> n].  The grammars of  *)
(* query_conf.h that cut a text into lines and elements are the input: a   *)
(* configuration is a sequence of the lines they produce.                  *)
(***************************************************************************)
EXTENDS Integers, Sequences, SequencesExt, FiniteSets, TLC

-----------------------------------------------------------------------------
(* The outcome of a step that may throw.                                   *)

Fine(v) == [err |-> "none", value |-> v]
Throws(what) == [err |-> what, value |-> <<>>]

IsParam(e) == "param" \in DOMAIN e
IsPlace(e) == "place" \in DOMAIN e

-----------------------------------------------------------------------------
(* Reading the configuration.  A line is a header, "-- name: q", another   *)
(* comment, or a text; a text the grammar refuses has no elements.         *)

(* line_visitor: a header starts a query, any other comment is skipped, a  *)
(* text belongs to the last query started.                                 *)
Visit(r, line) ==
    IF r.err # "none" THEN r
    ELSE IF line.k = "header" THEN Fine(Append(r.value, [name |-> line.name, text |-> <<>>]))
    ELSE IF line.k = "comment" THEN r
    ELSE IF r.value = <<>> THEN Throws("expected comment")
    ELSE IF line.k = "refused" THEN Throws("failed to parse query text")
    ELSE Fine([r.value EXCEPT ![Len(r.value)].text = @ \o line.text])

parse_query_conf(lines) == FoldLeft(Visit, Fine(<<>>), lines)

Duplicates(named) ==
    \E i, j \in DOMAIN named : i # j /\ named[i].name = named[j].name

-----------------------------------------------------------------------------
(* A declaration is a query type: its name and its parameters, either the  *)
(* names of the members of an adapted struct or the size of a tuple.       *)

(* What boost::lexical_cast makes of a parameter name.                     *)
Numbers == "0" :> 0 @@ "1" :> 1 @@ "2" :> 2

(* The position of a parameter: of the member with its name, or the number *)
(* it spells.                                                              *)
Number(decl, name) ==
    IF decl.members # <<>>
    THEN IF name \in ToSet(decl.members)
         THEN Fine(CHOOSE i \in 0..Len(decl.members) - 1 :
                      /\ decl.members[i + 1] = name
                      /\ \A j \in 1..i : decl.members[j] # name)
         ELSE Throws("parameter is not found")
    ELSE IF name \notin DOMAIN Numbers THEN Throws("only numeric names")
    ELSE IF Numbers[name] >= decl.size THEN Throws("greater than maximum")
    ELSE Fine(Numbers[name])

(* query_part_visitor appends an element to the text of a description.     *)
Describe(decl, r, e) ==
    IF r.err # "none" THEN r
    ELSE IF ~IsParam(e) THEN Fine(Append(r.value, e))
    ELSE LET n == Number(decl, e.param)
         IN  IF n.err # "none" THEN n ELSE Fine(Append(r.value, [place |-> n.value + 1]))

make_query_description(decl, parsed) ==
    FoldLeft(LAMBDA r, e : Describe(decl, r, e), Fine(<<>>), parsed.text)

(* The descriptions of the parsed queries, by name.                        *)
AddDescription(decls, r, parsed) ==
    LET own == {i \in DOMAIN decls : decls[i].name = parsed.name}
    IN  IF r.err # "none" THEN r
        ELSE IF own = {} THEN Throws("query is not declared")
        ELSE LET d == make_query_description(decls[CHOOSE i \in own : TRUE], parsed)
             IN  IF d.err # "none" THEN d
                 ELSE Fine(Append(r.value, [name |-> parsed.name, text |-> d.value]))

make_query_descriptions(decls, parsed) ==
    FoldLeft(LAMBDA r, p : AddDescription(decls, r, p), Fine(<<>>), parsed)

(* Fault: a declared query without a definition goes unnoticed.            *)
make_query_repository_unchecked(decls, lines) ==
    LET parsed == parse_query_conf(lines)
    IN  IF Duplicates(decls) THEN Throws("duplicate declaration")
        ELSE IF parsed.err # "none" THEN parsed
        ELSE IF Duplicates(parsed.value) THEN Throws("duplicate definition")
        ELSE make_query_descriptions(decls, parsed.value)

make_query_repository(decls, lines) ==
    LET parsed == parse_query_conf(lines)
    IN  IF Duplicates(decls) THEN Throws("duplicate declaration")
        ELSE IF parsed.err # "none" THEN parsed
        ELSE IF Duplicates(parsed.value) THEN Throws("duplicate definition")
        ELSE IF \E i \in DOMAIN decls : \A j \in DOMAIN parsed.value :
                    parsed.value[j].name # decls[i].name
             THEN Throws("query is not defined")
        ELSE make_query_descriptions(decls, parsed.value)

(* query_repository::get_description and make_query.                       *)
get_description(repository, name) ==
    (CHOOSE d \in ToSet(repository) : d.name = name).text

make_query(text, params) == [text |-> text, params |-> params]

-----------------------------------------------------------------------------
(* The query builder.  Its elements are pieces of SQL, [part |-> p], and   *)
(* values, [value |-> v]; a value takes the next number.                   *)

Numbered(r, e) ==
    IF "part" \in DOMAIN e THEN [r EXCEPT !.text = Append(@, e)]
    ELSE [r EXCEPT !.text = Append(@, [place |-> r.next]), !.next = @ + 1]

text(elements) == FoldLeft(Numbered, [next |-> 1, text |-> <<>>], elements).text

params(elements) ==
    LET held == SelectSeq(elements, LAMBDA e : "value" \in DOMAIN e)
    IN  [i \in DOMAIN held |-> held[i].value]

build(elements) == make_query(text(elements), params(elements))
=============================================================================
