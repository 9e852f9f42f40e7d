------------------------------ MODULE MCCmdline ------------------------------
(* Parsers of up to two commands, calls of up to three arguments, and sessions of suggestions. *)
EXTENDS Integers, Sequences, FiniteSets, TLC

Near == {{"serve", "server"}, {"serve", "serv"}, {"deploy", "deploi"}, {"server", "serves"}, {"serve", "serves"}}
Dist(x, y) == IF x = y THEN 0 ELSE IF {x, y} \in Near THEN 1 ELSE 3
Size(x) == CASE x = "dep" -> 3 [] x = "serv" -> 4 [] x \in {"serve", "SERVE"} -> 5 [] OTHER -> 6

C == INSTANCE Cmdline WITH
        Lower <- [Deploy |-> "deploy", D |-> "d", SERVE |-> "serve", Help |-> "help"],
        Number <- ("5" :> 5 @@ "-5" :> (0 - 5)),
        Json <- ("5" :> [t |-> "number", v |-> 5] @@ "-5" :> [t |-> "number", v |-> 0 - 5]
                 @@ "true" :> [t |-> "boolean", v |-> TRUE]),
        Unquoted <- ("'web'" :> "web"),
        Labels <- ("web" :> <<[length |-> 3, hyphenAtEnd |-> FALSE, characters |-> {"letter"}]>>
                   @@ "5" :> <<[length |-> 1, hyphenAtEnd |-> FALSE, characters |-> {"digit"}]>>
                   @@ "'web'" :> <<[length |-> 5, hyphenAtEnd |-> FALSE, characters |-> {"letter", "other"}]>>),
        Emails <- ("a@b.nl" :> [local |-> 1, labels |-> <<[length |-> 1, hyphenAtEnd |-> FALSE, characters |-> {"letter"}],
                                                          [length |-> 2, hyphenAtEnd |-> FALSE, characters |-> {"letter"}]>>]),
        Glueable <- {"5", "web", "true"},
        Distance <- Dist, Length <- Size,
        MaxLookups <- 3, MaxCandidates <- 2, MaxComparisons <- 4

Option(name, short, type) ==
    [name |-> name, short |-> short, type |-> type, multiple |-> FALSE, required |-> FALSE, default |-> {},
     choices |-> {}, conflicts |-> {}, depends |-> {}, refuses |-> {}]
Five == [t |-> "number", v |-> 5]
Verbose == Option("verbose", {"v"}, "boolean")
Site == [Option("site", {"s"}, "domain") EXCEPT !.refuses = {C!Text("5")}]
Count == [Option("count", {"c"}, "number") EXCEPT !.default = {Five}]
Name == [Option("name", {"n"}, "string") EXCEPT !.depends = {"count"}, !.conflicts = {"tag"}]
Tag == [Option("tag", {"t"}, "untyped") EXCEPT !.multiple = TRUE, !.choices = {{C!Text("web"), C!Text("5")}}]
Mail == Option("mail", {"m"}, "email")
Letter == [Option("n", {}, "string") EXCEPT !.required = TRUE]

Command(name, aliases, default, options) ==
    [name |-> name, aliases |-> aliases, default |-> default, options |-> options]
Commands == {Command("deploy", <<"d">>, default, options) :
                 default \in BOOLEAN, options \in {<<Count, Name, Tag>>, <<Letter, Name>>, <<Verbose, Name>>}}
            \cup {Command("Deploy", <<>>, FALSE, <<>>), Command("serve", <<"D">>, TRUE, <<Count>>),
                  Command("Help", <<>>, FALSE, <<>>), Command("serve", <<"s", "run">>, FALSE, <<Tag>>)}
Globals == {<<>>, <<Verbose, Site>>, <<Option("here", {"h"}, "string")>>,
            <<[Count EXCEPT !.choices = {{[t |-> "number", v |-> 7]}}]>>}
Parsers == UNION {C!Construct(g, cs, help) : g \in Globals, help \in BOOLEAN,
                     cs \in {<<c>> : c \in Commands} \cup {<<c, d>> : c, d \in Commands}}
\* The parsers whose arguments are explored.
Explored == UNION {C!Construct(<<Verbose, Site>>, cs, TRUE) :
                cs \in {<<Command("deploy", <<"d">>, TRUE, <<Count, Name, Tag>>)>>,
                        <<Command("deploy", <<"d">>, FALSE, <<Letter, Name, Count>>), Command("serve", <<>>, FALSE, <<Tag, Mail>>)>>}}

Word(x) == [form |-> "word", long |-> FALSE, name |-> "", attached |-> {}, glued |-> FALSE, text |-> x]
Opt(long, name, attached, glued) ==
    [form |-> "option", long |-> long, name |-> name, attached |-> attached, glued |-> glued, text |-> ""]
Arguments ==
    {Word(x) : x \in {"deploy", "d", "Deploy", "serve", "true", "5", "'web'", ""}}
    \cup {[Word("") EXCEPT !.form = "dash"], [Word("") EXCEPT !.form = "malformed"]}
    \cup {Opt(TRUE, n, {}, FALSE) : n \in {"verbose", "count", "name", "help", "n", "none"}}
    \cup {Opt(TRUE, "verbose", {"5"}, FALSE), Opt(TRUE, "count", {"-5"}, FALSE), Opt(FALSE, "count", {}, FALSE),
          Opt(FALSE, "v", {}, FALSE), Opt(FALSE, "n", {}, FALSE), Opt(FALSE, "n", {"'web'"}, TRUE),
          Opt(FALSE, "n", {"web"}, FALSE), Opt(FALSE, "n", {""}, FALSE), Opt(FALSE, "c", {"5"}, TRUE),
          Opt(FALSE, "t", {"web"}, TRUE), Opt(TRUE, "tag", {"5"}, FALSE), Opt(TRUE, "site", {"web"}, FALSE),
          Opt(FALSE, "s", {"5"}, FALSE), Opt(TRUE, "verbose", {"true"}, FALSE), Opt(TRUE, "mail", {"a@b.nl"}, FALSE)}

Inputs == {"dep", "serv", "SERVE", "serve", "deploi"}
Candidates == {"serve", "server", "serves", "deploy", "dep"}

Start == {[of |-> "parser", parser |-> p, args |-> <<>>] : p \in Parsers}
         \cup {[of |-> "suggestion", session |-> C!NewSession]}
Steps(p) ==
    IF p.of = "parser"
    THEN IF Len(p.args) < 3 /\ p.parser \in Explored THEN {[p EXCEPT !.args = Append(@, a)] : a \in Arguments} ELSE {}
    ELSE {[p EXCEPT !.session = C!Suggest(@, x, Candidates).session] : x \in Inputs}
Holds(p) ==
    IF p.of = "parser" THEN C!SpellingsResolve(p.parser) /\ C!ArgumentsMeanTheirOptions(p.args, p.parser)
    ELSE \A x \in Inputs : C!SuggestionsAreStable(p.session, x, Candidates)
=============================================================================
