------------------------------- MODULE Cmdline -------------------------------
(***************************************************************************)
(* packages/cmdline: the configuration of a parser, the arguments of a     *)
(* call in strict and in legacy mode, and the suggestions of its errors.   *)
(*                                                                         *)
(* An argument is an option, with its name and what is attached to it with *)
(* = or directly, a word, a dash alone or something malformed.  A text is  *)
(* a string, and the tables say what the code reads in it: its lower case, *)
(* its number, its JSON, its labels as a domain.  Values are [t, v].       *)
(* Optional things are sets of at most one element.                        *)
(***************************************************************************)
EXTENDS Integers, Sequences, FiniteSets, SequencesExt

CONSTANTS Lower, Number, Json, Unquoted, Labels, Emails,  \* functions of the texts they are defined for
          Glueable,                               \* texts of letters, digits, _ and - alone
          Distance(_, _), Length(_),              \* of two lower-cased texts; of a text
          MaxLookups, MaxCandidates, MaxComparisons

Or(table, x, default) == IF x \in DOMAIN table THEN table[x] ELSE default
ToLower(x) == Or(Lower, x, x)
Value(t, v) == [t |-> t, v |-> v]
Text(x) == Value("string", x)
True == Value("boolean", TRUE)
Parsed(x) == Or(Json, x, Text(x))
ProcessQuotedArgument(x) == Or(Unquoted, x, x)

FirstWhere(seq, Test(_)) ==
    LET hits == {i \in DOMAIN seq : Test(seq[i])}
    IN {seq[i] : i \in {h \in hits : \A j \in hits : h <= j}}

-----------------------------------------------------------------------------
(* validators.ts, on the labels of a name: their length, their characters, *)
(* and whether a hyphen stands at an end.                                  *)

IsValidDomain(labels) ==
    /\ labels # <<>>
    /\ \A i \in DOMAIN labels : labels[i].length \in 1..63 /\ ~labels[i].hyphenAtEnd
    /\ \A i \in 1..Len(labels) - 1 : labels[i].characters \subseteq {"letter", "digit", "-", "_"}
    /\ LET last == labels[Len(labels)].characters IN
       IF Len(labels) = 1 THEN last \subseteq {"letter", "digit", "-", "_"}
       ELSE last \subseteq {"letter", "digit"} /\ "letter" \in last

\* local: the length of what precedes the only @, 0 where its form is wrong.
IsValidEmail(local, labels) ==
    /\ local \in 1..64 /\ IsValidDomain(labels)
    /\ Len(labels) >= 2 /\ labels[Len(labels)].length >= 2

-----------------------------------------------------------------------------
(* configuration.ts                                                        *)

Reserved == {"help", "version"}
Distinct(seq) == \A i, j \in DOMAIN seq : i # j => seq[i] # seq[j]
SeqMap(Op(_), seq) == [i \in DOMAIN seq |-> Op(seq[i])]
Shorts(options) == UNION {options[i].short : i \in DOMAIN options}

ValidOption(o) ==
    /\ ToLower(o.name) \notin Reserved
    /\ o.conflicts \cap o.depends = {}
    /\ \A choices \in o.choices : choices # {} /\ o.default \subseteq choices

ValidateOptionsConfiguration(options) ==
    /\ \A i \in DOMAIN options : ValidOption(options[i])
    /\ \A i, j \in DOMAIN options : i # j =>
           options[i].name # options[j].name /\ options[i].short \cap options[j].short = {}

ValidateAutomaticHelpCollision(options, automaticHelp) == automaticHelp => "h" \notin Shorts(options)

ValidateGlobalOptions(options, automaticHelp) ==
    ValidateOptionsConfiguration(options) /\ ValidateAutomaticHelpCollision(options, automaticHelp)

Spellings(command) == SeqMap(ToLower, <<command.name>> \o command.aliases)

ValidateOptionScopes(options, globals) ==
    /\ \A i \in DOMAIN options, j \in DOMAIN globals : options[i].name # globals[j].name
    /\ Shorts(options) \cap Shorts(globals) = {}

ValidateCommand(command, existing, globals, automaticHelp) ==
    /\ Distinct(Spellings(command)) /\ Range(Spellings(command)) \cap Reserved = {}
    /\ \A i \in DOMAIN existing : Range(Spellings(existing[i])) \cap Range(Spellings(command)) = {}
    /\ ValidateOptionsConfiguration(command.options)
    /\ ValidateAutomaticHelpCollision(command.options, automaticHelp)
    /\ ValidateOptionScopes(command.options, globals)

Help == [name |-> "help", short |-> {"h"}, type |-> "boolean", multiple |-> FALSE, required |-> FALSE,
         default |-> {}, choices |-> {}, conflicts |-> {}, depends |-> {}, refuses |-> {}]

\* The constructor, then addCommand for each of the commands: {} when one of them throws.
AddCommand(parser, command) ==
    {[p EXCEPT !.commands = Append(@, [command EXCEPT !.options =
                                          IF p.automaticHelp THEN Append(@, Help) ELSE @])] :
        p \in {q \in parser : ValidateCommand(command, q.commands, q.globals, q.automaticHelp)}}
Construct(globals, commands, automaticHelp) ==
    FoldLeft(AddCommand,
             IF ValidateGlobalOptions(globals, automaticHelp)
             THEN {[globals |-> globals, commands |-> <<>>, automaticHelp |-> automaticHelp]} ELSE {},
             commands)

-----------------------------------------------------------------------------
(* argument-parser.ts                                                      *)

FindOption(argument, options) ==
    FirstWhere(options, LAMBDA o : IF argument.long THEN o.name = argument.name ELSE o.short = {argument.name})
FindCommand(spelling, parser) ==
    FirstWhere(parser.commands, LAMBDA c : spelling \in {c.name} \cup Range(c.aliases))
FindLegacyCommand(spelling, parser) ==
    FirstWhere(parser.commands, LAMBDA c : ToLower(spelling) \in Range(Spellings(c)))
DefaultCommand(parser) ==
    IF Len(parser.commands) = 1 THEN {c \in Range(parser.commands) : c.default} ELSE {}
OptionsOf(command) == UNION {Range(c.options) : c \in command}

\* Mutant of ConsumeOptionValue: a flag never takes the word behind it.
ConsumeNoFlag(args, i, o) ==
    LET word == {a \in {args[j] : j \in {i + 1} \cap DOMAIN args} : a.form = "word" /\ o.type # "boolean"}
    IN {[value |-> Text(x), next |-> i + 1] : x \in args[i].attached}
       \cup {[value |-> Text(a.text), next |-> i + 2] : a \in {b \in word : args[i].attached = {}}}
       \cup {[value |-> True, next |-> i + 1] : x \in {y \in {1} : args[i].attached = {} /\ o.type = "boolean"}}

\* The value of the option at i, and where the next argument is: {} when it has none.  A negative
\* number is a word.
ConsumeOptionValue(args, i, o) ==
    LET word == {a \in {args[j] : j \in {i + 1} \cap DOMAIN args} : a.form = "word"}
        flag == {a \in word : a.text \in {"true", "false"}}
        Take(words) == {[value |-> Text(a.text), next |-> i + 2] : a \in words}
    IN IF args[i].attached # {} THEN {[value |-> Text(x), next |-> i + 1] : x \in args[i].attached}
       ELSE IF o.type # "boolean" THEN Take(word)
       ELSE IF flag # {} THEN Take(flag) ELSE {[value |-> True, next |-> i + 1]}

ConvertOptionValue(value, o) ==
    CASE value.t = "boolean" -> value
      [] o.type = "boolean" /\ value.v \in {"true", "false"} -> Value("boolean", value.v = "true")
      [] o.type = "number" /\ value.v \in DOMAIN Number -> Value("number", Number[value.v])
      [] OTHER -> value

\* Where the command is: the first word that no option before it takes, a global one or one of the
\* default command.  0: there is none.
RECURSIVE SelectCommand(_, _, _)
SelectCommand(args, i, parser) ==
    LET options == parser.globals \o
                   FlattenSeq([k \in DOMAIN parser.commands |->
                       IF {parser.commands[k]} = DefaultCommand(parser) THEN parser.commands[k].options ELSE <<>>])
        consumed == UNION {ConsumeOptionValue(args, i, o) : o \in FindOption(args[i], options)}
    IN IF i > Len(args) THEN 0
       ELSE IF args[i].form = "word" THEN i
       ELSE IF args[i].form # "option" \/ consumed = {} THEN SelectCommand(args, i + 1, parser)
       ELSE SelectCommand(args, (CHOOSE c \in consumed : TRUE).next, parser)

\* The options that are met, in their order, and the kinds of the issues.
RECURSIVE ParseFrom(_, _, _, _, _, _)
ParseFrom(args, i, at, parser, command, out) ==
    LET a == args[i]
        own == FlattenSeq(SetToSeq({c.options : c \in {d \in command : ~(at > i)}}))
        option == FindOption(a, parser.globals \o own)
        consumed == UNION {ConsumeOptionValue(args, i, o) : o \in option}
        Go(next, result) == ParseFrom(args, next, at, parser, command, result)
        Issue(kind) == Go(i + 1, [out EXCEPT !.issues = @ \cup {kind}])
    IN IF i > Len(args) THEN out
       ELSE IF i = at THEN Go(i + 1, out)
       ELSE IF a.form \in {"dash", "malformed"} THEN Issue("malformed-argument")
       ELSE IF a.form = "word" THEN Issue("unexpected-argument")
       ELSE IF option = {} THEN Issue("unknown-option")
       ELSE IF consumed = {} THEN Issue("malformed-argument")
       ELSE LET o == CHOOSE o \in option : TRUE
                c == CHOOSE c \in consumed : TRUE
            IN Go(c.next, [out EXCEPT !.met = Append(@, [option |-> o, raw |-> c.value, value |-> ConvertOptionValue(c.value, o)])])

ParseArguments(args, parser) ==
    LET at == SelectCommand(args, 1, parser)
        command == IF at = 0 THEN DefaultCommand(parser) ELSE FindCommand(args[at].text, parser)
        unknown == at # 0 /\ command = {}
        out == ParseFrom(args, 1, at, parser, command, [met |-> <<>>, issues |-> {}])
    IN [command |-> command, met |-> out.met,
        issues |-> out.issues \cup (IF unknown THEN {"unknown-command"} ELSE {})]

\* storeOptionValue: the last value, or all of them.
StoredValues(met, o) ==
    LET values == SeqMap(LAMBDA m : m.value, SelectSeq(met, LAMBDA m : m.option.name = o.name))
    IN IF o.multiple \/ values = <<>> THEN values ELSE <<values[Len(values)]>>

-----------------------------------------------------------------------------
(* strict-validation.ts                                                    *)

IsNumeric(value) == value.t = "number" \/ (value.t = "string" /\ value.v \in DOMAIN Number)
HasType(value, type) ==
    CASE type = "number" -> IsNumeric(value)
      [] type = "boolean" -> value.t = "boolean"
      [] type = "domain" -> value.t = "string" /\ value.v \in DOMAIN Labels /\ IsValidDomain(Labels[value.v])
      [] type = "email" -> /\ value.t = "string" /\ value.v \in DOMAIN Emails
                           /\ IsValidEmail(Emails[value.v].local, Emails[value.v].labels)
      [] OTHER -> value.t = "string"

ValidateStrictValue(o, value) ==
    /\ HasType(value, o.type)
    /\ \A choices \in o.choices : value \in choices
    /\ value \notin o.refuses

\* The values the handler is to get, with the defaults of absent options.
EffectiveValues(met, o, absentToo) ==
    LET values == StoredValues(met, o)
    IN IF values = <<>> /\ absentToo THEN SetToSeq(o.default) ELSE values

ValidateStrictOptions(met, absentToo, options) ==
    UNION {LET values == EffectiveValues(met, o, absentToo)
           IN (IF values = <<>> /\ absentToo /\ o.required THEN {"missing-required"} ELSE {})
              \cup (IF \A v \in Range(values) : ValidateStrictValue(o, v) THEN {} ELSE {"invalid-value"}) : o \in options}

ValidateRelationships(explicit, options) ==
    LET supplied == {o \in options : o.name \in explicit}
        Defaulted(n) == \E o \in options : o.name = n /\ o.default # {}
    IN (IF \E o \in supplied : o.conflicts \cap explicit # {} THEN {"conflict"} ELSE {})
       \cup (IF \E o \in supplied : \E n \in o.depends : n \notin explicit /\ ~Defaulted(n)
             THEN {"missing-dependency"} ELSE {})

-----------------------------------------------------------------------------
(* cmdline.ts                                                              *)

\* An option without a value is not given to the handler.
HandlerOptions(options, met) ==
    {[name |-> o.name, values |-> EffectiveValues(met, o, TRUE)] :
        o \in {p \in options : EffectiveValues(met, p, TRUE) # <<>>}}
Called(command, options) == [kind |-> "called", command |-> command.name, options |-> options]
Shown(kind, issues) == [kind |-> kind, issues |-> issues]

StrictOutcome(result, parser) ==
    LET options == Range(parser.globals) \cup OptionsOf(result.command)
        explicit == {m.option.name : m \in Range(result.met)}
        help == result.command # {} /\ "help" \in explicit
        issues == result.issues \cup
                  (IF result.command = {} THEN {}
                   ELSE ValidateStrictOptions(result.met, ~help, options)
                        \cup ValidateRelationships(explicit, options))
    IN IF issues # {} THEN Shown("failed", issues)
       ELSE IF result.command = {} THEN Shown("usage", {})
       ELSE IF help THEN Shown("help", {})
       ELSE Called(CHOOSE c \in result.command : TRUE,
                   HandlerOptions(options, result.met))
ExecuteStrict(args, parser) == StrictOutcome(ParseArguments(args, parser), parser)

\* validateArgument: what is glued to a short option must be plain.
LegacyMalformed(a) ==
    \/ a.form \in {"dash", "malformed"}
    \/ a.form = "word" /\ a.text = ""
    \/ a.form = "option" /\ a.glued /\ ~(a.attached \subseteq Glueable)

\* findLegacyCommandIndex: only global options may stand before the command.
RECURSIVE LegacyCommandIndex(_, _, _)
LegacyCommandIndex(args, i, parser) ==
    LET consumed == UNION {ConsumeOptionValue(args, i, o) : o \in FindOption(args[i], parser.globals)}
    IN IF i > Len(args) THEN 0
       ELSE IF args[i].form = "word"
            THEN IF FindLegacyCommand(args[i].text, parser) # {} THEN i ELSE 0
       ELSE IF args[i].form # "option" \/ consumed = {} THEN 0
       ELSE LegacyCommandIndex(args, (CHOOSE c \in consumed : TRUE).next, parser)

\* The options of parseTokens: an option that is alone or says true takes the word behind it.
LegacyValue(args, i, at) ==
    LET a == args[i]
        own == IF a.attached = {} \/ (~a.long /\ a.attached = {""}) THEN True
               ELSE Parsed(CHOOSE x \in a.attached : TRUE)
        words == {b \in {args[j] : j \in ({i + 1} \cap DOMAIN args) \ {at}} : b.form = "word"}
    IN IF own = True /\ words # {} THEN Parsed(ProcessQuotedArgument((CHOOSE b \in words : TRUE).text)) ELSE own
ParseTokens(args, at) ==
    LET places == SelectSeq([i \in DOMAIN args |-> i], LAMBDA i : args[i].form = "option")
    IN SeqMap(LAMBDA i : [name |-> args[i].name, value |-> LegacyValue(args, i, at)], places)

\* validate: an option is found by its name or its letter, with one dash or with two.
LegacyFound(tokens, o) ==
    SeqMap(LAMBDA t : t.value, SelectSeq(tokens, LAMBDA t : t.name \in {o.name} \cup o.short))
LegacyValues(tokens, o) ==
    LET values == LegacyFound(tokens, o)
    IN IF values = <<>> THEN SetToSeq(o.default) ELSE IF o.multiple THEN values ELSE <<values[Len(values)]>>
LegacyErrors(tokens, options) ==
    UNION {LET found == LegacyFound(tokens, o)
               checked == IF found = <<>> THEN o.default ELSE Range(found)
               Chosen(v) == found = <<>> \/ \A choices \in o.choices : v \in choices
           IN (IF o.required /\ checked = {} THEN {"missing-required"} ELSE {})
              \cup {"invalid-value" : v \in {w \in checked : ~((o.type = "untyped" \/ HasType(w, o.type)) /\ Chosen(w) /\ w \notin o.refuses)}} :
           o \in options}
    \cup ValidateRelationships({o.name : o \in {p \in options : LegacyFound(tokens, p) # <<>>}}, options)

\* resetOptionValues: a command's own option of several values that is absent is an empty list.
LegacyOptions(command, options, tokens) ==
    {[name |-> o.name, values |-> LegacyValues(tokens, o)] :
        o \in {p \in options : LegacyValues(tokens, p) # <<>> \/ (p.multiple /\ p \in OptionsOf(command))}}

ExecuteLegacy(args, parser) ==
    LET at == LegacyCommandIndex(args, 1, parser)
        tokens == ParseTokens(args, at)
        command == IF at = 0 THEN DefaultCommand(parser) ELSE FindLegacyCommand(args[at].text, parser)
        options == Range(parser.globals) \cup OptionsOf(command)
        errors == LegacyErrors(tokens, options)
        help == \E o \in options : o.name = "help" /\ LegacyFound(tokens, o) # <<>>
    IN IF (\E a \in Range(args) : LegacyMalformed(a)) \/ command = {} THEN Shown("usage", {})
       ELSE IF errors # {} \/ help THEN Shown("help", errors)
       ELSE Called(CHOOSE c \in command : TRUE, LegacyOptions(command, options, tokens))

-----------------------------------------------------------------------------
(* suggestions.ts.  A session is the two counters and the answers so far.  *)

Eligible(x) == Length(x) \in 4..128
MaximumDistance(x, y) == IF Length(x) >= 8 /\ Length(y) >= 8 THEN 2 ELSE 1
IsRelevantLength(x, y) ==
    /\ Length(x) - Length(y) <= MaximumDistance(x, y)
    /\ Length(y) - Length(x) <= MaximumDistance(x, y)

FindUniqueBest(x, candidates) ==
    LET near == {c \in candidates : Distance(ToLower(x), ToLower(c)) <= MaximumDistance(x, c)}
        best == {c \in near : \A d \in near : Distance(ToLower(x), ToLower(c)) <= Distance(ToLower(x), ToLower(d))}
    IN IF Cardinality(best) = 1 THEN best ELSE {}

NewSession == [lookups |-> 0, comparisons |-> 0, cache |-> <<>>]

Suggest(session, x, candidates) ==
    LET relevant == {c \in candidates : Eligible(c) /\ IsRelevantLength(x, c)}
        n == Cardinality(relevant)
        refused == n > MaxCandidates \/ n > MaxComparisons - session.comparisons
        answer == IF refused THEN {} ELSE FindUniqueBest(x, relevant)
        key == ToLower(x)
    IN IF ~Eligible(x) THEN [answer |-> {}, session |-> session]
       ELSE IF key \in DOMAIN session.cache THEN [answer |-> session.cache[key], session |-> session]
       ELSE IF session.lookups >= MaxLookups THEN [answer |-> {}, session |-> session]
       ELSE [answer |-> answer,
             session |-> [lookups |-> session.lookups + 1,
                          comparisons |-> session.comparisons + (IF refused THEN 0 ELSE n),
                          cache |-> [k \in DOMAIN session.cache \cup {key} |->
                                        IF k = key THEN answer ELSE session.cache[k]]]]
-----------------------------------------------------------------------------

\* The spelling that was given is not part of what was asked.
Same(out) == IF out.kind = "called" THEN out ELSE [kind |-> out.kind]
Respelled(args, parser) ==
    LET at == SelectCommand(args, 1, parser)
        command == IF at = 0 THEN DefaultCommand(parser) ELSE FindCommand(args[at].text, parser)
        Known(i) == FindOption(args[i], parser.globals)
                    \cup (IF i > at THEN UNION {FindOption(args[i], c.options) : c \in command} ELSE {})
        With(i, those) == SubSeq(args, 1, i - 1) \o those \o SubSeq(args, i + 1, Len(args))
        Of(i, o) ==
            LET a == args[i]
                flag == o.type = "boolean"
                moved == Len(args) > i /\ args[i + 1].form = "word" /\ args[i + 1].text \in {"true", "false"}
            IN {With(i, <<[a EXCEPT !.long = ~@, !.glued = FALSE,
                                    !.name = IF a.long THEN letter ELSE o.name]>>) : letter \in o.short}
               \cup {With(i, <<[a EXCEPT !.attached = {}, !.glued = FALSE], [a EXCEPT !.form = "word", !.text = x]>>) :
                       x \in {y \in a.attached : flag => y \in {"true", "false"}}}
               \cup {With(i, <<[a EXCEPT !.attached = {"true"}]>>) : x \in {y \in {1} : flag /\ a.attached = {} /\ ~moved}}
    IN UNION {UNION {Of(i, o) : o \in Known(i)} : i \in {j \in DOMAIN args : args[j].form = "option"}}
       \cup UNION {{With(i, <<[args[i] EXCEPT !.text = x]>>) : x \in UNION {{c.name} \cup Range(c.aliases) : c \in command}} :
                   i \in {at} \ {0}}

Reordered(args, parser) ==
    LET at == SelectCommand(args, 1, parser)
        Movable(i) == i > at /\ args[i].form = "option" /\ args[i].attached # {}
        Met(i) == FindOption(args[i], parser.globals \o FlattenSeq(SeqMap(LAMBDA c : c.options, parser.commands)))
    IN {[args EXCEPT ![i] = args[i + 1], ![i + 1] = args[i]] :
           i \in {j \in 1..Len(args) - 1 : Movable(j) /\ Movable(j + 1) /\ Met(j) \cap Met(j + 1) = {}}}

\* What a handler gets has the types, the choices and the dependencies of the configuration;
\* only an option of several values, and one that nothing requires, may be empty.
Delivers(out, parser, command) ==
    LET options == Range(parser.globals) \cup OptionsOf(command)
        Given(n) == \E d \in out.options : d.name = n /\ d.values # <<>>
    IN \A o \in options :
        /\ o.required => Given(o.name)
        /\ \A d \in out.options : d.name = o.name =>
             /\ o.multiple \/ Len(d.values) = 1
             /\ \A v \in Range(d.values) : (o.type # "untyped" => HasType(v, o.type)) /\ v \notin o.refuses
                                           /\ \A choices \in o.choices : v \in choices

\* Legacy reads every text as JSON, wants what is glued plain, and takes a short option with
\* nothing after its = for a flag; it checks a value that a later one replaces; and it confuses a
\* name of one letter with the letter.
ReadAlike(args, parser) ==
    LET met == ParseArguments(args, parser).met
        names == {m.option.name : m \in Range(met)}
    IN /\ ~\E a \in Range(args) : LegacyMalformed(a) \/ (a.form = "option" /\ ~a.long /\ a.attached = {""})
       /\ \A i, j \in DOMAIN met : i # j /\ met[i].option = met[j].option => met[i].option.multiple
       /\ \A m \in Range(met) : m.raw = True \/ Parsed(ProcessQuotedArgument(m.raw.v)) = m.value
       /\ \A o \in Range(parser.globals) \cup OptionsOf(Range(parser.commands)) : o.short \cap names = {}

\* Every spelling of a configuration that was accepted leads to what it was configured for.
SpellingsResolve(parser) ==
    \A c \in Range(parser.commands) :
        /\ \A x \in {c.name} \cup Range(c.aliases) :
             FindCommand(x, parser) = {c} /\ FindLegacyCommand(x, parser) = {c}
        /\ \A o \in Range(parser.globals) \cup Range(c.options) :
             \A a \in {[long |-> TRUE, name |-> o.name]} \cup {[long |-> FALSE, name |-> x] : x \in o.short} :
                FindOption(a, parser.globals \o c.options) = {o}

\* An option means the same however it is spelled and wherever it stands after its command, a
\* handler that is called gets what its command declares, and what strict mode calls, legacy mode
\* calls with the same values wherever it reads the arguments alike.
\* An empty list, which only legacy mode gives, says no more than an absent option.
MeanTheirOptions(args, parser, strict, legacy) ==
    LET Present(out) == IF out.kind = "called" THEN [out EXCEPT !.options = {d \in @ : d.values # <<>>}] ELSE out
        Of(out) == {c \in Range(parser.commands) : c.name = out.command}
    IN /\ \A r \in Respelled(args, parser) \cup Reordered(args, parser) :
             Same(ExecuteStrict(r, parser)) = Same(strict)
       /\ \A out \in {strict, legacy} : out.kind = "called" => Delivers(out, parser, Of(out))
       /\ strict.kind = "called" /\ ReadAlike(args, parser) => Present(legacy) = strict
ArgumentsMeanTheirOptions(args, parser) ==
    MeanTheirOptions(args, parser, ExecuteStrict(args, parser), ExecuteLegacy(args, parser))

\* Asking again gives the same answer, none is given beyond the limits, and what is given is the
\* answer a session of its own would give.
SuggestionsAreStable(session, x, candidates) ==
    LET asked == Suggest(session, x, candidates)
        again == Suggest(asked.session, x, candidates)
        fresh == Suggest(NewSession, x, candidates)
    IN /\ again.answer = asked.answer /\ again.session = asked.session
       /\ asked.answer \subseteq fresh.answer
       /\ asked.session.lookups <= MaxLookups /\ asked.session.comparisons <= MaxComparisons
=============================================================================
