----------------------------- MODULE Translation -----------------------------
(***************************************************************************)
(* packages/i18n and packages/webafx-i18n: files and rows become a catalog,*)
(* a key and a locale become a text; the locale of a request; reloads.     *)
(*                                                                         *)
(* A locale or a file's name is the sequence of its parts and of the marks *)
(* between them.  A catalog is a function from keys to entries, an entry   *)
(* one from locales to values, a value <<text>> or <<singular, plural>>.   *)
(***************************************************************************)
EXTENDS Integers, Sequences, FiniteSets, SequencesExt, TLC

Marks == {"-", "_", "."}
Nothing == [k \in {} |-> <<>>]

-----------------------------------------------------------------------------
(* translator.ts                                                           *)

Places(name, mark) == {i \in DOMAIN name : name[i] = mark}
FirstPlace(name, mark) == CHOOSE i \in Places(name, mark) : \A j \in Places(name, mark) : i <= j
\* split(mark)[0], and [1] where there is one.
Head0(name, mark) == IF Places(name, mark) = {} THEN name ELSE SubSeq(name, 1, FirstPlace(name, mark) - 1)
Tail0(name, mark) == IF Places(name, mark) = {} THEN <<>> ELSE SubSeq(name, FirstPlace(name, mark) + 1, Len(name))

\* Mutant of ParseLocale: the mark stays as it is written.
ParseAsWritten(locale) ==
    [full |-> Head0(locale, "."), language |-> Head0(Head0(locale, "."), "_"),
     region |-> Head0(Tail0(Head0(locale, "."), "_"), "_")]
\* Only the first "-" becomes a "_".
ParseLocale(locale) ==
    LET plain == Head0(locale, ".")
        full == IF Places(plain, "-") = {} THEN plain ELSE [plain EXCEPT ![FirstPlace(plain, "-")] = "_"]
    IN [full |-> full, language |-> Head0(full, "_"), region |-> Head0(Tail0(full, "_"), "_")]

\* The region of "nl_" is empty and counts as none.
ResolveValue(entry, parts) ==
    IF parts.full \in DOMAIN entry THEN {entry[parts.full]}
    ELSE IF parts.region # <<>> /\ parts.language \in DOMAIN entry THEN {entry[parts.language]}
    ELSE {}

\* count: {} when it is no number.
SelectPlural(value, count) == IF Len(value) = 1 \/ count \in {{}, {1}} THEN value[1] ELSE value[2]

\* formatString of packages/stdlib: a text is a sequence of pieces, a piece either as it stands or a
\* path of the parameters with its default; the text of an empty parameter is "".
FormatPiece(piece, params) ==
    IF piece.path = "" THEN piece
    ELSE IF piece.path \in DOMAIN params /\ params[piece.path] # "" THEN [path |-> "", text |-> params[piece.path], default |-> {}]
    ELSE IF piece.default # {} THEN [path |-> "", text |-> CHOOSE d \in piece.default : TRUE, default |-> {}]
    ELSE piece
FormatString(template, params) == [i \in DOMAIN template |-> FormatPiece(template[i], params)]

\* {} where onMissingTranslation is called and the key itself is the text.
Translate(catalog, key, locale, count, params) ==
    IF key \notin DOMAIN catalog THEN {}
    ELSE {FormatString(SelectPlural(v, count), params) : v \in ResolveValue(catalog[key], ParseLocale(locale))}
HasKey(catalog, key, locale) == key \in DOMAIN catalog /\ ResolveValue(catalog[key], ParseLocale(locale)) # {}
GetTranslationsForLocale(catalog, locale) ==
    LET Of(key) == ResolveValue(catalog[key], ParseLocale(locale))
    IN [key \in {k \in DOMAIN catalog : Of(k) # {}} |-> CHOOSE v \in Of(key) : TRUE]

-----------------------------------------------------------------------------
(* json-file-source.ts, content-file-source.ts, postgresql-source.ts.  The *)
(* data of a file is a sequence of keys with what they have: a text or a   *)
(* pair (text), or an object, a function from locales to those (texts).    *)

Put(catalog, key, locale, value) ==
    LET entry == IF key \in DOMAIN catalog THEN catalog[key] ELSE Nothing
    IN (key :> (locale :> value @@ entry)) @@ catalog

DetectFormat(data) == IF data = <<>> THEN "multi-locale" ELSE IF data[1].is = "object" THEN "multi-locale" ELSE "single-locale"
\* An object where a text is expected becomes its string; the entries of a text are its characters.
ObjectText == <<"[object Object]">>
NormalizeValue(item) == IF item.is = "object" THEN ObjectText ELSE item.text
EntriesOf(item) == IF item.is = "object" THEN item.texts ELSE <<"0">> :> <<"a character">>
MergeMultiLocale(catalog, data) ==
    FoldLeft(LAMBDA c, item : LET entries == EntriesOf(item)
                              IN (item.key :> (entries @@ (IF item.key \in DOMAIN c THEN c[item.key] ELSE Nothing))) @@ c,
             catalog, data)
MergeSingleLocale(catalog, data, locale) ==
    FoldLeft(LAMBDA c, item : Put(c, item.key, locale, NormalizeValue(item)), catalog, data)

\* "messages.nl.json": what stands before the extension.
RECURSIVE Pieces(_)
Pieces(name) == IF Places(name, ".") = {} THEN <<name>> ELSE <<Head0(name, ".")>> \o Pieces(Tail0(name, "."))
ExtractLocaleFromFilename(name) == LET parts == Pieces(name) IN parts[Len(parts) - 1]

\* The paths are sorted: files is in that order.  A file that is no JSON fails the load.
JsonLoad(files) ==
    LET Add(catalog, file) == IF DetectFormat(file.data) = "multi-locale" THEN MergeMultiLocale(catalog, file.data)
                              ELSE MergeSingleLocale(catalog, file.data, ExtractLocaleFromFilename(file.name))
    IN IF \E i \in DOMAIN files : files[i].malformed THEN {} ELSE {FoldLeft(Add, Nothing, files)}

\* "nl.welcome.mail.html" has the key <<"welcome", ".", "mail">>.
ParseContentFilename(name) ==
    LET parts == Pieces(name)
        dots == Places(name, ".")
        last == CHOOSE i \in dots : \A j \in dots : j <= i
        key == SubSeq(name, Len(parts[1]) + 2, last - 1)
    IN IF Len(parts) < 3 \/ parts[1] = <<>> \/ key = <<>> THEN {} ELSE {[locale |-> parts[1], key |-> key]}
ContentLoad(files, extensions) ==
    LET Add(catalog, file) ==
            LET parsed == ParseContentFilename(file.name)
            IN IF parsed = {} \/ Last(Pieces(file.name)) \notin extensions THEN catalog
               ELSE LET p == CHOOSE x \in parsed : TRUE IN Put(catalog, p.key, p.locale, file.content)
    IN FoldLeft(Add, Nothing, files)

\* Rows sorted by key and locale.
RowsLoad(rows) == FoldLeft(LAMBDA c, r : Put(c, r.key, r.locale, r.value), Nothing, rows)

MergeCatalogs(catalogs) ==
    FoldLeft(LAMBDA result, c : [k \in DOMAIN c \cup DOMAIN result |->
                 (IF k \in DOMAIN c THEN c[k] ELSE Nothing) @@ (IF k \in DOMAIN result THEN result[k] ELSE Nothing)],
             Nothing, catalogs)

-----------------------------------------------------------------------------
(* locale-resolver.ts.  A quality is in tenths, a negative one no number.  *)

Normalized(locale) == IF Places(locale, "-") = {} THEN locale ELSE [locale EXCEPT ![FirstPlace(locale, "-")] = "_"]
ParseAcceptLanguage(header) ==
    LET entries == SelectSeq(header, LAMBDA e : e.locale \notin {<<"*">>, <<>>} /\ e.quality > 0)
        best == {i \in DOMAIN entries : \A j \in DOMAIN entries :
                    entries[j].quality < entries[i].quality \/ (entries[j].quality = entries[i].quality /\ i <= j)}
    IN {Normalized(entries[i].locale) : i \in best}
\* The cookie of the answer is what was resolved.
ResolveLocale(req, default) ==
    LET accepted == ParseAcceptLanguage(req.acceptLanguage)
    IN IF req.query \notin {{}, {<<>>}} THEN CHOOSE l \in req.query : TRUE
       ELSE IF accepted # {} THEN CHOOSE l \in accepted : TRUE
       ELSE IF req.cookie # {} THEN CHOOSE l \in req.cookie : TRUE
       ELSE default

-----------------------------------------------------------------------------
(* i18n-plugin.ts: reloads.  The sources have versions that change at any  *)
(* time; a load reads one source after the other.  Nothing keeps two loads *)
(* apart: a notice and the reload service each start one.                  *)

NoLoads == [versions |-> [s \in {1, 2} |-> 0], catalog |-> [s \in {1, 2} |-> 0], loads |-> <<>>, since |-> [s \in {1, 2} |-> 0],
            alone |-> TRUE]
ReloadSources(i18n) ==
    [i18n EXCEPT !.loads = Append(@, [read |-> <<>>, from |-> i18n.versions, open |-> TRUE]),
                 !.alone = @ /\ \A k \in DOMAIN i18n.loads : ~i18n.loads[k].open]
LoadNext(i18n, k) == [i18n EXCEPT !.loads[k].read = Append(@, i18n.versions[Len(@) + 1])]
\* setCatalog, once every source is read.
Swap(i18n, k) ==
    [i18n EXCEPT !.catalog = i18n.loads[k].read, !.since = i18n.loads[k].from, !.loads[k].open = FALSE]
LoadFails(i18n, k) == [i18n EXCEPT !.loads[k].open = FALSE]

-----------------------------------------------------------------------------

\* A locale finds the same text however its mark is written and whatever encoding follows; a text of
\* its own goes before that of its language, and a language never finds a text of one region only.
\* The text, the question whether there is one, and the table for a client agree.
LocaleFindsItsText(catalog, key, locale, params) ==
    LET one == Translate(catalog, key, locale, {1}, params)
        Respelled(mark) == [i \in DOMAIN locale |-> IF i = FirstPlace(locale, "-") THEN mark ELSE locale[i]]
        table == GetTranslationsForLocale(catalog, locale)
        entry == IF key \in DOMAIN catalog THEN catalog[key] ELSE Nothing
    IN /\ HasKey(catalog, key, locale) <=> key \in DOMAIN table
       /\ one = {FormatString(table[k][1], params) : k \in DOMAIN table \cap {key}}
       /\ one = Translate(catalog, key, locale \o <<".", "UTF-8">>, {1}, params)
       /\ Cardinality(Places(locale, "-")) = 1 => one = Translate(catalog, key, Respelled("_"), {1}, params)
       /\ \A many \in Translate(catalog, key, locale, {2}, params) : one # {}
       /\ one = {} => locale \notin DOMAIN entry \/ Places(locale, "-") \cup Places(locale, ".") # {}
       /\ Places(locale, "-") \cup Places(locale, "_") = {} /\ one # {} => locale \in DOMAIN entry
       /\ \A text \in one : \A i \in DOMAIN text : text[i].path # "" => text[i].default = {}

Plain(data) == (\A i \in DOMAIN data : data[i].is = "object") \/ (\A i \in DOMAIN data : data[i].is # "object")

\* Of all that say something of a key and a locale the last decides, whether it is a file of the same
\* source or another source, and what only an earlier one says stays; how the files are spread over
\* sources, or the catalogs over merges, makes no difference.  A file that no load can read fails all.
\* (A file with an object in one place and a text in another is not asked about.)
LastSourceDecides(files, others) ==
    LET loaded == JsonLoad(files)
        One(file) == CHOOSE c \in JsonLoad(<<file>>) : TRUE
        Says(c, key, locale) == key \in DOMAIN c /\ locale \in DOMAIN c[key]
    IN IF \E i \in DOMAIN files : files[i].malformed THEN loaded = {}
       ELSE LET catalogs == [i \in DOMAIN files |-> One(files[i])] \o <<others>>
                all == MergeCatalogs(catalogs)
            IN (\A i \in DOMAIN files : Plain(files[i].data)) =>
                 /\ all = MergeCatalogs(<<CHOOSE c \in loaded : TRUE, others>>)
                 /\ all = MergeCatalogs(<<catalogs[1], MergeCatalogs(Tail(catalogs))>>)
                 /\ \A i \in DOMAIN catalogs : \A key \in DOMAIN catalogs[i] : \A locale \in DOMAIN catalogs[i][key] :
                      all[key][locale] = LET last == CHOOSE j \in DOMAIN catalogs :
                                                 /\ Says(catalogs[j], key, locale)
                                                 /\ \A k \in (j + 1)..Len(catalogs) : ~Says(catalogs[k], key, locale)
                                         IN catalogs[last][key][locale]
                 /\ \A i \in DOMAIN files : \A j \in DOMAIN files[i].data :
                      files[i].data[j].is # "object" =>
                        Says(all, files[i].data[j].key, ExtractLocaleFromFilename(files[i].name))

\* A content file has one key and one locale, and no part of its name but the extension is lost.
ContentIsFound(name, extensions) ==
    \A parsed \in ParseContentFilename(name) :
        /\ parsed.locale \o <<".">> \o parsed.key \o <<".">> \o Last(Pieces(name)) = name
        /\ LET loaded == ContentLoad(<<[name |-> name, content |-> <<"c">>]>>, extensions)
           IN Last(Pieces(name)) \in extensions <=> loaded = (parsed.key :> (parsed.locale :> <<"c">>))

\* What a request asks for decides in the documented order, and no locale is taken that the header
\* refuses or ranks below another; a request that only brings back the cookie of the last answer gets
\* the same locale again.
LocaleIsAskedFor(req, default) ==
    LET locale == ResolveLocale(req, default)
        accepted == {req.acceptLanguage[i] : i \in DOMAIN req.acceptLanguage}
    IN /\ req.query \notin {{}, {<<>>}} => locale \in req.query
       /\ req.query \in {{}, {<<>>}} /\ locale \notin req.cookie \cup {default} =>
            \E e \in accepted : /\ Normalized(e.locale) = locale /\ e.quality > 0
                                /\ \A f \in accepted : f.quality > e.quality => f.locale \in {<<"*">>, <<>>}
       /\ ResolveLocale([query |-> {}, acceptLanguage |-> <<>>, cookie |-> {locale}], default) = locale

\* The catalog shown was read as a whole by one load, each source after that load began; a load that
\* failed changes nothing.  While no two loads overlap no source goes back to an older version.
\* (An older load may end last and put its catalog over a newer one.)
ReloadsAreHonest(i18n, newest) ==
    /\ \A s \in DOMAIN i18n.catalog : i18n.since[s] <= i18n.catalog[s] /\ i18n.catalog[s] <= i18n.versions[s]
    /\ i18n.alone => i18n.catalog = newest
=============================================================================
