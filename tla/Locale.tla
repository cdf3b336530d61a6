------------------------------- MODULE Locale -------------------------------
(***************************************************************************)
(* The registry of tornado.locale (src/tornado/locale.py): what a load of  *)
(* translations leaves in _translations and _supported_locales, also when  *)
(* it fails halfway, and what get() and Locale.get() answer then.          *)
(***************************************************************************)
EXTENDS Naturals, Sequences

CONSTANTS
    Code,      \* locale codes
    Language,  \* Language[c]: the part before "_", or c itself
    Initial    \* "en_US"

ASSUME LocaleAssumption == Code \cap {"none", "unsupported", "KeyError"} = {}

VARIABLES
    translations, \* _translations: the codes, each with the number of its load
    supported,    \* _supported_locales
    default,      \* _default_locale
    loads,        \* ghost: loads so far
    returned,     \* ghost: one of them has returned
    failed        \* ghost: the last one has raised

localeVars == <<translations, supported, default, loads, returned, failed>>

LocaleInit ==
    /\ translations = [c \in {} |-> 0]
    /\ supported = {Initial}
    /\ default = Initial
    /\ loads = 0
    /\ returned = FALSE /\ failed = FALSE

Loaded == DOMAIN translations

First(S) == CHOOSE i \in S : \A j \in S : i <= j

\* How a file is encoded, and whether it can be read with an encoding.
Encoding == {"utf-8", "utf-8-sig", "utf-16"}
Readable(file, encoding) == (file = "utf-16") <=> (encoding = "utf-16")

-----------------------------------------------------------------------------
(* Seeded mistakes, used by no behaviour of the specification. *)

\* The supported locales are those of this load, not of all.
SupportedNow(read) == read

-----------------------------------------------------------------------------
\* The files of a directory are read in the order of os.listdir().  Without an
\* encoding argument the one detected for the first file is used for all: the
\* first that it does not fit raises UnicodeDecodeError.
ReadUpTo(files, given) ==
    LET encoding == IF given # "" \/ files = <<>> THEN given ELSE files[1].encoding
        bad == {i \in DOMAIN files : ~Readable(files[i].encoding, encoding)}
    IN  IF bad = {} THEN Len(files) ELSE First(bad) - 1

Register(codes) ==
    translations' = [c \in Loaded \cup codes |-> IF c \in codes THEN loads + 1 ELSE translations[c]]

\* `_supported_locales = frozenset(_translations.keys())`
SupportedAfter(read) == Loaded \cup read

\* load_translations(directory, encoding)
LoadTranslations(files, given) ==
    LET n == ReadUpTo(files, given)
        read == {files[i].code : i \in 1 .. n}
    IN  /\ Register(read)
        /\ supported' = IF n = Len(files) THEN SupportedAfter(read) ELSE supported
        /\ failed' = (n < Len(files)) /\ returned' = (returned \/ n = Len(files))
        /\ loads' = loads + 1
        /\ UNCHANGED default

\* load_gettext_translations(): GettextLocale has no `translations` when
\* Locale.__init__ translates the names of months, so that each language ends
\* in the handler that logs; the keys are taken all the same.
LoadGettext ==
    /\ supported' = SupportedAfter({})
    /\ failed' = FALSE /\ returned' = TRUE
    /\ loads' = loads + 1
    /\ UNCHANGED <<translations, default>>

SetDefaultLocale(c) ==
    /\ default' = c
    /\ UNCHANGED <<translations, supported, loads, returned, failed>>

\* get(code1, code2, ...): the first that is loaded, itself or as its
\* language, else the default, which may not be loaded.
NoLocale == "none"
Match(c) ==
    IF c \in Loaded THEN c ELSE IF Language[c] \in Loaded THEN Language[c] ELSE NoLocale
GetClosest(codes) ==
    LET found == {i \in DOMAIN codes : Match(codes[i]) # NoLocale}
    IN  IF found # {} THEN Match(codes[First(found)])
        ELSE IF default \in Loaded THEN default ELSE NoLocale

\* Locale.get(code): an exception, a KeyError, or the locale.
Get(c) ==
    IF c \notin supported THEN "unsupported" ELSE IF c \notin Loaded THEN "KeyError" ELSE c

Directory(n) ==
    {f \in UNION {[1 .. k -> [code : Code, encoding : Encoding]] : k \in 0 .. n} :
        \A i, j \in DOMAIN f : f[i].code = f[j].code => i = j}

LocaleNext(n, maxLoads) ==
    \/ /\ loads < maxLoads
       /\ \/ \E files \in Directory(n), given \in {"", "utf-8"} : LoadTranslations(files, given)
          \/ LoadGettext
    \/ \E c \in Code : SetDefaultLocale(c)

LocaleSpec(n, maxLoads) == LocaleInit /\ [][LocaleNext(n, maxLoads)]_localeVars

-----------------------------------------------------------------------------
\* Whatever loads fail halfway: once one has returned, every supported locale
\* can be had, and after one that returned those are all the loaded ones; and
\* a list of preferences is answered by a loaded locale if the default is one.
LookupsAgree ==
    /\ returned => \A c \in Code : Get(c) # "KeyError"
    /\ returned /\ ~failed => supported = Loaded
    /\ \A c, d \in Code :
          /\ Get(c) = c => GetClosest(<<c, d>>) = c
          /\ default \in Loaded => GetClosest(<<c, d>>) \in Loaded
=============================================================================
