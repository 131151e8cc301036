-------------------------- MODULE ClientPreferences --------------------------
(***************************************************************************)
(* What the web client remembers of its user from one visit to the next:   *)
(* theme, language, tab, range with its custom dates, and the lines of the *)
(* charts.  Each is written to the browser's storage when it changes, and  *)
(* read, with what cannot be used replaced, when the page is opened.       *)
(***************************************************************************)
EXTENDS Integers, Sequences, SequencesExt

CONSTANTS
  PrefTab,    \* USAGE_TAB_OPTIONS
  FirstTab,   \* DEFAULT_USAGE_TAB, the overview
  PrefRange,  \* isUsageTimeRange, "24h" of earlier versions included
  LineModel,  \* models of the usage
  Days,       \* bound: dates are 1..Days
  MaxLines    \* MAX_CHART_LINES

ASSUME PreferencesAssumption ==
  /\ FirstTab \in PrefTab /\ {"all", "24h", "custom"} \subseteq PrefRange
  /\ "all" \notin LineModel /\ "" \notin LineModel
  /\ Days \in Nat \ {0} /\ MaxLines \in Nat \ {0}

VARIABLES
  prefs,    \* the state of the page
  saved,    \* localStorage
  system,   \* the theme of the operating system
  applied,  \* data-theme of the document
  resolved, \* resolvedTheme
  known,    \* the models of the overview
  ready     \* it is there and not loading

prefVars == <<prefs, saved, system, applied, resolved, known, ready>>

Theme == {"light", "white", "dark", "auto"}
Date == 0..Days  \* 0 is a date that is missing or is none
Lines == SeqOf(LineModel \cup {"all"}, MaxLines) \ {<<>>}
Preferences ==
  [theme : Theme, language : {"en", "zh"}, tab : PrefTab, range : PrefRange \ {"24h"},
   start : Date, end : Date, lines : Lines]

(* What the page has saved; a language it does not know stays. *)
Stored == UNION {{[p EXCEPT !.language = l] : p \in Preferences} : l \in {"en", "zh", "other"}}

(* resolveTheme, resolveAutoTheme and normalizeResolvedTheme. *)
ResolveTheme(theme, sys) ==
  IF theme = "auto" THEN (IF sys = "dark" THEN "dark" ELSE "white") ELSE theme
NormalizeResolved(theme) == IF theme = "dark" THEN "dark" ELSE "light"

(* buildDefaultCustomRange: 8 hours up to now, or up to the last refresh. *)
DefaultDates == {[start |-> s, end |-> e] : s \in Date, e \in 1..Days}
DefaultRange == {d \in DefaultDates : d.start \in {d.end - 1, d.end} \ {0}}

ValidDates(d) == d.start # 0 /\ d.end # 0 /\ d.start <= d.end

(* loadCustomTimeRange: dates that are missing stay so, others are valid or replaced. *)
LoadCustomTimeRange(d) ==
  IF ValidDates(d) \/ d.start = 0 \/ d.end = 0 THEN {[start |-> d.start, end |-> d.end]} ELSE DefaultRange

(* The lines at the positions P, in their order. *)
LinesAt(lines, P) ==
  [n \in 1..Cardinality(P) |-> lines[CHOOSE i \in P : Cardinality({k \in P : k < i}) = n - 1]]

(* normalizeChartLines; names are trimmed. *)
NormalizeLines(lines) ==
  LET named == LinesAt(lines, {i \in DOMAIN lines : lines[i] # ""})
      first == SubSeq(named, 1, IF Len(named) < MaxLines THEN Len(named) ELSE MaxLines)
  IN IF first = <<>> THEN <<"all">> ELSE first

(* sanitizeChartLines. *)
SanitizeLines(lines, models) ==
  LET good == LinesAt(lines, {i \in DOMAIN lines : lines[i] \in models \cup {"all"}})
  IN IF good = <<>> THEN <<"all">> ELSE good

LoadTimeRange(r) == IF r \in PrefRange \ {"24h"} THEN r ELSE "all"
LoadUsageTab(t) == IF t \in PrefTab THEN t ELSE FirstTab
InitialLanguage(l) == IF l = "zh" THEN "zh" ELSE "en"

(* What the page makes of storage when it is opened. *)
Loaded(s) ==
  {[theme |-> s.theme, language |-> InitialLanguage(s.language), tab |-> LoadUsageTab(s.tab),
    range |-> LoadTimeRange(s.range), start |-> d.start, end |-> d.end,
    lines |-> NormalizeLines(s.lines)] : d \in LoadCustomTimeRange(s)}

(* A custom range without both dates gets default ones at once. *)
Filled(p) ==
  IF p.range = "custom" /\ (p.start = 0 \/ p.end = 0)
  THEN {[p EXCEPT !.start = d.start, !.end = d.end] : d \in DefaultRange}
  ELSE {p}

Sane(p, models, r) ==
  IF p.tab = FirstTab /\ r THEN [p EXCEPT !.lines = SanitizeLines(@, models)] ELSE p

PrefTypeOK ==
  /\ prefs \in Preferences /\ saved \in Stored
  /\ system \in {"light", "dark"} /\ applied \in {"light", "white", "dark"} /\ resolved \in {"light", "dark"}
  /\ known \subseteq LineModel /\ ready \in BOOLEAN

-----------------------------------------------------------------------------
(* setTheme. *)
ApplyTheme(theme, sys) ==
  /\ applied' = ResolveTheme(theme, sys)
  /\ resolved' = NormalizeResolved(applied')

(* Preferences change to one of ps: the effects fill and sanitize them, and each that has
   changed is saved. *)
Change(ps) ==
  /\ \E p \in ps : \E q \in Filled(p) : prefs' = Sane(q, known, ready)
  /\ saved' = [f \in DOMAIN saved |-> IF prefs'[f] = prefs[f] THEN saved[f] ELSE prefs'[f]]
  /\ UNCHANGED <<system, known, ready>>

(* The page is opened, for the first time or again: all but the language is saved. *)
OpenPage ==
  /\ ready' = FALSE /\ known' = {}
  /\ \E p \in Loaded(saved) : prefs' \in Filled(p)
  /\ saved' = [prefs' EXCEPT !.language = saved.language]
  /\ ApplyTheme(prefs'.theme, system)
  /\ UNCHANGED system

(* What storage may hold at first: of an earlier version, or edited. *)
FirstVisit ==
  [theme : Theme, language : {"en", "zh", "other"}, tab : PrefTab \cup {"other"},
   range : PrefRange \cup {"other"}, start : {0}, end : Date, lines : {<<"all">>}]
  \cup [theme : {"white"}, language : {"en"}, tab : {FirstTab}, range : {"custom"},
        start : Date, end : Date, lines : {<<>>, [i \in 1..MaxLines + 1 |-> "all"]} \cup {<<"", m>> : m \in LineModel}]

PrefInit ==
  /\ \E s \in FirstVisit : \E p \in Loaded(s) :
       prefs \in Filled(p) /\ saved = [prefs EXCEPT !.language = s.language]
  /\ system \in {"light", "dark"}
  /\ known = {} /\ ready = FALSE
  /\ applied = ResolveTheme(prefs.theme, system) /\ resolved = NormalizeResolved(applied)

SetTheme(theme) ==
  /\ Change({[prefs EXCEPT !.theme = theme]})
  /\ ApplyTheme(theme, system)

(* cycleTheme. *)
CycleTheme ==
  LET order == <<"light", "white", "dark", "auto">>
      next == CHOOSE i \in DOMAIN order : order[i] = prefs.theme
  IN SetTheme(order[(next % Len(order)) + 1])

(* Mutant: the listener asks for the theme of the moment it was installed. *)
SystemThemeChangesAlways ==
  /\ system' = IF system = "dark" THEN "light" ELSE "dark"
  /\ ApplyTheme("auto", system')
  /\ UNCHANGED <<prefs, saved, known, ready>>

(* The listener of initializeTheme. *)
SystemThemeChanges ==
  /\ system' = IF system = "dark" THEN "light" ELSE "dark"
  /\ IF prefs.theme = "auto" THEN ApplyTheme("auto", system') ELSE UNCHANGED <<applied, resolved>>
  /\ UNCHANGED <<prefs, saved, known, ready>>

(* handleLanguageChange and persistLanguage. *)
ChangeLanguage(language) ==
  /\ language # prefs.language
  /\ Change({[prefs EXCEPT !.language = language]})
  /\ UNCHANGED <<applied, resolved>>

ChangeTab(t) == Change({[prefs EXCEPT !.tab = t]}) /\ UNCHANGED <<applied, resolved>>
ChangeRange(r) ==
  /\ r # "24h"
  /\ Change({[prefs EXCEPT !.range = r]})
  /\ UNCHANGED <<applied, resolved>>

(* A date field, of a custom range only. *)
ChangeDates ==
  /\ prefs.range = "custom"
  /\ Change({[prefs EXCEPT !.start = d] : d \in Date} \cup {[prefs EXCEPT !.end = d] : d \in Date})
  /\ UNCHANGED <<applied, resolved>>

(* An overview comes: its models are those that lines may be of. *)
OverviewLoads(models) ==
  /\ prefs.tab = FirstTab
  /\ known' = models /\ ready' = TRUE
  /\ prefs' = Sane(prefs, models, TRUE)
  /\ saved' = [saved EXCEPT !.lines = prefs'.lines]
  /\ UNCHANGED <<system, applied, resolved>>

OverviewReloads == ready /\ ready' = FALSE /\ UNCHANGED <<prefs, saved, system, applied, resolved, known>>

(* handleChartLinesChange. *)
ChangeLines(lines) ==
  /\ prefs.tab = FirstTab
  /\ Change({[prefs EXCEPT !.lines = NormalizeLines(lines)]})
  /\ UNCHANGED <<applied, resolved>>

(* handleAdd: the first model without a line, or everything once more. *)
AddLine ==
  LET unused == known \ {prefs.lines[i] : i \in DOMAIN prefs.lines} IN
  /\ Len(prefs.lines) < MaxLines
  /\ \E l \in IF unused = {} THEN {"all"} ELSE unused : ChangeLines(Append(prefs.lines, l))

(* handleRemove. *)
RemoveLine(i) ==
  /\ Len(prefs.lines) > 1 /\ i \in DOMAIN prefs.lines
  /\ ChangeLines(RemoveAt(prefs.lines, i))

(* handleChange. *)
ChangeLine(i) ==
  /\ i \in DOMAIN prefs.lines
  /\ \E l \in known \cup {"all"} : ChangeLines([prefs.lines EXCEPT ![i] = l])

PrefNext ==
  \/ OpenPage
  \/ \E theme \in {"white", "dark", "auto"} : SetTheme(theme)
  \/ CycleTheme \/ SystemThemeChanges
  \/ \E language \in {"en", "zh"} : ChangeLanguage(language)
  \/ \E t \in PrefTab : ChangeTab(t)
  \/ \E r \in PrefRange : ChangeRange(r)
  \/ ChangeDates
  \/ \E models \in SUBSET LineModel : OverviewLoads(models)
  \/ OverviewReloads \/ AddLine
  \/ \E i \in 1..MaxLines : RemoveLine(i) \/ ChangeLine(i)

PrefSpec == PrefInit /\ [][PrefNext]_prefVars

-----------------------------------------------------------------------------
(* Properties. *)

(***************************************************************************)
(* Opening the page again changes nothing of what the user sees: what      *)
(* storage holds is read back as it was, except for custom dates in the    *)
(* wrong order; and it can always be shown.  The theme shown is the one    *)
(* chosen, or the system's of now; a line of the charts that are ready is  *)
(* of a model that is there.                                               *)
(***************************************************************************)
PreferencesKept ==
  /\ ValidDates(prefs) \/ (prefs.range # "custom" /\ (prefs.start = 0 \/ prefs.end = 0)) =>
       Loaded(saved) = {prefs}
  /\ prefs.range = "custom" => prefs.start # 0 /\ prefs.end # 0
  /\ applied = ResolveTheme(prefs.theme, system) /\ resolved = NormalizeResolved(applied)
  /\ prefs.tab = FirstTab /\ ready => \A i \in DOMAIN prefs.lines : prefs.lines[i] \in known \cup {"all"}
=============================================================================
