----------------------------- MODULE JSSettings -----------------------------
(***************************************************************************)
(* What the user asks the JavaScript instrument to watch, turned into one  *)
(* full setting per object: openwpm/js_instrumentation.py, as              *)
(* TaskManager.__init__ applies it to the request of one browser.          *)
(*                                                                         *)
(* A request is a sequence of items: a name (the whole API), a name with a *)
(* list of properties, a name with some of the log settings, the shortcut  *)
(* of a collection, or something invalid.  `log' holds the settings the    *)
(* item gives, as a function of their keys.  The six scalar log settings   *)
(* are handled alike; `depth' stands for them.                             *)
(*                                                                         *)
(* TaskManager.__init__ first rebuilds the parameters of every browser     *)
(* from a dictionary of them, lists and all: no list is shared between two *)
(* browsers, or between two items, so what _merge_settings appends to a    *)
(* list in place is seen nowhere else.                                     *)
(***************************************************************************)
EXTENDS Integers, SequencesExt

CONSTANTS Names,           \* the names of properties that lists may hold
          Props,           \* the properties the objects have
          Null,            \* JSON's null
          WindowNames,     \* the names that begin with "window"
          Prototype(_),    \* "X" to "window['X'].prototype"
          Collection,      \* the items in the file of collection_fingerprinting
          Requests         \* the requests of the model

VARIABLES asked,     \* the request of the browser
          cleaned    \* what clean_js_instrumentation_settings gave, if it ran

vars == <<asked, cleaned>>

---------------------------------------------------------------------------
(* Items of a request, and full settings. *)

Api(name) == [kind |-> "api", name |-> name, log |-> <<>>]
Detailed(name, log) == [kind |-> "dict", name |-> name, log |-> log]
Listed(name, props) == Detailed(name, "propertiesToInstrument" :> props)
CollectionItem == [kind |-> "collection"]
Invalid == [kind |-> "invalid"]

list_log_settings == {"propertiesToInstrument",
                      "nonExistingPropertiesToInstrument",
                      "excludedProperties"}

\* An item: the lists it brings hold names and nulls, or are null altogether.
IsItem(item) ==
    /\ item.kind \in {"api", "dict", "collection", "invalid"}
    /\ item.kind = "api" => item.log = <<>>
    /\ item.kind = "dict" =>
          /\ DOMAIN item = {"kind", "name", "log"}
          /\ \A k \in DOMAIN item.log \cap list_log_settings :
                item.log[k] = Null \/ item.log[k] \in Seq(Names \cup {Null})

get_default_log_settings == [k \in list_log_settings \cup {"depth"} |->
                                IF k = "depth" THEN 5 ELSE <<>>]

\* f, and what g has for the keys f lacks.
Over(f, g) == [k \in DOMAIN f \cup DOMAIN g |-> IF k \in DOMAIN f THEN f[k] ELSE g[k]]

\* _handle_obj_string
ObjectOf(name) == IF name \in WindowNames THEN name ELSE Prototype(name)

\* The settings of a valid item.
_build_full_settings_object(item) ==
    [object |-> ObjectOf(item.name), instrumentedName |-> item.name,
     logSettings |-> Over(item.log, get_default_log_settings)]

\* The loop of clean_js_instrumentation_settings.
CollectionSettings == [j \in DOMAIN Collection |->
                          _build_full_settings_object(Collection[j])]
BuiltUpTo(items) ==
    LET built[n \in 0 .. Len(items)] ==
            IF n = 0 THEN <<>>
            ELSE IF items[n].kind = "collection" THEN built[n - 1] \o CollectionSettings
            ELSE Append(built[n - 1], _build_full_settings_object(items[n]))
    IN built
Built(items) == BuiltUpTo(items)[Len(items)]

\* The known keys: with an unknown one it matters whether it comes first, see
\* Mergeable.
KnownKeys(items) == \A i \in DOMAIN items :
    items[i].kind = "dict" => DOMAIN items[i].log \subseteq DOMAIN get_default_log_settings

\* The collection is a file of the repository, made of named items with known
\* keys only.
ASSUME RequestsAssumption ==
    /\ Props \subseteq Names
    /\ Null \notin Seq(Names \cup {Null})
    /\ \A items \in Requests \cup {Collection} :
          /\ items \in Seq(ToSet(items))
          /\ \A i \in DOMAIN items : IsItem(items[i])
    /\ \A j \in DOMAIN Collection : Collection[j].kind \in {"api", "dict"}
    /\ KnownKeys(Collection)

---------------------------------------------------------------------------
(* _merge_settings. *)

Clash(k, old, new) == IF k \in list_log_settings
                      THEN Null \in {old, new}
                      ELSE old # new

\* A key of the first setting that the second lacks is a KeyError; a key that
\* only the second has is never looked at.
Mergeable(first, new) ==
    /\ new.instrumentedName = first.instrumentedName
    /\ \A k \in DOMAIN first.logSettings :
          /\ k \in DOMAIN new.logSettings
          /\ ~Clash(k, first.logSettings[k], new.logSettings[k])

\* Variant: a second setting for an object takes the place of the first.
ExtendedReplaced(first, new) == new

Extended(first, new) ==
    [first EXCEPT !.logSettings =
        [k \in DOMAIN @ |-> IF k \in list_log_settings
                            THEN @[k] \o new.logSettings[k] ELSE @[k]]]

MergeOne(merged, setting) ==
    LET o == setting.object
    IN IF ~merged.ok THEN merged
       ELSE IF o \notin DOMAIN merged.settings
       THEN [merged EXCEPT !.settings = Over(@, [x \in {o} |-> setting])]
       ELSE IF Mergeable(merged.settings[o], setting)
       THEN [merged EXCEPT !.settings[o] = Extended(@, setting)]
       ELSE [merged EXCEPT !.ok = FALSE]

\* The loop of _merge_settings.
MergedUpTo(settings) ==
    LET merged[n \in 0 .. Len(settings)] ==
            IF n = 0 THEN [ok |-> TRUE, settings |-> <<>>]
            ELSE MergeOne(merged[n - 1], settings[n])
    IN merged
Merged(settings) == MergedUpTo(settings)[Len(settings)]

\* A list that holds a null is an error, merged or not.
ListsAreUsable(setting) ==
    \A k \in list_log_settings :
       setting.logSettings[k] # Null => Null \notin ToSet(setting.logSettings[k])

\* Variant: the lists are joined and left as they are.
DedupeNot(list) == list

Dedupe(list) == IF list = Null THEN Null ELSE SetToSeq(ToSet(list))

Deduped(setting) ==
    [setting EXCEPT !.logSettings =
        [k \in DOMAIN @ |-> IF k \in list_log_settings THEN Dedupe(@[k]) ELSE @[k]]]

---------------------------------------------------------------------------
(* _validate, and the whole function. *)

\* The schema: these keys and no others, and null for one of them only.
FitsSchema(setting) ==
    LET log == setting.logSettings
    IN /\ DOMAIN log = DOMAIN get_default_log_settings
       /\ Null \notin {log[k] : k \in list_log_settings \ {"propertiesToInstrument"}}

\* Variant: what is to be watched and left out at once is not looked for.
CollidesNever(setting) == FALSE

Collides(setting) ==
    LET log == setting.logSettings
    IN /\ log.propertiesToInstrument # Null
       /\ ToSet(log.propertiesToInstrument) \cap ToSet(log.excludedProperties) # {}

_validate(setting) == FitsSchema(setting) /\ ~Collides(setting)

Failed == [ok |-> FALSE]

clean_js_instrumentation_settings(items) ==
    IF \E i \in DOMAIN items : items[i].kind = "invalid" THEN Failed
    ELSE LET merged == Merged(Built(items))
             settings == [o \in DOMAIN merged.settings |-> Deduped(merged.settings[o])]
         IN IF /\ merged.ok
               /\ \A o \in DOMAIN settings : ListsAreUsable(merged.settings[o])
               /\ \A o \in DOMAIN settings : _validate(settings[o])
            THEN [ok |-> TRUE, settings |-> settings]
            ELSE Failed

---------------------------------------------------------------------------
(* TaskManager.__init__, for one browser. *)

Init == asked \in Requests /\ cleaned = <<>>

CleanNext == /\ cleaned = <<>>
             /\ cleaned' = <<clean_js_instrumentation_settings(asked)>>
             /\ UNCHANGED asked

Next == CleanNext

Spec == Init /\ [][Next]_vars

---------------------------------------------------------------------------
(* What the settings mean, and what was asked for. *)

\* instrumentObject of the extension: null is none, the empty list is all, and
\* what is excluded is left out in any case.
propertiesToInstrument(log) ==
    CASE log.propertiesToInstrument = Null -> {}
      [] log.propertiesToInstrument = <<>> -> Props
      [] OTHER -> ToSet(log.propertiesToInstrument)
Instrumented(log) == propertiesToInstrument(log) \ ToSet(log.excludedProperties)

AskedFor(o) == {s \in ToSet(Built(asked)) : s.object = o}
Given(o, k) == UNION {ToSet(s.logSettings[k]) : s \in AskedFor(o)}
Lists(o) == {s.logSettings.propertiesToInstrument : s \in AskedFor(o)} \ {<<>>, Null}

\* What is watched on an object: the properties that items list or, when no
\* item lists any, what the items ask for anyway; less what any item excludes.
Wanted(o) ==
    (IF Lists(o) # {} THEN UNION {ToSet(l) : l \in Lists(o)}
     ELSE UNION {propertiesToInstrument(s.logSettings) : s \in AskedFor(o)})
      \ Given(o, "excludedProperties")

AsAsked(settings) ==
    /\ DOMAIN settings = {s.object : s \in ToSet(Built(asked))}
    /\ \A o \in DOMAIN settings :
          LET log == settings[o].logSettings
          IN /\ Instrumented(log) = Wanted(o)
             /\ ToSet(log.nonExistingPropertiesToInstrument)
                  = Given(o, "nonExistingPropertiesToInstrument")
             /\ \A s \in AskedFor(o) : /\ s.instrumentedName = settings[o].instrumentedName
                                       /\ s.logSettings.depth = log.depth

\* An item that lists a property another one excludes contradicts it.
NoContradiction(settings) ==
    \A o \in DOMAIN settings :
       (UNION {ToSet(l) : l \in Lists(o)}) \cap Given(o, "excludedProperties") = {}

\* No property is wrapped twice because two items name it.
OnceEach(settings) ==
    \A o \in DOMAIN settings : \A k \in list_log_settings :
       LET list == settings[o].logSettings[k]
       IN list # Null => IsInjective(list)

Watched(result) ==
    [o \in DOMAIN result.settings |-> Instrumented(result.settings[o].logSettings)]

SameInAnyOrder(result) ==
    \A order \in SetToSeqs(DOMAIN asked) :
       LET other == clean_js_instrumentation_settings([i \in DOMAIN asked |-> asked[order[i]]])
       IN /\ other.ok = result.ok
          /\ result.ok => Watched(other) = Watched(result)

\* Cleaned settings watch what was asked for: no property twice, none that is
\* excluded, and the same in whatever order the items stand.  An item for the
\* whole API counts only when no other item lists properties of the object.
\* (_merge_settings: "you could still end up instrumenting a property twice")
CleanedAsAsked ==
    \A i \in DOMAIN cleaned :
       /\ cleaned[i].ok => /\ AsAsked(cleaned[i].settings)
                           /\ NoContradiction(cleaned[i].settings)
                           /\ OnceEach(cleaned[i].settings)
       /\ KnownKeys(asked) => SameInAnyOrder(cleaned[i])
=============================================================================
