---------------------------- MODULE KeyExchange -----------------------------
(***************************************************************************)
(* Content keys: the SPEKE request and the CPIX document that answers it   *)
(* (drm/speke.rs, drm/cpix.rs), raw keys, and the DRM information of a     *)
(* manifest (build_manifest_drm_info of repackager/pipeline.rs).           *)
(*                                                                         *)
(* A document is the sequence of the events its XML reader reports.  The   *)
(* key of a key id is written as the key id itself.                        *)
(***************************************************************************)
EXTENDS Naturals, Sequences, FiniteSets, SequencesExt, Lists

CONSTANTS
    Systems,        \* DRM systems of the configuration, in the order they are asked for
    PsshForms,      \* what the server puts for a PSSH: "filled", "empty" or "absent"
    DataForms       \* and for ContentProtectionData

ASSUME FormsAssumption ==
    PsshForms \subseteq {"filled", "empty", "absent"} /\ DataForms \subseteq {"filled", "empty", "absent"}
ASSUME SystemsAssumption == IsList(Systems)

Unset == "unset"

-----------------------------------------------------------------------------
(* The answer of the key server                                             *)

Event(kind, name) == [kind |-> kind, name |-> name, kid |-> Unset, system |-> Unset, text |-> Unset]
Open(name, kid, system) == [Event("start", name) EXCEPT !.kid = kid, !.system = system]
Text(text) == [Event("text", Unset) EXCEPT !.text = text]

\* An element that holds a text, in one of the forms a server may give it.
Element(name, text, form) ==
    CASE form = "filled" -> << Event("start", name), Text(text), Event("end", name) >>
      [] form = "empty"  -> << Event("empty", name) >>
      [] form = "absent" -> << >>

ContentKeyEvents(kid) ==
    << Open("ContentKey", kid, Unset), Event("start", "PlainValue"), Text(kid),
       Event("end", "PlainValue"), Event("end", "ContentKey") >>

DrmSystemEvents(system, kid, pssh, data) ==
    << Open("DRMSystem", kid, system) >>
    \o Element("PSSH", "pssh", pssh) \o Element("ContentProtectionData", "data", data)
    \o << Event("end", "DRMSystem") >>

\* The documents a server may answer to build_cpix_request: the keys of the key
\* ids it knows, and for each of them every system that was asked for.
CpixDocument(kids, pssh, data) ==
    FlattenSeq([i \in 1..Len(kids) |-> ContentKeyEvents(kids[i])])
    \o FlattenSeq([s \in 1..Len(Systems) |->
           FlattenSeq([i \in 1..Len(kids) |-> DrmSystemEvents(Systems[s], kids[i], pssh, data)])])

Answers(kids) ==
    {CpixDocument(Chosen(kids, known), pssh, data) :
        known \in SUBSET (1..Len(kids)), pssh \in PsshForms, data \in DataForms}

-----------------------------------------------------------------------------
(* parse_cpix_response                                                      *)

ParserStart ==
    [kid |-> Unset, system |-> Unset, inValue |-> FALSE, inPssh |-> FALSE, inData |-> FALSE,
     keys |-> << >>, systems |-> << >>]

\* A start tag, and an empty element as if it were one.
Opened(p, e) ==
    CASE e.name = "ContentKey" -> [p EXCEPT !.kid = e.kid]
      [] e.name = "DRMSystem"  -> [p EXCEPT !.kid = e.kid, !.system = e.system]
      [] e.name = "PlainValue" -> [p EXCEPT !.inValue = TRUE]
      [] e.name = "PSSH"       -> [p EXCEPT !.inPssh = TRUE]
      [] e.name = "ContentProtectionData" -> [p EXCEPT !.inData = TRUE]

\* Mutant: the end of a PSSH is not noticed.
ClosedKeepPssh(p, e) ==
    CASE e.name = "ContentKey" -> [p EXCEPT !.kid = Unset]
      [] e.name = "DRMSystem"  -> [p EXCEPT !.kid = Unset, !.system = Unset]
      [] e.name = "PlainValue" -> [p EXCEPT !.inValue = FALSE]
      [] e.name = "PSSH"       -> p
      [] e.name = "ContentProtectionData" -> [p EXCEPT !.inData = FALSE]

Closed(p, e) ==
    CASE e.name = "ContentKey" -> [p EXCEPT !.kid = Unset]
      [] e.name = "DRMSystem"  -> [p EXCEPT !.kid = Unset, !.system = Unset]
      [] e.name = "PlainValue" -> [p EXCEPT !.inValue = FALSE]
      [] e.name = "PSSH"       -> [p EXCEPT !.inPssh = FALSE]
      [] e.name = "ContentProtectionData" -> [p EXCEPT !.inData = FALSE]

SystemAt(p) == {d \in 1..Len(p.systems) : p.systems[d].system = p.system /\ p.systems[d].kid = p.kid}

WithPssh(p, text) ==
    IF SystemAt(p) # {}
    THEN [p EXCEPT !.systems[CHOOSE d \in SystemAt(p) : TRUE].pssh = text]
    ELSE [p EXCEPT !.systems = Append(@, [system |-> p.system, kid |-> p.kid,
                                          pssh |-> text, data |-> Unset])]

\* ContentProtectionData counts only where a PSSH came before it.
WithData(p, text) ==
    IF SystemAt(p) # {}
    THEN [p EXCEPT !.systems[CHOOSE d \in SystemAt(p) : TRUE].data = text] ELSE p

ReadText(p, text) ==
    CASE p.inValue -> IF p.kid = Unset THEN p
                      ELSE [p EXCEPT !.keys = Append(@, [kid |-> p.kid, key |-> text])]
      [] ~p.inValue /\ p.inPssh ->
            IF p.kid = Unset \/ p.system = Unset THEN p ELSE WithPssh(p, text)
      [] ~p.inValue /\ ~p.inPssh /\ p.inData ->
            IF p.kid = Unset \/ p.system = Unset THEN p ELSE WithData(p, text)
      [] OTHER -> p

ParseEvent(p, e) ==
    CASE e.kind \in {"start", "empty"} -> Opened(p, e)
      [] e.kind = "text"               -> ReadText(p, e.text)
      [] e.kind = "end"                -> Closed(p, e)

KeySet(keys, systems) == [keys |-> keys, systems |-> systems]
NoKeySet == KeySet(<< >>, << >>)

\* No key set stands for "no content keys found in CPIX response".
ParseCpixResponse(document) ==
    LET p == Reading(ParseEvent, ParserStart, document)
    IN  IF p.keys = << >> THEN NoKeySet ELSE KeySet(p.keys, p.systems)

-----------------------------------------------------------------------------
(* Keys of a job                                                            *)

\* build_key_set_from_raw_keys: no DRM systems come with raw keys.
RawKeySet(kids) == KeySet([i \in 1..Len(kids) |-> [kid |-> kids[i], key |-> kids[i]]], << >>)

\* find_key_for_kid: the first key of the key id, or an error.
HasKey(keySet, kid) == \E i \in 1..Len(keySet.keys) : keySet.keys[i].kid = kid
KeyOf(keySet, kid) ==
    Chosen(keySet.keys, {i \in 1..Len(keySet.keys) : keySet.keys[i].kid = kid})[1].key

EntriesOf(keySet, system) ==
    Chosen(keySet.systems, {d \in 1..Len(keySet.systems) : keySet.systems[d].system = system})

NoPssh == [present |-> FALSE, kids |-> {}, data |-> Unset]

\* build_manifest_pssh_for_system, and a box of build_pssh_boxes: the key ids of
\* the entries of the system and, of several keys, those of the mapping.
PsshFor(keySet, system, allKids) ==
    LET entries == EntriesOf(keySet, system)
    IN  IF entries = << >> THEN NoPssh
        ELSE [present |-> TRUE, data |-> entries[1].pssh,
              kids |-> {entries[i].kid : i \in 1..Len(entries)}
                       \union (IF Cardinality(allKids) > 1 THEN allKids ELSE {})]

\* build_manifest_drm_info: no override means every system but ClearKey, which
\* is built here and needs no server.
DrmInfo(keySet, kid, allKids, scheme, override) ==
    LET included(s) == override = {} \/ s \in override
        pssh(s) == IF included(s) THEN PsshFor(keySet, s, allKids) ELSE NoPssh
    IN  [present    |-> TRUE,
         scheme     |-> scheme,
         defaultKid |-> kid,
         widevine   |-> pssh("widevine"),
         playready  |-> pssh("playready"),
         fairplay   |-> included("fairplay") /\ scheme = "cbcs"
                        /\ EntriesOf(keySet, "fairplay") # << >>
                        /\ EntriesOf(keySet, "fairplay")[1].data # Unset,
         clearkey   |-> IF "clearkey" \in override
                        THEN [present |-> TRUE, kids |-> allKids, data |-> "pssh"] ELSE NoPssh]

NoDrmInfo ==
    [present |-> FALSE, scheme |-> "none", defaultKid |-> Unset, widevine |-> NoPssh,
     playready |-> NoPssh, fairplay |-> FALSE, clearkey |-> NoPssh]

=============================================================================
