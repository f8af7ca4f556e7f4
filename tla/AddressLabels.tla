---------------------------- MODULE AddressLabels ----------------------------
(***************************************************************************)
(* The names of addresses (lib/labels.ts): from the user's labels, the     *)
(* sender, the labels of the trace (lib/forgeTrace.ts) and the symbols of  *)
(* tokens, what a row of the trace calls an address, and which rows a name *)
(* finds (TraceTree.tsx).                                                  *)
(*                                                                         *)
(* Addresses and labels are model values.  The texts that are compared are *)
(* whole names: a query that is part of a name is left out, and so are the *)
(* case of letters and blanks around them.                                 *)
(***************************************************************************)
EXTENDS Naturals, Sequences, SequencesExt, Functions

CONSTANTS
    Addresses, Labels, Sender, None,
    Mentions,     \* sets of names that the rest of a row may hold
    MaxOverrides, \* how many labels of the user there are
    MaxCalls,     \* how many calls the arena has
    MaxItems      \* how many labels the response has, and how many items with a symbol

ASSUME LabelAssumption ==
    /\ Sender \notin Addresses \cup {None} /\ None \notin Addresses \cup Labels
    /\ Mentions \subseteq SUBSET (Addresses \cup Labels)
    /\ MaxOverrides \in Nat /\ MaxCalls \in Nat /\ MaxItems \in Nat

Named == [name : Labels, address : Addresses]

VARIABLE
    inputs        \* what the names are made of, once there is a response
                  \* overrides, sender: of the form; labeled: labeled_addresses,
                  \* arena: the address of each call, the label forge has decoded for
                  \* that address, if any, and the names in the rest of its row: the
                  \* arguments, the value, the raw line,
                  \* tokens: the transfers and balance changes with a symbol

Nothing == [overrides |-> <<>>, sender |-> None, labeled |-> <<>>, arena |-> <<>>, tokens |-> <<>>]

-----------------------------------------------------------------------------
(* The labels of the trace: a Map, whose entries are in the order in which   *)
(* their addresses were first set.                                           *)
IsNamed(entries, address) == \E k \in DOMAIN entries : entries[k].address = address

NameIn(entries, address) ==
    entries[CHOOSE k \in DOMAIN entries : entries[k].address = address].name

SetName(entries, address, name) ==
    IF IsNamed(entries, address)
    THEN [k \in DOMAIN entries |->
            IF entries[k].address = address THEN [entries[k] EXCEPT !.name = name] ELSE entries[k]]
    ELSE Append(entries, [name |-> name, address |-> address])

(* normalizeLabels: each entry names an address, from it or to it. *)
NormalizeEntry(known, entry) ==
    LET from == IF entry.key \in Addresses THEN SetName(known, entry.key, entry.value) ELSE known
    IN  IF entry.value \in Addresses THEN SetName(from, entry.value, entry.key) ELSE from

NormalizedAfter(record) ==
    LET known[n \in 0 .. Len(record)] ==
          IF n = 0 THEN <<>> ELSE NormalizeEntry(known[n - 1], record[n])
    IN  known

NormalizeLabels(record) == NormalizedAfter(record)[Len(record)]

(* collectArenaLabels: an address not yet named gets the label of a call. *)
CollectCall(found, call) ==
    IF call.label = None \/ IsNamed(found, call.address) THEN found
    ELSE SetName(found, call.address, call.label)

CollectedAfter(arena, known) ==
    LET found[n \in 0 .. Len(arena)] ==
          IF n = 0 THEN known ELSE CollectCall(found[n - 1], arena[n])
    IN  found

CollectArenaLabels(arena, known) == CollectedAfter(arena, known)[Len(arena)]

TraceLabels == CollectArenaLabels(inputs.arena, NormalizeLabels(inputs.labeled))

(* traceTargetLabel: the label a call has of its own. *)
TargetLabel(call) ==
    IF call.label # None THEN call.label
    ELSE IF IsNamed(TraceLabels, call.address) THEN NameIn(TraceLabels, call.address) ELSE None

-----------------------------------------------------------------------------
(* Map.set. *)
Put(map, key, value) ==
    [x \in DOMAIN map \cup {key} |-> IF x = key THEN value ELSE map[x]]

(* addAddressLabel: a name is known from now on, and shown if it is          *)
(* preferred or the first; the name it replaces is the address's once more,  *)
(* though another address may have taken it.                                 *)
AddAddressLabel(labels, address, label, prefer) ==
    LET shown == prefer \/ address \notin DOMAIN labels.byAddress
        known == IF shown /\ address \in DOMAIN labels.byAddress
                 THEN Put(labels.byLabel, labels.byAddress[address], address)
                 ELSE labels.byLabel
    IN  [byAddress |-> IF shown THEN Put(labels.byAddress, address, label) ELSE labels.byAddress,
         byLabel |-> Put(known, label, address)]

AddedAfter(labels, list, prefer) ==
    LET known[n \in 0 .. Len(list)] ==
          IF n = 0 THEN labels
          ELSE AddAddressLabel(known[n - 1], list[n].address, list[n].name, prefer)
    IN  known

AddAll(labels, list, prefer) == AddedAfter(labels, list, prefer)[Len(list)]

AddSender(labels) ==
    IF inputs.sender = None \/ inputs.sender \in DOMAIN labels.byAddress THEN labels
    ELSE AddAddressLabel(labels, inputs.sender, Sender, TRUE)

(* Mistake: the labels of the trace replace those of the user. *)
AddTraceLabelsFirst(labels) == AddAll(labels, TraceLabels, TRUE)

AddTraceLabels(labels) == AddAll(labels, TraceLabels, FALSE)

(* buildAddressLabels: the symbols of tokens come last and are preferred.    *)
NoLabels == [byAddress |-> <<>>, byLabel |-> <<>>]

UserLabels == AddAll(NoLabels, inputs.overrides, TRUE)

BuildAddressLabels ==
    AddAll(AddTraceLabels(AddSender(UserLabels)), inputs.tokens, TRUE)

(* traceSearchTerms: a query, the label of an address, the address of a label. *)
TraceSearchTerms(query) ==
    LET labels == BuildAddressLabels
    IN  {query}
        \cup (IF query \in DOMAIN labels.byAddress THEN {labels.byAddress[query]} ELSE {})
        \cup (IF query \in DOMAIN labels.byLabel THEN {labels.byLabel[query]} ELSE {})

(* traceSearchText: the names in the text of a call, its own and those that  *)
(* it mentions.                                                              *)
TraceSearchText(call) ==
    LET shown == BuildAddressLabels.byAddress
    IN  {call.address, TargetLabel(call)} \cup call.mentions
        \cup (IF call.address \in DOMAIN shown THEN {shown[call.address]} ELSE {})

Finds(query, call) == TraceSearchTerms(query) \cap TraceSearchText(call) # {}

-----------------------------------------------------------------------------
LabelsInit == inputs = Nothing

(* A response arrives, with the labels of the form and of the trace. *)
Respond(overrides, sender, labeled, arena, tokens) ==
    inputs' = [overrides |-> overrides, sender |-> sender, labeled |-> labeled,
               arena |-> arena, tokens |-> tokens]

UpTo(n, S) == UNION {[1 .. k -> S] : k \in 0 .. n}

Labeled == [key : Addresses, value : Labels] \cup [key : Labels, value : Addresses]

LabelsNext ==
    /\ inputs = Nothing
    /\ \E overrides \in UpTo(MaxOverrides, Named), sender \in Addresses \cup {None},
          labeled \in UpTo(MaxItems, Labeled),
          called \in [1 .. MaxCalls -> Addresses], decoded \in [Addresses -> Labels \cup {None}],
          mentions \in [1 .. MaxCalls -> Mentions],
          tokens \in UpTo(MaxItems, Named) :
         Respond(overrides, sender, labeled,
                 [i \in 1 .. MaxCalls |-> [address |-> called[i], label |-> decoded[called[i]],
                                          mentions |-> mentions[i]]],
                 tokens)

LabelsSpec == LabelsInit /\ [][LabelsNext]_inputs

-----------------------------------------------------------------------------
(* The names that address a has in the inputs: "Sender" is one of the sender *)
(* where the user has no other for it.  A label that forge has decoded for a *)
(* call of an address that is named already is in the row of that call only. *)
BookNames(a) ==
    {x.name : x \in {x \in ToSet(inputs.overrides) \cup ToSet(inputs.tokens)
                               \cup ToSet(TraceLabels) : x.address = a}}
    \cup (IF a = inputs.sender /\ ~ IsNamed(inputs.overrides, a) THEN {Sender} ELSE {})
    \cup {a}

Names(a) ==
    BookNames(a) \cup {c.label : c \in {c \in ToSet(inputs.arena) : c.address = a /\ c.label # None}}

(* An address is shown under the user's last label, unless it is a token     *)
(* with a symbol; and where no name is of two addresses, each name that an   *)
(* address has, the ones that are not shown too, finds every call to it,     *)
(* every call that mentions the name and, but for a label of one call only,  *)
(* every call that mentions the address; and it finds no call that is to     *)
(* another address and mentions neither this one nor a name of it            *)
(* (labels.ts, traceSearchTerms).                                            *)
LabelsFindTheirAddress ==
    /\ \A i \in DOMAIN inputs.overrides :
         LET user == inputs.overrides[i]
         IN  \/ \E x \in ToSet(inputs.tokens) : x.address = user.address
             \/ \E j \in i + 1 .. Len(inputs.overrides) : inputs.overrides[j].address = user.address
             \/ BuildAddressLabels.byAddress[user.address] = user.name
    /\ (\A a, b \in Addresses : a # b => Names(a) \cap Names(b) = {}) =>
         \A a \in Addresses : \A name \in Names(a) : \A call \in ToSet(inputs.arena) :
            /\ call.address = a => Finds(name, call)
            /\ name \in call.mentions => Finds(name, call)
            /\ a \in call.mentions /\ name \in BookNames(a) => Finds(name, call)
            /\ Finds(name, call) => (call.address = a \/ call.mentions \cap Names(a) # {})
=============================================================================
