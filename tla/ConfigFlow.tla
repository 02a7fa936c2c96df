----------------------------- MODULE ConfigFlow -----------------------------
(***************************************************************************)
(* config_flow.py with the probe of go2rtc_api.py: the dialogs in which    *)
(* users add a bridge, move an entry to another one, or enter the missing  *)
(* credentials of an old entry.  Home Assistant runs several dialogs on one*)
(* event loop; a dialog is suspended only while its probe is out, and in   *)
(* that time entries are added, changed and removed.                       *)
(*                                                                         *)
(* A host is host and API port; it can be written in several ways, which   *)
(* normalize_host maps to one, or refuses.  Entries of early versions hold *)
(* a host as it was typed.  Home Assistant and the bridges are external.   *)
(***************************************************************************)
CONSTANTS
    Host,       \* normalized host and port
    NoHost,     \* what normalize_host refuses
    Default,    \* homeassistant.local
    Fallback,   \* the host of Home Assistant's internal URL, or NoHost
    Cred,       \* user name and password
    NoCred,     \* an entry of an early version
    EntryId, NoId,
    Flow

ASSUME HostsOK ==
    /\ NoHost \notin Host /\ Default \in Host
    /\ Fallback \in (Host \cup {NoHost}) \ {Default}

ASSUME NamesOK == NoCred \notin Cred /\ NoId \notin EntryId

Typed == [host : Host \cup {NoHost}, plain : {"yes", "no"}]  \* a host, as somebody wrote it

Plain(h) == [host |-> h, plain |-> "yes"]

normalize_host(t) == t.host

VARIABLES
    entries,  \* the data of the configured entries
    flow,     \* the open dialogs: typed is the submitted host, cand the one probed
    probed,   \* history: hosts and credentials that answered a probe together
    mixed     \* history: entries whose last reauth probed another host than theirs

flowVars == <<entries, flow, probed, mixed>>

Data == [at : Typed, cred : Cred \cup {NoCred}, uid : Typed]
NoEntry == [at |-> Plain(NoHost), cred |-> NoCred, uid |-> Plain(NoHost)]
Form(kind, e) ==
    [kind |-> kind, entry |-> e, typed |-> NoHost, cand |-> NoHost, cred |-> NoCred]
NoFlow == Form("none", NoId)

Configured == {e \in EntryId : entries[e] # NoEntry}

FlowTypeOK ==
    /\ entries \in [EntryId -> Data]
    /\ flow \in [Flow -> [kind : {"none", "user", "reconfigure", "reauth"},
                          entry : EntryId \cup {NoId}, typed : Host \cup {NoHost},
                          cand : Host \cup {NoHost}, cred : Cred \cup {NoCred}]]
    /\ probed \subseteq Host \X Cred
    /\ mixed \subseteq EntryId

(* Entries of early versions: hosts as typed, maybe invalid ones, which need
   not be the unique id; but no two of the same host.  Those that hold
   credentials were probed with them. *)
FlowInit ==
    /\ entries \in [EntryId -> Data]
    /\ \A e \in Configured :
        /\ entries[e].at # Plain(NoHost)
        /\ entries[e].uid \in {entries[e].at, Plain(NoHost)}
        /\ entries[e].cred # NoCred => entries[e].at.host # NoHost
    /\ \A d, e \in Configured :
        d # e => entries[d].at.host # entries[e].at.host
    /\ flow = [f \in Flow |-> NoFlow]
    /\ probed = {<<entries[e].at.host, entries[e].cred>> :
                    e \in {d \in EntryId : entries[d].cred # NoCred}}
    /\ mixed = {}
-----------------------------------------------------------------------------
(* A dialog is opened.  Only an entry without credentials, at its setup, asks
   for a reauth, and once. *)
Open(f, kind, e) ==
    /\ flow[f].kind = "none"
    /\ kind = "user" => e = NoId
    /\ kind # "user" => e \in Configured
    /\ kind = "reauth" =>
        /\ entries[e].cred = NoCred
        /\ ~ \E g \in Flow : flow[g].kind = "reauth" /\ flow[g].entry = e
    /\ flow' = [flow EXCEPT ![f] = Form(kind, e)]
    /\ UNCHANGED <<entries, probed, mixed>>

(* ... and closed by the user, at the form or during the probe. *)
Close(f) ==
    /\ flow[f].kind # "none"
    /\ flow' = [flow EXCEPT ![f] = NoFlow]
    /\ UNCHANGED <<entries, probed, mixed>>

(* The form is submitted, with a host that is not refused: its probe goes out.
   A reauth has the host of its entry. *)
Submit(f, h, c) ==
    /\ flow[f].kind # "none" /\ flow[f].cand = NoHost
    /\ flow[f].kind # "user" => flow[f].entry \in Configured
    /\ flow[f].kind = "reauth" => h = normalize_host(entries[flow[f].entry].at)
    /\ flow' = [flow EXCEPT ![f] = [@ EXCEPT !.typed = h, !.cand = h, !.cred = c]]
    /\ UNCHANGED <<entries, probed, mixed>>

(* No answer, or no Eufy streams in it: for the default host the fallback is
   probed; then the form is shown again with the error. *)
Unanswered(f) ==
    /\ flow[f].cand # NoHost
    /\ flow' = [flow EXCEPT ![f] =
          IF @.cand = Default /\ Fallback # NoHost
          THEN [@ EXCEPT !.cand = Fallback] ELSE Form(@.kind, @.entry)]
    /\ UNCHANGED <<entries, probed, mixed>>

InUse_AsTyped(h, x) ==  \* mutant: the hosts of old entries are not normalized
    \E e \in Configured \ {x} : entries[e].at = Plain(h)

(* _endpoint_in_use *)
InUse(h, x) == \E e \in Configured \ {x} : normalize_host(entries[e].at) = h

UidInUse(h, x) == \E e \in Configured \ {x} : entries[e].uid = Plain(h)

Resolved_Typed(f) == Plain(flow[f].typed)  \* mutant: not the host that answered

(* The host that answered, which may be the fallback. *)
Resolved(f) == Plain(flow[f].cand)

(* The probe is answered with Eufy streams; what follows is one step. *)
Answered(f) ==
    /\ flow[f].cand # NoHost
    /\ probed' = probed \cup {<<flow[f].cand, flow[f].cred>>}
    /\ flow' = [flow EXCEPT ![f] = NoFlow]

Written(f) ==
    [at |-> Resolved(f), cred |-> flow[f].cred, uid |-> Plain(flow[f].cand)]

Free(f) == ~InUse(flow[f].cand, flow[f].entry) /\ ~UidInUse(flow[f].cand, flow[f].entry)

(* async_create_entry, with an id no dialog knows. *)
Create(f, e) ==
    /\ flow[f].kind = "user" /\ Free(f)
    /\ e \notin Configured /\ \A g \in Flow : flow[g].entry # e
    /\ entries' = [entries EXCEPT ![e] = Written(f)]
    /\ mixed' = mixed \ {e}
    /\ Answered(f)

Reconfigure(f) ==
    /\ flow[f].kind = "reconfigure" /\ Free(f) /\ flow[f].entry \in Configured
    /\ entries' = [entries EXCEPT ![flow[f].entry] = Written(f)]
    /\ mixed' = mixed \ {flow[f].entry}
    /\ Answered(f)

(* The credentials only; the entry may have been moved during the probe, and
   the fallback may have answered for it. *)
Reauth(f) ==
    /\ flow[f].kind = "reauth" /\ flow[f].entry \in Configured
    /\ LET e == flow[f].entry
       IN /\ entries' = [entries EXCEPT ![e].cred = flow[f].cred]
          /\ mixed' = IF normalize_host(entries[e].at) = flow[f].cand
                      THEN mixed \ {e} ELSE mixed \cup {e}
    /\ Answered(f)

(* already_configured, or the entry is gone. *)
AbortFlow(f) ==
    /\ \/ flow[f].kind # "reauth" /\ ~Free(f)
       \/ flow[f].kind # "user" /\ flow[f].entry \notin Configured
    /\ UNCHANGED <<entries, mixed>>
    /\ Answered(f)

Remove(e) ==
    /\ e \in Configured
    /\ entries' = [entries EXCEPT ![e] = NoEntry]
    /\ UNCHANGED <<flow, probed, mixed>>

FlowNext ==
    \/ \E f \in Flow :
        \/ \E kind \in {"user", "reconfigure", "reauth"}, e \in EntryId \cup {NoId} :
            Open(f, kind, e)
        \/ \E h \in Host, c \in Cred : Submit(f, h, c)
        \/ \E e \in EntryId : Create(f, e)
        \/ Close(f) \/ Unanswered(f) \/ Reconfigure(f) \/ Reauth(f) \/ AbortFlow(f)
    \/ \E e \in EntryId : Remove(e)

FlowSpec == FlowInit /\ [][FlowNext]_flowVars
-----------------------------------------------------------------------------
(* Properties *)

(* One bridge has one entry, whatever dialogs are validated at the same    *)
(* time and however early versions wrote their hosts                       *)
(* (config_flow.py 129-143: the checks come after the await).              *)
EndpointsUnique ==
    \A d, e \in Configured :
        d # e /\ normalize_host(entries[d].at) # NoHost
        => normalize_host(entries[d].at) # normalize_host(entries[e].at)

(* The host and the credentials of an entry have answered a probe together,*)
(* although entries change while probes are out and the fallback may answer*)
(* for the default host; except after a reauth that was answered by another *)
(* host than its entry has by then (config_flow.py 207-235, 258-280).      *)
ProbedTogether ==
    \A e \in Configured \ mixed :
        entries[e].cred # NoCred
        => <<normalize_host(entries[e].at), entries[e].cred>> \in probed
=============================================================================
