----------------------------- MODULE ServerConfig ----------------------------
(***************************************************************************)
(* Which MCP servers m8 runs (core/mcp/config.cpp, trust.cpp, registry.cpp *)
(* start and approve, apps/m8/m8_mcp_cli.cpp): three files of entries, the *)
(* later more specific; a file of approvals by fingerprint, which a        *)
(* running m8 reads once and writes whole, as the command line does.  The  *)
(* files change under both: by a pull, an agent, another m8.               *)
(***************************************************************************)
EXTENDS Naturals, Sequences, FiniteSets

CONSTANTS Apps,       \* m8 processes
          Clis,       \* m8 mcp ... commands
          Names,
          Versions,   \* what an entry may say: its fingerprint; 0 is no entry
          Broken,     \* entries with a problem: bad type, no command ...
          Unset,      \* entries naming an environment variable that is not set
          MaxEdits    \* edits of the files by others: a bound

VARIABLES entries,  \* per scope, the file: an entry per name
          trust,    \* mcp_trust.json: an approved fingerprint per name
          garbled,  \* ... or it does not parse
          app,      \* per m8: up, its configuration, its approvals, what it runs
          cli,      \* per command: where it is and what it has read
          said,     \* entries the user saw or typed, and said yes to, ever
          edits,
          found     \* entries an add approved in the place of the one it was given

vars == <<entries, trust, garbled, app, cli, said, edits, found>>

Workspace == {"shared", "project"}     \* the scopes besides "user"
Entry == {0} \cup Versions
NoneOf == [n \in Names |-> 0]
None == [scope |-> "none", version |-> 0]
Down == [up |-> FALSE, conf |-> [n \in Names |-> None], trust |-> NoneOf, runs |-> NoneOf]
Done == [at |-> "done", name |-> "", scope |-> "", version |-> 0, file |-> NoneOf,
         conf |-> [n \in Names |-> None], trust |-> NoneOf]

Init ==
    /\ entries = [s \in {"user", "shared", "project"} |-> NoneOf]
    /\ trust = NoneOf /\ garbled = FALSE
    /\ app = [a \in Apps |-> Down] /\ cli = [c \in Clis |-> [Done EXCEPT !.at = "new"]]
    /\ said = {} /\ edits = 0 /\ found = {}

----------------------------------------------------------------------------
\* A later file replaces an earlier entry in place, one with a problem as well.
Overlay(conf, s) ==
    [n \in Names |-> IF entries[s][n] # 0 THEN [scope |-> s, version |-> entries[s][n]]
                     ELSE conf[n]]
\* load_config(): user, shared, project.
LoadConfig == Overlay(Overlay(Overlay([n \in Names |-> None], "user"), "shared"), "project")

NeedsApproval(entry) == entry.scope \in Workspace
\* Fault: a name that was approved stays approved.
ApprovedByName(approvals, n, version) == approvals[n] # 0
Approved(approvals, n, version) == approvals[n] = version

\* TrustStore::load(): missing and unreadable alike are empty; the latter is reported.
LoadTrust == IF garbled THEN NoneOf ELSE trust

\* TrustStore::save(): the file is replaced by the approvals of whoever saves.
SaveTrust(approvals) == trust' = approvals /\ garbled' = FALSE

\* TrustStore::approve() and revoke(); revoke is with version 0.
WithApproval(approvals, n, version) == [approvals EXCEPT ![n] = version]

\* parse_entry() found no problem; expand_server() found every variable.
Parses(version) == version \notin Broken
Expands(version) == version \notin Unset
CanRun(version) == version # 0 /\ Parses(version) /\ Expands(version)
MayRun(conf, approvals, n) ==
    /\ CanRun(conf[n].version)
    /\ NeedsApproval(conf[n]) => Approved(approvals, n, conf[n].version)

\* Registry::start().
StartApp(a) ==
    /\ ~app[a].up
    /\ LET conf == LoadConfig
       IN app' = [app EXCEPT ![a] = [up |-> TRUE, conf |-> conf, trust |-> LoadTrust,
                    runs |-> [n \in Names |-> IF MayRun(conf, LoadTrust, n)
                                              THEN conf[n].version ELSE 0]]]
    /\ UNCHANGED <<entries, trust, garbled, cli, said, edits, found>>

\* Registry::approve(): the entry m8 has; recorded, saved whole, and started once that is done.
AppApproves(a, n) ==
    /\ app[a].up /\ NeedsApproval(app[a].conf[n])
    /\ LET version == app[a].conf[n].version
           mine == WithApproval(app[a].trust, n, version)
       IN /\ said' = said \cup {<<n, version>>}
          /\ \/ /\ SaveTrust(mine)
                /\ app' = [app EXCEPT ![a].trust = mine,
                             ![a].runs[n] = IF CanRun(version) THEN version ELSE 0]
             \/ /\ app' = [app EXCEPT ![a].trust = mine]      \* the save failed
                /\ UNCHANGED <<trust, garbled>>
    /\ UNCHANGED <<entries, cli, edits, found>>

\* Registry::set_enabled(): off, and on again if it is approved.
AppToggles(a, n) ==
    /\ app[a].up
    /\ app' = [app EXCEPT ![a].runs[n] =
                 IF @ # 0 THEN 0 ELSE IF MayRun(app[a].conf, app[a].trust, n)
                                      THEN app[a].conf[n].version ELSE 0]
    /\ UNCHANGED <<entries, trust, garbled, cli, said, edits, found>>

QuitApp(a) ==
    /\ app[a].up /\ app' = [app EXCEPT ![a] = Down]
    /\ UNCHANGED <<entries, trust, garbled, cli, said, edits, found>>

\* Someone edits, pulls, or damages a file.
Edit(s, n, v) ==
    /\ edits < MaxEdits /\ edits' = edits + 1
    /\ \/ entries' = [entries EXCEPT ![s][n] = v] /\ UNCHANGED garbled
       \/ garbled' = TRUE /\ UNCHANGED entries
    /\ UNCHANGED <<trust, app, cli, said, found>>

----------------------------------------------------------------------------
Goes(c, next) == cli' = [cli EXCEPT ![c] = next]
Ends(c) == Goes(c, Done)

\* add reads the file of its scope, which must not have the name, ...
CliAdds(c, s, n, v) ==
    /\ cli[c].at = "new" /\ Parses(v) /\ entries[s][n] = 0
    /\ Goes(c, [Done EXCEPT !.at = "add", !.scope = s, !.name = n, !.version = v,
                   !.file = entries[s]])
    /\ UNCHANGED <<entries, trust, garbled, app, said, edits, found>>

\* remove the one that has it; of several the user names the scope.
CliRemoves(c, s, n) ==
    /\ cli[c].at = "new" /\ entries[s][n] # 0
    /\ Goes(c, [Done EXCEPT !.at = "remove", !.scope = s, !.name = n, !.file = entries[s]])
    /\ UNCHANGED <<entries, trust, garbled, app, said, edits, found>>

\* ... write it with the change through a temporary file; the approval comes after.
CliWrites(c) ==
    /\ cli[c].at \in {"add", "remove"}
    /\ \/ /\ entries' = [entries EXCEPT ![cli[c].scope] =
                           [cli[c].file EXCEPT ![cli[c].name] =
                              IF cli[c].at = "add" THEN cli[c].version ELSE 0]]
          /\ IF cli[c].scope = "user" /\ cli[c].at = "remove" THEN Ends(c)
             ELSE Goes(c, [cli[c] EXCEPT !.at = IF @ = "add" THEN "added" ELSE "removed"])
       \/ UNCHANGED entries /\ Ends(c)
    /\ UNCHANGED <<trust, garbled, app, said, edits, found>>

\* approve: the configuration and the approvals as they are now; with an unreadable file
\* the command ends, saving over it would drop every other approval.
CliLoads(c, n) ==
    /\ cli[c].at = "new"
    /\ LET entry == LoadConfig[n]
       IN IF garbled \/ ~NeedsApproval(entry) \/ Approved(trust, n, entry.version)
             \/ ~Parses(entry.version)
          THEN Ends(c)
          ELSE Goes(c, [cli[c] EXCEPT !.at = "ask", !.name = n, !.version = entry.version,
                          !.trust = trust])
    /\ UNCHANGED <<entries, trust, garbled, app, said, edits, found>>

\* approve_added(): what has the name now in the files together, shown to nobody; it need
\* not be what was typed, a file read later may have the name as well.
CliAdded(c) ==
    /\ cli[c].at = "added"
    /\ LET entry == LoadConfig[cli[c].name]
       IN IF garbled \/ ~NeedsApproval(entry) THEN Ends(c)
          ELSE Goes(c, [cli[c] EXCEPT !.at = IF entry.version = cli[c].version THEN "typed"
                                             ELSE "found",
                          !.version = entry.version, !.trust = trust])
    /\ UNCHANGED <<entries, trust, garbled, app, said, edits, found>>

\* A yes to what was shown, or no question at all; the approvals written whole.
CliApproves(c) ==
    /\ cli[c].at \in {"ask", "typed", "found"} /\ Ends(c)
    /\ \/ UNCHANGED <<said, found, trust, garbled>>
       \/ /\ LET approved == {<<cli[c].name, cli[c].version>>}
             IN IF cli[c].at = "found" THEN found' = found \cup approved /\ UNCHANGED said
                ELSE said' = said \cup approved /\ UNCHANGED found
          /\ SaveTrust(WithApproval(cli[c].trust, cli[c].name, cli[c].version))
    /\ UNCHANGED <<entries, app, edits>>

\* The approval of a removed server goes with it; nobody hears of a save that fails.
CliRevokes(c) ==
    /\ cli[c].at = "removed" /\ Ends(c)
    /\ \/ ~garbled /\ SaveTrust(WithApproval(trust, cli[c].name, 0))
       \/ UNCHANGED <<trust, garbled>>
    /\ UNCHANGED <<entries, app, said, edits, found>>

CliStep(c) ==
    \/ \E s \in DOMAIN entries, n \in Names :
         CliRemoves(c, s, n) \/ \E v \in Versions : CliAdds(c, s, n, v)
    \/ CliWrites(c) \/ CliAdded(c) \/ CliApproves(c) \/ CliRevokes(c)
    \/ \E n \in Names : CliLoads(c, n)
Next ==
    \/ \E a \in Apps : StartApp(a) \/ QuitApp(a) \/ \E n \in Names : AppApproves(a, n) \/ AppToggles(a, n)
    \/ \E c \in Clis : CliStep(c)
    \/ \E s \in DOMAIN entries, n \in Names, v \in Entry : Edit(s, n, v)

Spec == Init /\ [][Next]_vars

----------------------------------------------------------------------------
Stages == {"new", "add", "remove", "added", "removed", "ask", "typed", "found", "done"}
TypeOK ==
    /\ entries \in [{"user", "shared", "project"} -> [Names -> Entry]]
    /\ trust \in [Names -> Entry] /\ garbled \in BOOLEAN /\ edits \in 0 .. MaxEdits
    /\ \A a \in Apps : app[a].runs \in [Names -> Entry]
    /\ \A c \in Clis : cli[c].at \in Stages

\* Whatever is pulled, edited or removed between two reads, and whichever m8 or command
\* wrote the approvals last: a server of a workspace file runs only as somebody saw or typed
\* it and said yes to it, also when its name hides a server of the user's own.  The exception
\* is what an add found under the name it had just written: that is approved unseen.
RunsOnlyApproved ==
    \A a \in Apps, n \in Names :
        app[a].runs[n] # 0 /\ NeedsApproval(app[a].conf[n]) =>
            <<n, app[a].runs[n]>> \in said \cup found

----------------------------------------------------------------------------
\* Why it holds: an invariant that every step keeps.

Entries == [scope : {"none", "user", "shared", "project"}, version : Entry]
Approvals == [Names -> Entry]
Running == [up : BOOLEAN, conf : [Names -> Entries], trust : Approvals, runs : Approvals]
Commands ==
    [at : Stages, name : Names \cup {""},
     scope : {"", "user", "shared", "project"}, version : Entry, file : Approvals,
     conf : [Names -> Entries], trust : Approvals]

\* Whatever copy of the approvals it is, each was given by one of the two ways.
SaidTo(approvals) == \A n \in Names : approvals[n] # 0 => <<n, approvals[n]>> \in said \cup found

ApprovalInv ==
    /\ app \in [Apps -> Running] /\ cli \in [Clis -> Commands]
    /\ \A c \in Clis :
          /\ cli[c].at \notin {"new", "done"} => cli[c].name \in Names
          /\ cli[c].at \in {"add", "remove"} => cli[c].scope # ""
    /\ SaidTo(trust)
    /\ \A a \in Apps : SaidTo(app[a].trust)
    /\ \A c \in Clis : SaidTo(cli[c].trust)

IInv == TypeOK /\ ApprovalInv /\ RunsOnlyApproved
=============================================================================
