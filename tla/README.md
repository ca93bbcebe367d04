# A TLA+ project for m8trixparrot

m8trixparrot is a family of terminal programs (`m8`, `sp`, `m8trixsh` and small
tools) around one core: C++ agents that talk to an Ollama server, call tools and
MCP servers, spawn subagents, ask the person at the terminal, and keep memories
in a vector store of their own. The agents are plain threads; what they share is
guarded by mutexes, condition variables and atomics, and what must survive a
crash goes to files. This directory holds specifications of the parts where that
is hard, the instances TLC checks and the proofs TLAPS checks.

All paths below are relative to the repository's `src/src/` directory;
`README.md:n` is the repository's own README.

## 1. Inventory

| Component | State | Operations | Hard about it | What makes it correct |
|---|---|---|---|---|
| Vector store file (`core/vdb/vector_store.*`) | log of checksummed records behind two alternating header pages; in RAM entries by label, `mNextId`, `mLive`, `mGarbage`, `mGeneration`, newest snapshot | `open`, `add`, `remove`, `update_metadata[_deferred]`, `flush`, `compact` | crashes between any two writes, torn pages, failed writes, bookkeeping kept twice (by the operations and by replay) | a reopened store is the store of one moment no older than the last sync; replay rebuilds the RAM; a file can always be opened again |
| Its locks | `mStructure`, striped key locks, `mLog` | the same | readers, updaters and a flusher on one document | no circular wait, no deferred change lost |
| Its metadata, schemas, filters | typed values, JSON in the file | coerce, merge, match | types change when the file is read back | a filter selects the same documents after a reopening |
| HNSW index (`core/vdb/vector_index.*`) | layers of adjacency lists, a snapshot | insert, search, restore | pruning, filtered walks | bounded degree, links to nodes of the layer, k hits where there are k |
| Memories (`core/vdb/memory_*`) | documents with access counters | `remember`, `recall`, `forget` | recalls share a lock while they write back counts they read earlier | one width, no forgotten answer, counts bounded by the recalls |
| Interaction queue (`common/interaction_queue.*`) | ticket lock, one shown question, its answer | `begin`, `ask`, `ask_until`, `answer`, `cancel_all` | many threads on one condition variable, late answers, shutdown | sessions exclude and are served in order, an answer reaches its question, nobody blocks for ever |
| Transcript (`common/transcript_view.*`, `apps/m8`, `apps/sp`) | a tree of nodes, tables routing an agent's events, iterators | observer, turns, memory commands, `/reset`, leaving | events later than the turn they belong to, lists cleared under pointers | every route and pointer leads to a node that exists |
| Agent pool (`core/agent/agent_pool.*`) | tree of nodes, `mLive`, limits, results | `spawn`, `wait_for`, `set_result`, `assemble_tree` | three kinds of locks, threads that fail to start, a walk over a growing tree | the budget, the order of events, a complete saved tree, no waiting in a circle |
| Agent turn loop (`core/agent/agent.cpp`, `skills.cpp`) | messages, steps, loaded skills and tools | `run_turn` | summaries and unloading edit the transcript mid-turn | every call has exactly its result |
| Sessions (`core/agent/session_store.*`) | one file per session | `store`, `load`, `latest` | written in place by several processes; a part may still parse | the session shown is of one store, the last, and the whole of one that came to its end |
| Ollama work pool (`core/oc/ollama_client.*`) | two queues, workers, futures, a once flag | `enqueue_*`, `worker_loop`, destructor | simultaneous first use, lost wakeups, priorities, shutdown | concurrency cap, every request fulfilled exactly once |
| MCP client (`core/mcp/client.*`) | transport, restart history, listener | connect, call, restart, close | concurrent calls after a crash, protocol probing | restart budget, no call run twice in a session, the right era |
| MCP transports (`core/mcp/*transport*`, `sse.*`, `core/util/process.*`) | pending calls, threads, deadlines, event ids | send, resume, close, spawn | reader against caller, a person pausing the clock, inherited descriptors | every call returns once, nothing is left behind |
| MCP registry (`core/mcp/registry.*`) | servers with state, epoch, client, snapshot | connect tasks, `/mcp` commands, calls, shutdown | late results of an older epoch | no process orphaned, the snapshot catches up |
| Catalog, tool search, schemas (`catalog.*`, `tool_search.*`, `schema.*`) | names, loaded tools, lowered schemas | publish, search, load, evict, coerce | the catalog changes during a turn; Ollama takes less than JSON Schema | a tool promised can be called; a schema asks no more than it did |
| OAuth (`oauth.*`, `credential_store.*`) | tokens, logins, a file shared by processes | challenge, login, refresh, logout | rotating tokens between processes, tabs that come back late | no token lost, a code goes to its own login |
| Configuration and trust (`config.*`, `trust.*`, `m8_mcp_cli.cpp`) | three files of entries, approvals | load, add, remove, approve | files change between what was seen and what is run | only what somebody saw and approved is run, or what an `mcp add` found |
| Elicitation (`elicitation.*`, the login prompt) | a form's answers, a link | ask, review, edit | rounds of edits over the question queue | what is sent is what the review showed |
| Tools (`core/tools/*`) | a long-lived bash, a pseudo-terminal, a cached index; otherwise none | one call, one result | timeouts against ends, reaping, a worker behind the caller | output belongs to its command; no signal to a stranger |
| Screens (`apps/m8`, `apps/m8trixsh`) | message and answer boxes, the prompt's tag, scrollback | keys, lines, draws | threads change what a key is for; zsh reads a file being written | an answer goes to its question; the tag shows where Enter goes |
| Policy, util, prompts, the small tools | little or no shared state | – | – | unit-testable |

How they interact: an application starts an `Agent` as the pool's root; the
agent's turn calls Ollama through the work pool, tools directly, subagents
through the agent pool (`subagent_create`, `subagent_wait`), and MCP servers
through the registry, which hands each call to a client and that to a transport.
MCP servers and OAuth logins come back to the person through the interaction
queue, which the screen's thread serves. Memories call the work pool for
embeddings and the vector store for everything else. The shared state between
components is these objects; there are no messages but what travels to Ollama,
to MCP servers, to an authorization server, and between processes through files.

`PROJECT.json` lists every component with its sources and status, and under
`hazards` what can go wrong at which line, with the properties that look for it.

## 2. What is modelled

`VectorLog`, `InteractionQueue`, `AgentPool` and `OllamaPool` are checked on
their own. The other modules are components of moderate size that meet only
through the few calls their headers name; *suites* check them:

| Suite | Parts |
|---|---|
| `MCProtocol` | `McpClient`, `McpHandshake`, `StdioTransport`, `HttpTransport`, `SpawnProcess` |
| `MCServers` | `McpRegistry`, `OAuthTokens`, `OAuthLogin`, `LoginPrompt`, `ServerConfig`, `Elicitation` |
| `AgentParts` | `MemoryStore`, `SessionStore`, `VectorLocks`, `AgentTurn`, `ToolLoading`, `ToolCatalog`'s names, `BashRepl`, `ShellSession`, `BashSearch`'s index, `Transcript`, `M8trixsh`, `InputBox`, `TerminalView` |
| `MCAgent` | `AgentParts`, the searches of `ToolCatalog` and `BashSearch`, and `VectorFilter`, `VectorIndex`, `SchemaLowering`, `SseStream`, `FileTools`, `HtmlText` |

A suite extends its first module, whose theorems are about the very definitions
TLC runs, and instantiates the others. Its variable `part` says which one a
behaviour is of; it never changes, and the variables of a part are held in slots
`v1, v2, ...` in the order the part declares them. A suite is therefore the
disjoint union of its parts, not a product: a product would multiply states
without a step in which two parts meet. A suite's property is a conjunction of
the parts' named properties (`Types`, `OneMeaning`, `PersonDecides`, ...), so
that what is asked of the system is one list per question. `AgentParts` holds the
parts of `MCAgent` that are proved about, and has a specification of its own,
`PartSpec`, with any values for the constants; the run is of `MCAgent`, whose
specification adds the other parts and the fairness. `StoresAgree`, for one, asks the
memories, the locks, the sessions and the index of commands to agree with themselves,
and `TurnsAreRight` is about the transcript, the offered tools and their names. In the
single-module
runs likewise, `ReplayIsFaithful`, `TreesAreSound`, `EverybodyReturns`,
`NoRequestIsLost` and `NobodyWaitsForever` are conjunctions of named parts.

Everywhere, a variable with a C++ name (`mLive`, `mClosing`, `mShown`) is that
field; `pc`, `at` or `place` is where a thread is between two locks; a thread
asleep on a condition variable is a value that only a notify takes away.
Operators whose comment begins with "Fault:" are bugs somebody could have
written; no specification uses them, and `PROJECT.json` pairs each property of a
run with one that it notices.

### Stores

**`VectorLog`**, refining **`DurableStore`**. `file` is what `read()` would
return plus what the last fsync settled: `file.log` a sequence of records
(`Put`, `Set`, `Del`, `Snap`, or `Torn` for a frame whose checksum fails),
`file.hdr` the two pages by generation, `synced` and `stable` the log prefix and
the pages the disk surely has. `ram` holds the handle's fields; labels are
positions in `entries`. A position is counted in records; byte counts, which
decide `compact_on_open`, are sums of `Bytes[type]`, four different sizes so that
a record charged as another shows. Actions follow the system calls: one per
appended record, header page and fsync. An append, header or sync that fails
leaves nothing, the old content, or something torn. `OpenExisting` is recovery:
scan, replay, truncation, header choice. `Kill` loses the RAM and keeps the page
cache; `PowerLoss` may keep any subset of the unsynced records, and of an
unsynced page the old version, the new one or neither. `ReplayIsFaithful` says
that `open()` would rebuild what the handle holds, entry by entry and counter by
counter, that replay agrees with a reading of the whole log at once, and that
`mGarbage` is the byte count of the records nothing needs. `KeepsThePromise` is
the refinement. The abstract store has what its callers can tell: `view`, the
documents served now; `logged`, those written out, which `update_metadata_deferred`
leaves behind; `recoverable`, the sets of documents a crash could leave;
`replaced`, those of files that `compact()` renamed over and a crash could bring
back; and `told`, whether a call has just returned that promises what is written
out. `MCVectorLog` computes them from the file and the handle: `logged` is the
reading of the log's valid records, `recoverable` those of its prefixes no shorter
than the last fsync left it. `Rewrite` is the rename, `Settle` the call's way back
from it, with the directory synced or not. Assumed: the truncation `open()` makes is durable
when it returns; a power loss tears at most what was written since the last
fsync; the file has one writer (`VectorLocks` is about that). `mNextId` of a
reopened store may be smaller than it was; nothing in the repository promises
otherwise.

The promise has an exception, which is `replaced`. A store never goes back behind a
`flush()` or `compact()` that returned well, *except* that the file a rewrite took the
place of may come back, in whatever state a crash leaves of it, until the directory
has been synced; and that is behind such a call wherever the sync was not made. Two
ways lead there, and both are steps of the model. `compact()` ignores what
`sync_parent_directory` comes to (`core/vdb/vector_store.cpp:1581-1588`, `:680-690`)
and returns well all the same (the second disjunct of `CompactReopen`). And a process
killed between the rename and the sync leaves a rename nobody settles: the next
process opens the new file, adds, flushes and is told that all is safe, and a power
loss may still bring the old file back. What is promised then is that it is the old
file, one moment of it, and nothing in between.

**`VectorLocks`** has the threads inside one operation each, the locks derived
from where they are, and per document the version of its metadata in memory and
in the log and the deferred mark. **`VectorFilter`** coerces, merges, stores as
JSON, reads back and matches; **`VectorIndex`** inserts, prunes, searches
(filtered walk and brute force), restores; vectors are points on a line, so
distances are exact. **`MemoryStore`** makes one step of each call of the vector
store, an embedding's width being whatever the model returns. **`SessionStore`**
has the steps of writing a file in place by several processes: it is emptied, holds a
part, and then the whole, and the disk may give out at either point, at the second
without `store()` saying so. A part is refused by `load()` or taken for a tree, as it
ends.

### Agents

**`InteractionQueue`**: each thread is in `begin()`, in its session, or in
`ask()` / `ask_until()`, the latter under the lock (`poll`) or running its
callback without it (`done`). The screen is a thread too: it draws, reads which
question a key is for, answers later, and cancels when it leaves. An answer is
the id of the question the person meant.

**`AgentPool`**: one thread per agent, one step per lock: registration,
`SubagentStart`, the thread's start (which may fail, and then records a result
for the node itself), the three parts of `set_result`, and the walk of
`assemble_tree`, whose copy of `child_ids` and wait are two steps. `known` holds
the ids an agent can name; neither the root's id nor an agent's own is ever told
to its descendants.

**`AgentTurn`** has the transcript as messages, the reply being run, skills
loaded and unloaded from it, the summary that replaces it and the session saves.
`Unload` is the walk of `SkillTool::unload`, from the last message to the first,
which edits the reply that owns a result as well; it runs in the middle of a reply
whose other calls are still to be answered. `Within` says whose directory occurs in
the text of whose, so that `label_for_text` may find the wrong skill, and a command that
reads from inside a directory names none.
**`ToolLoading`** is the other half of a turn: the catalog pinned for it while
the registry's changes, deferral, search, loading, eviction.

**`OllamaPool`**: a request is named by its agent, which blocks on it. A step is
what `mQueueMutex` covers, one `notify_one`, or one move of the once flag.

### MCP

**`McpClient`**: callers, the listener and the transports' servers. A transport is
single use, and its server is closed when the last reference goes. `connect()` goes
round twice where a server dies on the probe: `CrashedOnProbe` leads to a second
transport and the legacy handshake. A session may be lost before a request was run, or
after it, when its stream is resumed; the client cannot tell, sends it again, and
`call[c].lost` remembers. The handshake is otherwise one step there and the subject of
**`McpHandshake`**, with a server of any kind the code was written for and answers that
race timeouts. **`StdioTransport`** and **`HttpTransport`** have one thread per `pc`, a
clock of few ticks, the pause while a person answers, and closing; over HTTP also the
renewed login, resumption by event id and the stream of notifications.
**`SpawnProcess`** tracks which process holds which pipe end. **`SseStream`** feeds the
parser chunks and compares with the stream read whole. **`McpRegistry`** names a client
by the epoch of the connect that made it. **`OAuthTokens`** has several processes over
one credential file, a server that rotates refresh tokens, and crashes; **`OAuthLogin`**
one process with several logins, ports, registrations, tabs and scopes;
**`LoginPrompt`** m8's question whether to log in. **`ServerConfig`** has three files of
entries, the approvals, running m8s, commands and others who edit; `said` is what
somebody saw or typed and said yes to, `found` what an `mcp add` approved of what it
read back. **`Elicitation`** runs a form or a link with whatever a person types.
**`ToolCatalog`** and **`SchemaLowering`** are algorithms checked over bounded inputs:
names, lookups and the search's ranking, and lowering with coercion against the meaning
of schemas.

### Tools and screens

**`BashRepl`** and **`ShellSession`** have the shell as a process of its own.
**`BashSearch`** has the cached index, its worker and scans, the destructor at the exit,
which finds detached callers wherever they are, and the query parser, whose tree is the
sets of tags it is true of, against its grammar. **`FileTools`** are read, write and
edit; **`HtmlText`** the converter, a piece of the page a step. **`Transcript`** is the
tree, routes and pointers of m8 and of sp (`app` says which): of a list it has which
subagents' nodes are in it, of the save at a turn's end which subagents it waits for
(`missed` are the others, as `assemble_tree` copies a node's children before it waits).
**`InputBox`** m8's keyboard, **`M8trixsh`** the mode file, the prompt and its
questions, **`TerminalView`** the scrollback and operating-system commands.

## 3. The runs

| Run | What it shows |
|---|---|
| `VectorLog` | two documents, every operation, compaction also at open, a failed write, a killed process and a power loss in any order (two of the three in a behaviour): `ReplayIsFaithful`, `SnapshotLabelsMatch`, `OpensAfterPowerLoss`, and the refinement of `DurableStore` |
| `InteractionQueue` | three threads, a session each, three questions of either kind: all safety and liveness of the queue |
| `AgentPool_tree` | three subagents, two levels, a budget of two, two turns, one thread that fails to start: all safety |
| `AgentPool_live` | two subagents: every agent finishes, the root returns |
| `OllamaPool` | three agents, two workers, both kinds, shutdown at any time: cap, ownership, liveness |
| `MCProtocol` | `RestartsBudgeted`; `OneMeaning` (no call run twice but for a session lost at a resumed stream, the right era); `NothingIsLeft`; `PeopleStopTheClock`; `EverythingEnds` |
| `MCServers` | `RegistryIsRight`, `LoginsAreKept`, `PersonDecides`, `ChoicesStand` |
| `MCAgent` | `StoresAgree` (memories, locks, sessions, the index of commands); `TurnsAreRight` (calls and results, unloaded skills, promised tools, names of tools); `ShellsAreAccountedFor`; `ToolsKeepFaith` (searches, schemas, event streams, files, pages); `ScreenIsRight`; `StepsKeepFaith` |

Four runs show a disagreement between the code and what the repository says of it:

| Run | Disagreement |
|---|---|
| `VectorLog_header` | a killed process, a reopen, a flush and a power loss can tear both header pages, which "always leaves a whole copy" (`core/vdb/vector_store.cpp:562-564`) excludes: the page read back at open was never synced |
| `AgentPool_save` | a child spawned while the walk waits for its parent is neither waited for nor saved, against "Blocks on any descendant still running" (`core/agent/agent_pool.h:57-58`) |
| `LoginPrompt_end` | the login's thread notifies without the lock, so a login that fails at once can notify between its prompt's test and its sleep; the prompt keeps the question queue for good, and "Esc gives up" (`apps/m8/main.cpp:725-727`) does not hold |
| `Transcript_uses` | a summary during a turn clears the list the turn's iterator and a memory command's pointer point into, against `apps/sp/main.cpp:203-206` and `:480-481` |

### Bounds, and why they suffice

Every bound is a constant with `Max` in its name and appears in a guard.

- `VectorLog`: two documents and two metadata values give superseded, deleted and
  surviving records side by side; three records are enough for a document that is
  deleted, updated twice or compacted away with a snapshot around it. One failed
  write, one kill and one power loss, two of them in a behaviour, reach every gap
  between two writes and a torn tail that is overwritten, read back and torn again.
  The constraint `OldFileMatters` drops states that still hold a renamed file which
  no power loss can bring back any more.
- `InteractionQueue`: three threads are needed for one to overtake another while a
  third holds the session; three ids, for a reply to be late by two questions.
- `AgentPool`: three subagents on two levels give a sibling, a grandchild and a
  refused spawn; a second turn makes the walk meet nodes that already ended.
- `OllamaPool`: more agents than workers, so that queues build up. `MaxWorkers`
  is twice the concurrency, room for a pool started twice.
- `MCProtocol`: two callers find one dead server at once, with one restart left;
  four transports are the first, its restart, one after the budget has aged and that of
  the fallback.
  A timeout is one tick and a lifetime two, so that a request can be late for
  either reason and progress can extend it once; one question of the server pauses
  the clock across a deadline. Two servers and one other child are started across
  each other.
- `MCServers`: two epochs and one worker let a connect be overtaken by a command
  and by a refresh. Two m8s share the token through two grants. Two logins compete
  for two ports under four deployments (configured, registered for any or for a
  fixed port, a metadata document) with two scopes. Two versions of one entry,
  three files and two edits are what "changed after it was seen" needs. The forms
  hold each type of field, defaults beyond a limit and choices that look like
  positions.
- `MCAgent`: two agents and two memories; two documents on one stripe; three points with
  six links on two layers; two steps with two calls in a turn, up to six messages when a
  reply asks for tools, and two skills, the name of one of which begins with the
  other's; three tools of two servers with room for two, over three turns, so that one
  is evicted while another is in use and a server goes while a turn has it pinned;
  schemas of one property with references, alternatives and parts, two levels deep;
  three shells over four commands; files of up to three characters, and longer ones in
  which two edits touch; queries of up to five tokens; three subagents, for one to be
  missed and to spawn another, over one turn and one memory command on a screen; three
  toggles and two questions at a prompt. Names are such that two servers and two tools
  clean up to the same. Event streams have four pieces in chunks of up to three, room
  for a CR and its LF in different chunks.

Symmetry is declared for the metadata values of `VectorLog` only.

The runs allow deadlock because these programs really stop: a store that is
closed or refused with its bounds used up, a queue whose screen has left, a pool
that has shut down, a command that has been answered, a process that has ended.
What must not stop is stated as a liveness property instead.

### Fairness

- Threads are scheduled: weak fairness on each thread's steps, one condition per
  thread. No fairness on starting anything: sessions, questions, turns, spawns,
  requests, keys, shutdown are never forced; and none on an accident.
- `InteractionQueue`: a session ends (`WF(End)`), since every user of a session
  is a block of code that leaves its scope; `done()` need not ever say yes. That
  a person answers is not assumed by the specification: `Attended` is a premise
  of the two properties that need it.
- `AgentPool`: `SF(TurnEnds)`. A turn that is in `turn` again and again, coming
  back from calls, ends because `max_steps` bounds its tool calls.
- `OllamaPool`: every HTTP request ends, since each has a timeout. Embeddings go
  ahead of chats, so a chat is served only because an agent makes finitely many
  embeddings before it chats again: `MaxRecalls` is that premise.
- `MCProtocol`: each caller, the listener, the I/O thread and the worker. A stream
  of a server that is gone, or that is being closed, ends. In the handshake a live
  server answers what it was asked: `Willing` is about such servers, and timeouts
  are steps of the client's own thread. Steps of two parts share a condition, as
  no behaviour is of both.
- `MCAgent`: the tool's thread in `BashRepl`, and the shell as far as sourcing a
  line and printing a marker once a command is over; that a command ends is not
  assumed. In `ShellSession` the reader and the owner.
- The violation runs: `LoginPrompt_end` is fair to every thread and to the
  browser giving up, so a prompt that stays has missed its only notify.

## 4. What is proved

TLAPS checks these for every value of the constants that satisfies the named
assumptions (`QueueAssumption`, the two `PoolAssumption`s, `ClientAssumption`,
`ProtocolAssumption`, `WidthsAssumption`, `PartsAssumption`, `TurnsAssumption`,
`CatalogAssumption`, `SearchAssumption`, `RegistryAssumption`, `ServersAssumption`,
`VectorLogAssumption`).

`InteractionQueue` (at its end): `TypeCorrect`, `SessionsExclude` (`OneSession`),
`ShownQuestionHasItsAsker`, `AnswersMatchQuestions`, and two action properties,
`ServedInOrder` (`FirstComeFirstServed`) and `AnswersAreDelivered`
(`TakenAnswerIsDelivered`). `OneSession` is not inductive: that
a session is let in alone depends on tickets being distinct and not behind
`mServing` (`TicketInv`). That the answer is for the right question depends on
`mAnswer` being about `mShown`, and on the question having one asker, which in
turn needs sessions to exclude before cancellation and no question to be put
after it (`QuestionInv`). That an answer once taken is what the call returns, however
it crosses with the end of a login or with `cancel_all()`, is then a matter of the
steps by which a thread leaves its question: only `ask()` and a round of
`ask_until()` lead back into the session, and both look for an answer before they
look for a cancellation.

`AgentPool_proofs`: `TypeCorrect`, `Budget`, `Depth`, `SlotBeforeResult`,
`EventsComeInOrder`, `TreesStaySound`. `mLive` counts the running subagents only
because whoever frees a slot does so for a node that was registered and not
finished yet; `NodeInv` says which nodes have a depth, a thread or an end,
`RecordInv` what a thread inside `spawn` or `set_result` is about. The cardinality
steps use the library's theorems on finite sets. The order of events needs that
whoever records a result is about a subagent whose start was announced
(`EventInv`); the saved tree, that a node has one parent (`ChildInv`), and that the
walk has the parent of every node it has met already in its tree, and none of the
root's children behind it (`WalkInv`).

`OllamaPool` (at its end): `TypeCorrect`, `Capped` (`RequestsCapped`), `OneOwnerEach`
(`OneOwner`). The cap follows from `PoolInv`: `call_once` admits one starter, so
the workers ever started are `1..Jobs`. `OneOwner` needs that no queue holds a
request twice (`QueueInv`), that a running request is in no queue and not
fulfilled (`JobInv`), and that a pushed one is somewhere (`PlaceInv`).

`AgentParts_proofs`: `PartsKeepTheirTypes` (`Types`), `StoresStayTogether`
(`StoresAgree`), `TurnsStayRight` (`TurnsAreRight`), `ShellsStayAccounted`
(`ShellsAreAccountedFor`), `ScreenStaysRight` (`ScreenIsRight`) and `StepsAreRight`,
the four action properties of `StepIsRight` that `StepsKeepFaith` includes. Each part
but the memories has its `IInv` at the end of its module, and `SuiteInv` joins them:

- Memories. Two recalls may write the same count (a bump is lost), so the count a
  recall carries from its search to its bump must be tied to something that only
  grows: `HitsAreOld` says it is no more than the answers the memory has had by now,
  that only a recall in its bumps, which holds the lock shared, has hits, and that
  whoever is past its embedding knows a width. `Forget` needs the lock for itself,
  hence nothing it removes is in an answer. That no count passes `MaxRecalls` needs
  `AnswersAreCounted` besides: the answers a memory has had, and the recalls under way
  that may still give it, together are no more than the recalls begun.
- Locks. What a thread holds is a function of where it is (`PlaceInv`), and two who
  hold the same lock are compatible (`HoldersGetOn`). Of threads that wait for one
  another none then waits for the log, whose holder works; so none for a key, and so
  none for the structure: `NoCircularWait` follows, for any stripes. For the deferred
  changes `ClearsWhatIsWritten`: a flush about to clear a mark has the structure alone,
  so nothing changed what it wrote.
- Sessions. A file holds nothing, a part or the whole of one store begun under its id,
  the whole exactly when the store came to its end (`FilesAreStores`); nobody else
  writes a file that is being written (`WritersApart`); the file changed last carries
  the clock (`ClockIsLast`); and what the reader has picked was last when it looked
  (`PickWasLast`).
- The turn. `CallsAreAnswered` is asked when the model is, but a skill may be unloaded
  between two calls of one reply, so `Paired(T, open)` says it of a transcript whose
  last reply still waits for the results of `open`: what stands behind a reply are
  results of its calls in their order, and every result is such a one. `Labelled`: a
  message that holds a skill's text has its label, and is a result. One step of the
  walk (`ForgetOne`) takes away a result and its call (`OneResultLess`), and the reply
  too when that was all it was (`OneMessageLess`); `UnloadRight` is the whole walk, by
  the first index at which it would go wrong (`Least`). Such a step may erase two
  messages while the walk's index goes down by one (`core/agent/skills.cpp:312-321`).
  The index stays inside the transcript only because the reply being run, which is
  still to be answered, is at the end and carries no label: that is the premise
  `Waits`, and `SkillTool` is never called without it. Skills may lie in one another's
  directories (`Within` is any relation): `UnloadForgetsAll` is then about what can be
  told from the call (`Tellable`), that is, what the skill tool loaded and what a command
  read by a directory with no other skill's in its text. The rest stays (section 5).
- The tools offered. Both lists of `LoadedTools` name a tool once and the same tools,
  and `lru` is in the order of use (`LoadedInv`); so what eviction leaves, an end of
  `lru`, was used no earlier than what it drops (`OldestGoFirst`), however many it
  must drop for their tokens. What a turn has promised is loaded and is in the catalog
  it has pinned (`PromiseInv`), whatever the registry does. Lists are filtered with
  `Among`, whose facts (`BehindOneAnother` and the lemmas before it) are inductions
  made the same way, as `FlattenSeq` is a recursive function.
- Names of tools. `NamesTell`: in a catalog a name without a suffix is the first of its
  kind, and one with a suffix tells the server and the tool; so whatever `sanitize()`
  makes of two names, the last tool with a name is the tool it was given to.
  `Listed` and `Finalize` go through their lists with recursive functions, so that a
  catalog of any length is again an induction by the least index that fails.
- The index of commands. `WorkerInv`: the worker runs from the first search that the
  cache answers, and once; the destructor joins it if it was there to be taken, and one
  that a late caller starts behind that looks at the signal first and ends. `RefreshInv`:
  while nobody calls `scan()`, whoever builds besides the worker holds the lock, and
  what the worker built after a search was served is no older than it.
- Shells. `PipesAreTheCalls`: between two calls of `bash_repl` its pipes are empty, so
  a marker is of the call in hand. `ReapedOnce`: the child's status is kept exactly
  when it was reaped, and the owner looks only when the reader is done.
- Transcript. `TurnsAreWaitedFor`: who works belongs to a turn that is waited for, or was
  missed by the save of its turn; and whom a missed subagent spawns is missed as well.
  `ThreadsAreCounted`: sp's counter is of the threads there are, by the theorems on
  finite sets. That a route leads to a node needs that what a summary removes leaves
  every table.
- `FileIsCurrent` of m8trixsh: the file is being written with the mode of now, or has
  it; and zsh has read it, or will be told to. `TagSettles` is the case in which
  nothing more is to come.
- Boxes and pane. The answer box is of the question it was last set for. The pieces
  kept are those of the command vterm is in, in order (`PiecesAreTheCommands`); lines
  are kept in the order they came, and the view is within them (`LinesAreInOrder`),
  which is why a push that drops the oldest line can be made up for by the offset.

`MCProtocol_proofs`: of the client `ClientTypes`, `RestartsStayBudgeted`
(`RestartsBudgeted`) and `CallsRunOncePerSession`, and of the whole suite
`PartsKeepTheirTypes` (`Types`), `EndLeavesNothing` (`NothingIsLeft`),
`TimeOfPeopleIsGivenBack` (`PeopleStopTheClock`) and `OneMeaningOfAnswers`
(`OneMeaning`). The budget is taken by a caller before it makes a transport, so the
count of transports alone is not inductive. The strengthening `Paid` says that the
transports ever made, and the callers on their way to make one, together are at most `1
+ mRestarts + aged`, and one more once `connect()` has fallen back to the legacy
handshake (`FellBack`), which it does once in a client's life; `OneConnects` that only
the holder of `mConnectMutex` is making or shaking hands over a transport; `NotRunYet`
that no request but the one its server is answering was run, unless its session was lost
after it had run, which happens to a request once, as it is resent once. Each of the
other parts has an `IInv` at the end of its module, one lemma says it holds at the start
and one that a step keeps it, and `SuiteInv` joins them:

- The clocks. That a late request had its time to itself is about the past, so
  `ClockInv` keeps an account while the request waits: now and its timeout together
  are no more than its deadline, the time it was charged for, and what it is owed.
  Over stdio the worker adds the pause to every deadline when a person has answered,
  and only what passes while one is being asked is owed; or else the request got progress
  and its deadline is no earlier than its lifetime on the wall clock, which is all that
  `TimedOutForItsOwnTime` then promises. Over HTTP a request works
  out itself, from the pauses since it started, what to add, so `Credit` is the
  difference of the two totals and what passes now, and it must hold for either of
  its two deadlines, the timeout or the whole lifetime.
- `EndInv` (stdio): the thread that is about to end has marked the transport dead
  before it fails the pending requests, so none is added after that. `CloseInv`
  (HTTP): `close()` is back only after the request, its stream and the worker are.
- `ReplyInv` and `PhaseInv` (handshake): what each reply says of the server, and that
  whoever asks the older question has a reason to, or comes after the deadline.
- `IsOpen` (a start): exactly which descriptors m8 has, and which of them are marked
  close-on-exec, is a function of how far each start is; with pipe2() none is ever
  open unmarked, hence no child inherits one.

`MCServers_proofs`: of the registry `TypeCorrect` and `RegistryStaysRight`
(`RegistryIsRight`), and of the whole suite `PartsKeepTheirTypes` (`Types`),
`LoginsStayKept` (`LoginsAreKept`), `ANoStands` (`ChoicesStand`) and
`ThePersonDecides` (`PersonDecides`).
For the registry, `EpochInv`: the state `Connecting` has the connect task of the
epoch in force behind it, and no task runs for an epoch that was not begun.
`ClientInv`: the client installed is that epoch's, and any other server that runs is
still held by its connect task. `PublishInv`: while the snapshot is out of date, some
thread has yet to copy the catalog or holds a copy of it as it is. The other parts
have an `IInv` at the end of their modules, and `SuiteInv` joins them:

- `TokenInv`: whoever asks for a refresh holds the lock of the file and asks with
  the token that is in it; whoever was answered holds a token the server honours,
  that is not the file's, and that nobody else holds. `NoTokenLost` alone says
  nothing of the token under way from the answer to the file.
- `ClientInv` of a login: every client it keeps, the stored one and its own, is
  registered for the redirect URI of the port it listens on; a registration for
  another port, or one the server forgot, is not used again.
- `WorkerInv`: no thread is left over when a prompt begins or asks.
- `ApprovalInv`: of every copy of the approvals, in the file, in an m8 and in a
  command that is about to write the file back, each entry was said yes to
  (`SaidTo`), or found by an `mcp add`; a copy that is stale loses an approval and never
  invents one.
- `LinkInv`: a link was opened exactly when it is remembered as opened, and who is
  asked about a link, or told to open it by hand, has not opened it.
- `AnswerInv` of a form: every field behind the one that is asked for, and in the review
  every field, has a value that fits it or none, and what the review shows is that
  value's text. Three facts about all texts carry it: what `Coerce` makes of a text fits
  the field (`CoercedFits`), what `AnswerText` makes of a value can be typed
  (`AnswerTyped`), and coerced again it is the value it was (`ComesBack`) where the text
  is `Unambiguous`: the number is not rounded and no other choice says the same. There
  an edit round in which Enter is all that is pressed changes nothing, though numbers,
  choices by title or position and lists are all written differently from how they were
  typed. A list is read and written item by item with `FlattenSeq`, whose value is a
  recursive function; the lemmas on it (`FlatExists`, `Flattened`, `FlatOnes`) are
  inductions made through the least index that fails. `Described` is what is assumed of
  a form: its choices and defaults are values.

`VectorLog_proofs`: `TypeCorrect`, `ReplayStaysFaithful` (`ReplayIsFaithful`),
`SnapshotsFit` (`SnapshotLabelsMatch`) and `OpensAgain` (`OpensAfterPowerLoss`), for any
number of documents, records, failed writes, kills and power losses. The invariant
`LogInv` calls a log *good* when each record fits what replay makes of those before it
(`Good`, `Fits`): a `Set` or `Del` names a live document, a `Put` a new one, a `Snap`
the labels of that moment. A handle that is steady matches the replay of its log
(`Matches`), and a file waiting to take the place of another matches the handle it was
compacted from. Every operation then appends a record that fits, and what it does to the
handle is what replay does for that record. `LogReads` says what a good log says of a
document position by position, with no replay in it: its only `Put`, the last record
that gives it metadata, its `Del`, and which records are dead; one lemma per record type
shows that replaying one more record keeps it true, hence `ReplayReadsTheLog` and
`GarbageIsDeadBytes`. Replay and the byte sums are recursive functions, and what they
say of a log of any length is an induction over it; it is made through the least number
at which a claim fails (`Least`), which needs no induction theorem with an operator
parameter. `OpensAgain` says that a store opens again after any power losses *while no
process was killed and no write failed*, which is a premise of the property itself
(`kills = 0 /\ faults = 0`), and supposes `FirstOpenSafe`, as the runs do: without it
the code can be caught between sizing its very first file and its first header (section
5). The first premise is needed: `VectorLog_header` shows a kill, a second header and a
power loss after which no page decodes. Its invariant `HdrInv` says that, under those
premises, generations sit on the page of their parity, and outside a flush the cache's
pages are the disk's, so that at most one page can tear.

`VectorPromise_proofs`: `PromiseKept` (`KeepsThePromise`), the refinement, with the
exception of section 2. Its invariant is `DurableInv`, that is `LogInv`, `PromiseInv`,
and that the abstract variables are what `MCVectorLog` computes. `LogInv` speaks of the
handle and its log and lacks three things the promise needs: a file not yet sized has an
empty log, so that bringing it back brings back nothing; a handle that `flush()` has
sealed (`Sealed`) has no deferred change left, so that what is written out is what is
served; and a file just renamed is synced to its last record, so that the copy is one
moment and no more. The rest is what the steps do to documents: `GrowsShows`,
`RewritesShows` and `BuriesShows` for a record appended to a handle, `KeptShows` for
compaction, `FileMore`, `FileSettled` and `PowerLossHolds` for the moments of a file.
Then one lemma per action of `VectorLog` (`AddDocKeeps`, `CompactKeeps`, ...) names the
step of `DurableStore` it takes, `StepKeeps` joins them, and a step that leaves
everything alone maps to one that does.

Only model-checked: every liveness property, `NobodyWaitsForever`, `EverybodyReturns`,
`EverythingEnds` and the two leads-to of `StepsKeepFaith`, because fairness and
`ENABLED` are out of the prover's reach; and `ToolsKeepFaith`, whose parts are
algorithms held against a reference: `SchemaLowering`, `SseStream`, `HtmlText`,
`FileTools`, `VectorIndex`, `VectorFilter`, the search for tools and the query language
of commands. Some declare `RECURSIVE` operators, behind which the prover has no
arithmetic, or compute over trees and graphs with definitions whose correctness is one
long induction over the data, and most are checked against a second definition of the
same kind. With them goes `SelectionSurvives`, the one action property of
`StepsKeepFaith` that is not in `StepIsRight`.

## 5. Noticed while modelling

Read in the code and given no run, because a single line or a data format shows it:

- `update_metadata()` is documented "Durable: appends a SetMeta record and fsyncs
  before returning" (`core/vdb/vector_store.h:269-270`); it returns at
  `vector_store.cpp:1002` without a sync.
- A process killed between sizing a new store's file (`vector_store.cpp:1241`) and
  its first header (`:1247`) leaves a file that every later `open()` refuses. The
  runs do not stop a process there (`FirstOpenSafe`).
- The key handler answers the question the queue shows at that moment
  (`apps/m8/main.cpp:1443`), not the one that was drawn; "a keystroke meant for one
  question can never answer the next" (`common/interaction_queue.h:73-75`) holds of
  the id only. `InputBox` checks the text that goes with it.
- Over stdio, progress caps the deadline at `started + kMaxRequestLifetime`
  (`core/mcp/stdio_transport.cpp:318-321`), which takes back a pause that was
  "added back to every deadline" (`stdio_transport.h:102-103`): a request that got
  progress may time out for time in which a person was being asked. Over HTTP the
  lifetime is credited with the pause as well. `PeopleStopTheClock` says both.
- A 404 is taken to mean that the request "was never run"
  (`core/mcp/http_transport.cpp:561-562`, `client.cpp:462-463`), and it is sent again.
  That is so of the answer to a POST; the GET that resumes a stream after the request
  was run may be answered 404 too, and then the request runs twice. `OneMeaning` allows
  that and no more.
- The budget of restarts is charged in `ensure_connected()`; `connect()` may start a server
  twice (`client.cpp:320`, `:376-386`), the second time only to say `initialize`.
  It does so once in a client's life, as the protocol is legacy from there on.
- `mcp add` reads its entry back from all the files and approves what has the name there
  (`apps/m8/m8_mcp_cli.cpp:152-173`), unseen and unasked. Where the name is in a file that
  is read later, that is not what was typed. `PersonDecides` keeps such approvals apart, in
  `found`.
- "Every subagent has emitted SubagentDone by now" (`apps/m8/main.cpp:849`), and the same
  for a descendant that is alive (`apps/sp/main.cpp:187`, `:401-404`, `:511-513`), is
  not so of one the save missed (`AgentPool_save`): `/reset` may clear the transcript
  under it, its later events land in the root's list, and its pane may come back over
  the transcript without a turn. `ScreenIsRight` and `StepsKeepFaith` allow that for
  missed subagents and nobody else.
- Behind main()'s return, detached turns and subagents may still be inside `scan()` or
  `ensure_loaded()`: bash_search's destructor joins the worker only
  (`core/tools/tools_bash_search.cpp:587-591`), so they may still write the index, under a
  path a test has reset, and use members that are gone. A search that is first behind the
  destructor's `wait_for_rescan()` starts a worker nobody joins; it sees `mStop`.
- `load_from_path` takes what parses of a file (`core/agent/session_store.cpp:57-63`,
  `:156-176`): a file that broke off behind an inner brace loads as a tree with its last
  children missing. And `store()` returns well before the stream is flushed and closed
  (`:118-131`).
- A login that ends while the registry shuts down may start a connect task after the
  tasks were taken to be joined (`core/mcp/registry.cpp:880-889`, `:963-970`); nobody
  joins that one.
- A refresh sends the client secret only for the configured client
  (`core/mcp/oauth.cpp:679-682`), while a registered client's secret is kept and
  sent when the code is exchanged (`:887-891`, `:953`): a confidential registered
  client's refresh is refused. `OAuthLogin!Refresh` models it as refused.
- `answer_text` is "a value as it would be typed back in" (`elicitation.h:80`) but
  writes a fraction with six digits (`elicitation.cpp:52-60`).
- m8trixsh may set the answer's promise twice, which throws
  (`apps/m8trixsh/main.cpp:583-584`, `:931`).
- "The server still receives the model's arguments untouched" (`core/mcp/schema.h:29-31`)
  is no longer so: `fix_arguments` coerces them.
- The suffix of a clashing tool name is "the same every time" (`catalog.cpp:166-167`)
  for one tool, but which of two gets it depends on their order; and a call looks its
  name up in a fresh snapshot (`registry.cpp:507`), not in the one the turn pinned.
- `write_index` of the command search uses one temporary file for every writer
  (`core/tools/tools_bash_search.cpp:780-782`).
- `label_for_text` takes the first skill whose directory occurs anywhere in a command
  (`core/agent/skills.cpp:181-189`), and `git` occurs in `git-review`: what was read of
  the second is labelled as the first's. A command run from inside the directory names
  none and leaves no label. `unload`, which "removes everything you loaded for that
  skill" (`:207`), finds neither, and unloading `git` takes away what was read of
  `git-review`. `UnloadForgetsAll` excepts the first two.
- A form's default is taken as the server sends it (`core/mcp/elicitation.cpp:412`),
  so a default of another type than its field's is shown and comes back as what its
  text means in the field, or not at all; `EnterKeeps` speaks of the field's own type.
  A text of nothing but commas is an empty answer.
- A byte order mark split over two chunks is not removed (`core/mcp/sse.cpp:9-11`).
- `registry_key` of the memory tool (`core/vdb/memory_tool.cpp:15-22`) is not
  canonical for symbolic links.
- `set_result()` publishes before it emits `SubagentDone`; `answer()` calls no
  listener; `set_concurrency()` checks and stores in two steps; a torn newest session
  file hides the older ones from `latest()`; two agents editing one file can undo one
  another's edit.

## 6. Not modelled

- The JSON-RPC messages, content rendering, the wire log, base64, SHA-256, URLs,
  PKCE and the other helpers: functions without state that unit tests reach.
- Policy, workspace context, settings and prompts: read once, or a pure decision.
- The Ollama and web requests themselves: one request, one result. Their failures
  appear as steps of the modules that make them.
- The vector arithmetic, the random level of a node, the ranking formula of
  memories and BM25: numbers. Order and counting are kept.
- libvterm, libcurl, zsh, Ollama and the authorization server: outside the
  repository; each is modelled by what the code relies on and marked external.
- Layout, colours, scrolling of m8's transcript, and command-line options.
- `set_concurrency()` after startup, a shutdown during the pool's start, and the
  MCP command line's `import`, `get` and `list`.

`PROJECT.json` gives the reason per component.

## 7. What is left

In the order in which it would say most:

1. The abstract call ("returns exactly once") as a specification of its own that
   `McpClient` over each transport implements.
2. The filter (`SelectionSurvives`), once it is written without `RECURSIVE` operators;
   and the ranking of the tool search (`RanksWhatIsAskedFor`), by inductions like those
   on `Among` and `Finalize`.
3. The command line's import, and m8's scrolling.
