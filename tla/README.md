# TradeIntel 360: a verification development

TradeIntel 360 is a Django application for post-trade review. A user uploads a
broker's trading history, the application cleans it into a *journal*, and the
user looks at its KPIs, charts, trade review and exports. Minute bars uploaded
next to the journal yield *excursion evidence* for every trade. A retrieval and
grounding layer turns journal and evidence into prompts; a staff page can send
one fixed prompt to an LLM provider, and only after a preview was approved. Next
to the uploads, users keep trades by hand and a profile.

This directory holds TLA+ modules that model that program, TLC configurations
that check them on small instances, and proofs checked by TLAPS. "The code" below
is the repository's source; `PROJECT.json` maps every definition that models
code to the lines it models.

## 1. Inventory

| Component | State it keeps | Operations | What is hard about it | What makes it correct |
|---|---|---|---|---|
| Review session and trading files (`performance/views.py`, `models.py`) | rows of `TradingFile` (owner, status); `cleaned_data`, `last_uploaded_file` and the excursion evidence in the user's session | `upload_file`, `load_file`, `upload_market_data`, `dashboard`, `kpi_report`, exports, inspectors, `admin_delete_file` | every request works on a copy of the whole session and writes the whole copy back; row and session are saved separately; rows are deleted under a running upload; a locked database refuses a write; workers die | the journal shown is the file named and is the user's own; the file list marks no shown file as an error, and no row stays pending; nothing deleted or logged out comes back |
| Evidence binding (`excursion_state.py`) | one payload in the session | store, clear, load if bound | evidence becomes stale when another journal is loaded, and nobody removes it then | evidence is shown only with the journal it was computed from |
| Provider approval (`provider_inspector.py`) | the approval in the session; consumed nonces in the process's cache | preview (GET), confirm (POST) | session copies bring used approvals back; cache entries expire; other processes run other releases | at most one call per approval; what is sent is what was previewed, in time |
| Grounded generation, provider adapter, canary (`ai_orchestration`, `ai_provider`, `run_provider_canary.py`) | none between calls | one generation: packet, prompt, provider, validation | every step may fail in its own way; answers come late or never | one call, no retry; nothing unvalidated is shown as passed |
| Grounding contract (`ai_grounding`) | none | build the evidence packet, render the prompt, validate the answer | many rejection codes that may hold together; limits derived twice; masks that hide identifiers and times before numbers are read | a passed answer says nothing that the journal does not |
| Corpus and retrieval (`rag`) | none | build documents, rank them in the scope of one user and journal | ties, filters, parity of evidence and journal tickets | results are of the scope only and become a packet |
| Excursion computation (`excursion.py`, `time_basis.py`) | none | normalise times, match bars, classify each trade, compute MFE and MAE | daylight-saving gaps and overlaps, window boundaries, missing bars | computed exactly with full coverage; MFE and MAE are the true extremes |
| Market data (`market_data.py`) | none | parse a file of bars | order of rows, repeated bars, limits, resolution | an accepted file is what the computation assumes, row by row |
| Ingestion (`ingestion.py`) | none | read, rename columns, validate, store as JSON | aliases, repeated headers, unparsable and infinite cells | accepted only with a usable Profit column |
| KPIs, filters, lineage (`utils.py`, `analytics.py`, `views.py`) | the journal of the session | filter, aggregate, link between pages, export | empty data, missing cells, a second date column, links that outlive their journal | linked pages share their scope, KPIs agree with the rows |
| Analytical queries (`analytical_queries.py`, `analytical_query_inspector.py`) | none | eight fixed queries with groups and an input hash | faulty rows among good ones, ties, columns read but not hashed | all rows or none; siblings agree; same input, same answer |
| Trade review table (`trade_review.py`, `views.py`) | none | sort, page, link | every page sorts again; journal and evidence change in between | a walk over the pages shows every trade once, as marked |
| Trade records (`trading`) | rows of `Trade` with a cached pnl | create, update, delete, list, sizing page | read-modify-write of whole rows by overlapping requests | the cached pnl fits the row; rows stay with their user |
| Profiles (`core`) | one `UserProfile` per user | log in, edit, save by signal | full-row saves by a signal | who was served has a profile; what was saved stays |
| Evaluation harnesses (`rag/evaluation.py`, `ai_evaluation`) | none | run fixed cases | case data | not modelled: offline and mostly data |
| Pages, styles, settings | none | render | | not modelled: presentation and configuration |

How they interact. All views share one row of Django's session table per login:
`upload_file` and `load_file` put the journal there, `upload_market_data` the
evidence, `provider_inspector` the approval, and every view that touches the
session writes *all* of it back. `settings.py` configures the database session
store by default, no `CACHES` (so each process has a private in-memory cache),
SQLite and no `ATOMIC_REQUESTS`: every `save()` is its own transaction.
The evidence binds to the journal through `compute_journal_fingerprint`, which
covers tickets, times, symbols, sides, prices and durations but not the profit.
The journal is stored as JSON (`df.to_json(orient="split")`), which turns an
infinite number into nothing, and every page reads it anew. The grounding layer
works on that journal, its KPIs and its bound evidence; both callers of a
generation, inspector and canary, use the same fixed fixture.

## 2. Modules

| Module | What it is |
|---|---|
| `JournalSession` | the review session: file rows, session table, overlapping requests, crashes, logouts, deletions |
| `JournalSessionProps` | its properties and the refinement mapping to `ReviewSession` |
| `ReviewSession` | the abstract specification: what a session may show |
| `ProviderApproval`, `ProviderApprovalProps` | the preview and confirmation of a provider call |
| `TimeBasis` | the instant of a journal's wall-clock time under a declared basis |
| `Excursion`, `ExcursionProps` | one run over a journal: join, timing, coverage and evidence of every trade; extends `TimeBasis` |
| `MarketData`, `MarketDataProps` | a file of minute bars, row after row |
| `EvidenceCorpus` | documents, corpus checks, filters, ranking and cut |
| `EvidencePacket` | projection of retrieved documents to a packet, its limitations, the shape check |
| `ResponseValidation` | the deterministic checks on an answer; extends `EvidencePacket` |
| `GroundingInspector`, `GroundingInspectorProps` | the page over both: retrieval, packet and validation while journal and evidence change |
| `GroundedGeneration`, `GroundedGenerationProps` | one generation by either caller, over a network; extends `ResponseValidation` |
| `JournalIngestion` | a file becomes a journal, and the journal becomes JSON and back |
| `Kpis` | the KPIs of a sequence of profits |
| `Analytics` | filters, their normalisation and the rows they keep |
| `ReviewScope`, `ReviewScopeProps` | dashboard, KPI report and export, and the links between them |
| `AnalyticalQueries`, `AnalyticalInspector`, `AnalyticalInspectorProps` | the fixed queries, and tabs that ask them while the journal is replaced |
| `TradeReview`, `TradeReviewProps` | the sorted, paged table of trades |
| `WebRequests` | users and worker threads, shared by the next two |
| `TradeRecords` | the trades users keep by hand |
| `UserProfiles` | accounts, profiles and the signal handlers between them |
| `JournalSessionProofs`, `ProviderApprovalProofs`, `ExcursionProofs`, `MarketDataProofs`, `InspectorProofs`, `GenerationProofs` | theorems about the module each is named after (`InspectorProofs`: `GroundingInspector`) |
| `ReviewPagesProofs` | theorems about `ReviewScope`, `AnalyticalInspector` and `TradeReview`, and about the ingestion, filters, KPIs and queries they rest on |
| `RecordsProofs` | theorems about `TradeRecords` and `UserProfiles` |
| `MCJournalSession`, `MCProviderApproval`, `MCExcursion`, `MCMarketData`, `MCGroundingInspector`, `MCGroundedGeneration`, `MCRecords`, `MCReviewPages` | finite instances for TLC |

`ReviewSession` composes with `JournalSession` by refinement. `GroundingInspector`
composes corpus, packet and validation over the session's state, `GroundedGeneration`
composes packet and validation with the provider, and `ReviewScope` composes
ingestion, filters and KPIs. What one module abstracts, another one models: the
function `Content` of `JournalSession` is what `JournalIngestion` makes of a file,
`Fingerprint` is `compute_journal_fingerprint` of `EvidenceCorpus`, the call of
`ProviderApproval` is a run of `GroundedGeneration`, and the bars of `Excursion`
are those `MarketData` accepts (`IsMarket` states what `AcceptedBarsAreUsable`
and `EveryRowIsOneBar` promise).

### JournalSession

A worker thread serves a request in up to four steps. `Begin` loads the session:
login is required on every view, so the first thing a request does is read the
session row, and from then on it works on `req[r].view`. The body of the view
follows, in one step, because it touches nothing but that private copy. The
exception is `upload_file`, which saves the row as pending (`UploadPending`, or
`UploadRefused` when that save raises, outside any `try`) and then reads and
cleans the file. An accepted file is marked processed (`UploadProcess`). The
`try` block raises (`UploadRaises`) when the file is refused, and also when the
status of an accepted one cannot be saved after the session copy was filled. Then
the `except` block pops the journal and marks the row as an error
(`UploadRecover`), and if that save raises too the request is a 500
(`UploadFails`). `save(update_fields=...)` raises for two reasons (`SaveRaises`):
somebody deleted the row, or the database refuses the write, for instance because
it is locked. `dbErrors` counts the writes it refused.
`Respond` is Django's session middleware: if the view modified the copy and the
session row still exists, the whole copy is written; `RespondFails` is the
database refusing that. `Abort` is the 500, for which the middleware saves nothing.

`Content` says what `clean_ftmo_csv` makes of a file: a journal, or `NoValue`
when it refuses or the result cannot be serialised. `Fingerprint` is
`compute_journal_fingerprint`, `NoValue` for a journal without usable tickets.
`Ingest` is the `try` block the two ingestion views share, with both places at
which it may fail: before and after `last_uploaded_file` was replaced.
`Binds` is the test in `load_bound_excursion_state`; the shape and the size of a
payload are left out, because `store_excursion_state` only stores payloads that
pass both tests.
A view that assigns a key always marks the session modified, one that pops a key
only if it was there: that is the third argument of `Finish`.

File ids are never used again: a row is "unused", then pending, processed or
error, then perhaps deleted. The kind "inspect" is a *run* of the retrieval or
grounding inspector (without `run=1` they only read, like "report").

### ReviewSession

The abstract specification knows owners of files and what a session shows:
nothing, or one accepted file of the session's own user, with no evidence or
with the evidence of exactly that file's journal; an ended session shows nothing
again. There are no requests, copies, crashes or statuses in it. The mapping
(`Shown` in `JournalSessionProps`) reads the session table and hides evidence
that is kept but not bound.

### ProviderApproval

A GET stores an approval (nonce, prompt hash, issue time) in its session copy. A
POST pops it, saves the session at once, compares nonce and question, checks the
age, marks the nonce as consumed in the cache of its process, renders the prompt
again, compares it, and calls the provider once. These are the actions
`PopApproval`, `Check`, `Consume`, `Call`; a step boundary lies wherever another
thread or the clock can make a difference. `OtherView` is any other view of the
session: it does not know the approval, but its copy may hold an old one, which
`Respond` then writes back. `Restart` starts a process again, with an empty cache
and perhaps another release, whose prompt may differ.

The clock `now` is in units in which `TTL` is the 600 seconds that bound both
the age of an approval and the life of a cache entry.

### TimeBasis and Excursion

Instants and wall times are integers in one unit, `Minute` units to a minute. A
zone has one transition, at `at`, from the offset `before` to `after`: a gap in
the wall times if the offset grows, an overlap if it shrinks. `Wall` and
`FoldOffset` are `zoneinfo` (what an instant shows; the offset taken for a wall
time and a fold, by the larger or the smaller of the two offsets at the
transition); `iana_utc_mappings` is the code's test of both folds.

`Excursion` is sequential. `JoinTickets` looks at all tickets, then at the
declaration of a basis; `ComputeRow` gives the next row its verdict
(`compute_trade`, a chain of tests in the order of the code) and files it under
its ticket, replacing an entry if there was one, as the dictionary does;
`Finish` sets the result. What parsing makes of a row is abstracted to its
outcome: a canonical ticket or the reason for none, and the reason of the first
cell that is refused. Bars are minutes with a high and a low, as
`market_data.py` accepts them. Prices are integers, so the tolerance of 1e-9
plays no part, and floating-point rounding is left out.

`Excursion` takes any accepted bars (`IsMarket`); only the candidates TLC goes
through are the constant `Markets`.

### MarketData

A file is its size, name, encoding and header, the row at which its CSV syntax
breaks, and its rows. `FileReason` is the order in which the code refuses a whole
file; then `ValidateRow` takes row after row, refuses at the first fault
(`RowReason`, in the order of the code), and `Confirmed` is the test of the
resolution at the end. A cell is what its parser makes of it.

### Corpus, packet and validation

`EvidenceCorpus` builds the documents of a journal (one dataset context, one per
KPI, one per trade) and retrieves them: exact tickets bypass the score, others
need a positive score, ties fall by a total order on document ids. How large a
score is, is left open; only whether query and document share a word decides
whether it is positive. `EvidencePacket` projects retrieved documents to items
with typed fields, derives the limitations, checks the shape of the result
once more, as `schema.py` does with its own derivation, and refuses a request
that names its digest (`NamesDigest`). A question is one of five kinds
(`QuestionKinds`), by what `normalise_question` makes of it: blank, too long once
it is normalised, unstable (normalised again it changes, which
`_validate_question` refuses), leaking (it names the digest), or one that may be
asked. `ResponseValidation` is the set of rejection codes of an answer. An answer
is a set of tokens (citations, numbers, times, tickets, symbols, phrases), which
is what the regular expressions of the code reduce it to; the code collects all
codes, so they are a set. Before numbers are read, the code masks three things, in
this order: citations, the times of the packet wherever their text occurs, and its
identifiers. `Leftover` gives the numbers of a time token that a set of masked
times leaves over, and `NamesIn` the identifiers a number token is written as: "7"
and also "+7" is the ticket 7, whose look-behind does not exclude a sign.

`GroundingInspector` is the page: the session's journal and evidence change
between requests, each request drops evidence that is not bound, and retrieval,
packet and verdict follow within the request. Its properties are stated from the
rows of the journal (`JournalText`), not from the packet.

### GroundedGeneration

One run of either caller from its gates to what it shows: `Start` (the gates of
the inspector, which only asks whether the provider is enabled, or of the canary,
which also asks for a key), `BuildProvider` (which refuses a blank key), `RefusePacket` or `Send`, then the
network. `Accept`, `RefuseRequest` and `Lose` are the environment: the provider
may work on a request at any time, also after the client gave up, and either
direction may be cut. `Raise` counts the client's retries against `MAX_RETRIES`,
which the adapter sets to 0. `accepted` counts what the provider worked on; the
code cannot see it.

### JournalIngestion, Kpis, Analytics, ReviewScope

`Ingested` gives the verdict on a file and its renamed columns; `Stored` is what
remains of it in the session after JSON, and `Parsed` and its siblings what a
page reads back. Headers are as pandas gives them, so none is repeated exactly;
names that become equal once they are stripped are refused if the column is parsed
(`AmbiguousColumn`: a number, or the first date column) and read from the first of
them otherwise (`SourceOf`). `Kpis` folds a sequence of profits. `Analytics`
normalises filters and applies one mask after the other to the rows that are left.
Only the first date column is parsed at ingestion. The search reads any other one
in the format pandas guesses from the first row it is given (`FormatAmong`), which
the filters before may have removed, so `IsFound` takes these rows as a parameter.
In
`ReviewScope` a page records what it was computed from; `Follow` is a link that
carries the filters the page applied, and `Upload` may replace the journal before
the link is clicked. A refused file takes the journal away.

### AnalyticalQueries, AnalyticalInspector

`Execute` is one query: the columns it needs, the issues of the rows (which
refuse the query as a whole), the groups, the winners and ties, the warnings and
the input hash, which is modelled as the value it is taken of (`InputDigest`: the
multiset of the rows over the declared columns). `Raises` is the exception of
`_profit_display`, which has no place for a sum with too many digits (more than
`MaxDisplayed`). `AnalyticalInspector` asks in several tabs while the journal is
replaced or unreadable (`Ask`); a query that raises leaves the page without a
result (`AskInVain`).

### TradeReview

The table of the dashboard: realised movement, evidence by ticket, the sort with
missing values last and ties by ticket, the paginator, and the links. A ticket is
a text with two readings: its canonical form finds the evidence, and its number
(`TicketOf`), which a ticket like "ABC" lacks, breaks ties. Close times are texts,
parsed over the rows of the table in the format of the first. `Headers` are the
columns that carry a link; `TypeSort` is any sort key and direction typed into the
address. `KeptRows` are the rows `apply_analysis` keeps, whichever they are. `seen`
records what a reader has been shown who opens a table and turns its pages.

### TradeRecords, UserProfiles

Both take `Users` and `Requests` from `WebRequests`. A request of `TradeRecords`
loads the row (`Load`, with the owner check) and writes it later (`Update`,
`Delete`); `trade.save()` names no fields, so it inserts a row that is gone.
`author` records whose request wrote a row. `UserProfiles` has a step for each
statement: the account's save, the handler's read and its save of the whole
profile, the save of the form. `saved` records what a form last reported.

## 3. Runs

A run asks about one component or about pages that share a state, and holds
several small *instances*: `MCInit` picks one, kept in the variable `instance`,
and `MCNext` is `Next` restricted to what that instance allows (`Within`, or one
disjunct per instance). A property that holds only while requests do not overlap
says so with the instance it is about.

| Run | Instances | Question |
|---|---|---|
| `JournalSessions` | overlapping requests with files a and b; with a and a refused file, deletions, logouts, a crash and a refused write; two users; one request at a time over every kind of file; the same with two refused writes | names, ownership, evidence, the file list; refinement to `ReviewSession`; which views change the journal when nothing overlaps? |
| `JournalSettles` | 2 requests, files a and bad, fair; one request at a time with two refused writes, fair | does every pending file get settled? |
| `JournalFailedUpload` | one request at a time | expected violation, see section 6 |
| `ApprovalSessions` | replays over more than two lifetimes; two sessions, two nonces; two processes with releases and restarts | at most one call, in time, of what this session previewed? |
| `ApprovalSingleUse` | as above | expected violation, see section 6 |
| `ExcursionRuns` | 1 trade of any times, 4 bases, every set of up to 5 bars; 1 trade of any side and prices, 3 bars of any range; 2 rows of any ticket, defect and symbol | is evidence computed for exactly the coverable trades, is a refusal's reason true, are excursions and flags right, has each row a verdict of its own? |
| `MarketFiles` | 2 symbols, 4 minutes, rows with a fault or two, files of up to 7 rows around a row limit of 4 | is an accepted file what the computation assumes, and a refusal right? |
| `InspectorPages` | every retrieval form, with every kind of question, over 6 journals; some 1400 answers over packets of 2 journals with one fingerprint | do corpus, packet and shape check agree, and is a passed answer true of the journal? |
| `GenerationRuns` | both callers, every setting, the fixture, the same with a malformed cell, an empty retrieval, 3 answers | what may one run send and say, and does it end? |
| `ReviewPages` | links: 12 files, 36 filter sets, 3 values of Min R/R; kpis: every journal of up to 3 trades, some of 5; answers: 1 tab, 43 journals; pairs: 2 tabs, 6 journals; table: 2 journals, pages of 2 | scope, lineage, KPIs, answers, order and completeness |
| `RecordRows` | trades of 2 users, and profiles of 2 users overlapping and in turn | do rows keep their user and outcome, has everyone a profile, and do saved profiles last? |
| `TradeResurrected` | as above | expected violation, see section 6 |

Why these bounds. Two overlapping requests are the smallest number with a lost
update, and each property relates one session (or file, nonce, row or profile)
to one or two requests, so a third request adds no kind of step. A journal is
exchanged for another with two accepted files; `odd` has no fingerprint. One
crash meets every state a second one would; two refused writes are what it takes
to lose both saves of a status. In `ApprovalSessions`, the clock runs
long enough for a preview, its expiry and the expiry of the cache entry of a
confirmation posted late in between; nonces, time and restarts bound the
instances one by one. In `ExcursionRuns` the times run over both sides of the
transition, at half minutes, and beyond both ends of the bars, and a window of
five minutes exceeds `MaxWindow`; three bars are enough for an extreme that no
boundary bar shows, and two rows for two equal tickets. `MarketFiles` has files
below, at and above the row limit, with faulty rows first and last.
In `InspectorPages` the journals have two or three trades, `DEFAULT_TOP_K` is 2
and `MAX_TOP_K` 3, so a retrieval may be cut, and two journals differ only in
profit, which the fingerprint does not cover; answers are built from parts that
may each be wrong, among them signed tickets and numbers in times of the packet,
beside them and in other ones. In `ReviewPages` one file has a second date column
in two formats, and filters that remove the row the format was guessed from; a
table of five trades on pages of two has a last page that is not full, its columns
have ties and missing cells, one ticket is no number and two are the same number.
Most runs say `CHECK_DEADLOCK FALSE` because their instances may really stop: all
sessions logged out, all files deleted, the clock at its bound, a file parsed, a
run shown. `InspectorPages` and `ReviewPages` never stop and check deadlock.
Symmetry is used for worker threads, nonces, sessions, users, keys, values and
tabs, which are only compared for equality, and never in the run of a liveness
property.

Fairness. `SettlingSpec` assumes that a worker thread that began a request goes
on with it (`WF_vars(Advance(r))`): the code runs no loop that waits for another
request, and the server schedules its threads. `GroundedGeneration` assumes that
the process goes on and that its client gives up after `TIMEOUT_SECONDS`
(`TimeOut` is part of the fair action); the provider and the network promise
nothing. No fairness is assumed of users, administrators or crashes.

## 4. Properties

Of the review session: `JournalNamesItsFile` (the name shown is that of the file
analysed), `EvidenceIsBound`, `FileListAgrees` (the list of files marks none as an
error whose journal a session shows, as long as the database refuses no write; a
status that could not be saved may mark an accepted file as an error, and then
another request may load it), `PendingHasUploader` and `PendingSettles` (no path of
an upload leaves its row pending, unless the database refused as many writes as the
saves that were left to it: two for an accepted file, one for another),
`DeletedStaysDeleted` (saving with `update_fields` never inserts),
`OnlyIngestionSwitchesJournal`, and `ImplementsReviewSession`. That journals are
the user's own (`JournalIsOwn`) and logouts final (`LogoutIsFinal`) are parts of
the refinement and theorems of their own.

Of the provider approval: `AtMostOncePerProcess`, `SentAsPreviewed`,
`SentInTime`.

Of the excursions: `ComputedIffComputable`, against the set of all instants at
which a clock of the basis shows a time; `RefusalTellsWhy`;
`ExcursionsAreExtremes`; `FlagsAreTrue`, which says what a reader may conclude
from the flags (`UnflaggedExtremesAreInside`, `ExitInsideIsWithinExcursions`);
`OneVerdictPerRow`. Of market data: `AcceptedFileIsItsBars` (the bars are usable,
`AcceptedBarsAreUsable`, and every row is one of them, `EveryRowIsOneBar`) and
`RefusalIsTrue`.

Of the grounding inspector: `RetrievalsBecomePackets` (the two derivations of
limits and limitations agree, so what refuses a retrieval is its question, a
malformed cell or an identifier that names the digest, each with its code),
`OnlyBadTicketsRefuseCorpus`, and of a passed answer `ClaimsRestateJournal`,
`TokensAreBacked` (`NumbersAreClaimed`, `IdentifiersAreOfJournal`) and
`LimitationsAreAdmitted`. `NumbersAreClaimed` says what the masks make of the
promise that every number is claimed: a number outside a time is claimed or written
as an identifier of the journal, and of what is written like a time each number is,
or lies inside a time of the journal. Of a generation:
`SentOnceOnPurpose` (`AtMostOneGeneration`, `SentOnPurpose`), `ShownTextIsJudged`,
`DeniedMeansUnsent`, `FailuresAreTold`, `RunIsShown`.

Of the review pages: `LinksKeepScope`; `RowsAreAsStated` (each date and symbol
filter selects on its own, and the search finds among their rows what it finds in
the whole journal, unless a second date column is read in another format);
`AcceptedHasKpis`, `KpisAreTrue` (`KpisAddUp`, `DrawdownIsLargestFall`); of the queries
`AllRowsOrNone`, `QueriesAgree`, `SameInputSameAnswer`; of the table
`PagesMakeOneTable` (`WalkShowsEveryTradeOnce`, `SortedAsMarked`).

Of the records: `PnlIsOfItsRow`, `WrittenByOwner`; of the profiles:
`ServedUserHasProfile`, `SavedStays`.

Type invariants (`TypeOK`, `ProfilesTypeOK`) are theorems of the modules that have
proofs, where the inductive invariants rest on them.

What does *not* hold, and is no property: with overlapping requests the last
session write wins, so a dashboard that drops stale evidence may revert an
upload that finished meanwhile, and the last save of a profile row wins in the
same way. The repository promises nothing about this;
`OnlyIngestionSwitchesJournal` and `SavedStays` are therefore checked for one
request at a time, while all other properties hold under overlap.
An accepted file may have no KPIs: its profits may all be infinite
(`AcceptedHasKpis` says that this is the only way). The rows a search finds are not
always those it finds alone: with a second date column of mixed formats, a date
filter that removes its first row changes how the rest is read, and TLC reaches
such pages. And not every number of a passed answer is claimed: the masks let
the numbers in a time of the packet through, as
`performance/test_ai_grounding_validation.py:419-423` expects, and a signed ticket.

## 5. Proofs

All theorems hold for arbitrary finite or infinite sets of users, sessions,
requests, files, journals, nonces, keys and forms, and arbitrary bounds.

`JournalSessionProofs` proves `IInv`, an inductive invariant made of: the types
and a fact on each stage (`RequestOK`); an owner is known for exactly the rows
that were ever created (`OwnersKnown`); the journal of every session copy and of
every session is the content of the file it names and belongs to the session's
user (`OwnJournal`, kept together because a copy is written to the session it was
read from); a file marked as an error, and one whose `except` block is about to
mark it, was refused by ingestion or met a refused write (`ErrorsExplained`); and
each request that is between the two saves of an upload is the only one with its
row, which is pending or deleted. `ListAgrees` needs two of them: a session shows
the journal of the file it names, and a file marked as an error has none.
None of the checked invariants is inductive alone: a session's journal is right
because the copy it came from was, and that copy because of the session or file
it was read from. From `IInv` follow the invariants, the two action properties
and the refinement: every step changes the session table in at most one place,
and the new value is one `ReviewSession` may show.

`ProviderApprovalProofs` proves `AtMostOncePerProcess` from an invariant that
follows a nonce through the process: approvals anywhere (session table, copies,
popped) are copies of what was minted; a nonce that was called has a cache entry,
and that entry outlives every approval of the nonce that can still pass the age
check, including one that passed it and was not yet consumed. The last part
needs `StallAssumption`: a thread does not stall between the age check and
`cache.add` for longer than passes between rendering a preview and the first
confirmation of it. The cache entry is written at least `MinThink` after the
preview and lives for the whole lifetime of an approval, so it expires at least
`MinThink` after the approval does; a second thread that passed the age check in
time then still meets it. The code relies on this margin without stating it, and
with `MaxStall > MinThink` TLC finds two calls for one nonce.

`ExcursionProofs` proves an invariant that ties the evidence to the rows: it is
what `compute_trade` makes of the rows before `next`, and rows are computed only
after every ticket was found to be unique; without that, an entry could be
replaced and the invariant would not be inductive. `VerdictPerRow` follows from
it because the tickets are a bijection from rows to entries. `ComputedExactly`
rests on two facts about the code's shortcuts: `FoldsFindInstants`, that the two
folds, converted back and compared, yield all instants that show a wall time, and
`CountTellsCoverage`, that counting the bars of a window tells whether one is
missing. `ExitInsideConsistent`, `ExcursionsExtreme`, `UnflaggedInside` and `FlagsTrue` rest on
`EvidenceIsSound`: the extremes exist, are reached by a bar and enclose all of
them. `RefusalsTellWhy` shows, test by test, that the first reason in the
code's order is true of the row. They hold for every zone with one transition,
every file of bars, and any window limit and tolerance.

`MarketDataProofs` proves that the collected bars are those of the rows before
`next`, sound and pairwise different (`BarsAreRows`). `RowsAreBars` then counts:
the rows are mapped one to one to bars, since minute-aligned times are determined
by their minutes.

`GenerationProofs` proves that nothing is on the network before the one request,
and afterwards only that request or the outcome of it (`Traffic`), and that a
shown report either comes from a run that sent nothing or does not deny the
request (`ReportIsTrue`). This is what makes late answers harmless: whatever the
provider does after the client gave up, `accepted` cannot exceed one and nothing
is read any more.

`RecordsProofs` adds to the checked invariants of trades that a request's copy is
a row of its own user (`CopiesAreOwn`) and that only one user's requests can write
one key (`WritersAgree`): the owner is checked long before the write, so without
the second a resurrected row could change hands. Both rest on keys never being
used again. Of profiles it proves `ServedHaveProfiles`: from the handler's read on,
the user of a request has a profile row (`ReadMeansThere`), and nothing takes it
away.

Two theorems are about requests served in turn. `SavedProfileStays` and
`OnlyIngestionSwitches` hold in the instances of width 1, which bound the *number*
of busy requests; since a step makes at most one more of them busy, that number is
the size of a finite set, and at most one means that no two overlap. Then the copy
a request works on is current: the handler's read is the stored profile
(`ServedInTurn`), and the journal of a copy is that of its session unless the
request ingests a file (`CopiesAreCurrent`). `SwitchedInTurn` states the second
for every run in which no two requests overlap.

`InspectorProofs` follows a retrieval into the packet and the packet into the
verdict. `InspectorInv` says that the session holds a known journal or none and
evidence that was stored, and that the page is what its own retrieval and answer
make of them (`PageIsOfRetrieval`). `RetrievalsAreAccepted` needs that the ranks of
a packet are 1 to n. They come from sorting, and `OrderNumbers` shows how without a
sort: in a strict total order on a finite set, the number of elements before one is
different for every element and runs through 0 to n-1. The documents are ordered by
score and then by id, and `CorpusAssumption` states that no two ids rank alike.
The limits and limitations the code derives once from results and once from items
are shown to be equal for every cut. `ClaimsAreRestated` and `TokensComeFromJournal`
trace a claim of a passed answer back through the cited item and its document to
the row, the KPI or the evidence it restates. For the refusals, `DocumentFits` and
the lemmas below it go through every document and show that its item passes the
shape check unless one of the cells it is made of is malformed, and `NamesAreOfRows`
that only a ticket or a symbol of a row can name the digest.

`ReviewPagesProofs` has four parts, each for any files, rows, filters and orders.
*Scope.* `ReviewInv` says that the page is what it was computed from and the journal
was accepted. `RowsShownAsStated` and `LinksLeadToSameRows` rest on two facts about
the masks: a row survives those of dates and symbol exactly if it survives each
alone, and what the search finds depends on the rows left only through the formats
of later date columns (`EachFilterAlone`, `FoundAlike`); and the normalised filters,
applied again, change nothing. `JournalsHaveKpis` follows a
Profit cell from the file through JSON to the page.
*Sums.* `SumOver` is a fold of the community modules that takes an arbitrary element
at a time. `SumIs` and `SumStep` show that it takes out any element, and from them
that a sum does not depend on the order or the names of its points and splits over
a partition (`SumSplit`, `SumOfGroups`). The induction over finite sets is a
first-order one (`SubsetInduction`, over a *set* of good subsets), because the
library's induction theorems take an operator. `KpisShownAreTrue` then splits the trades into
won, lost and break-even ones, and bounds every fall of the account by the losses
between its two moments.
*Queries.* `QueryInv` says that each answer is `Execute` of the rows its tab states.
`AnswersTakeAllRows` adds up the groups; `AnswersAgree` shows that siblings group by
the same cells and that what one query needs the other one has;
`HashFixesAnswer` turns two equal multisets of rows into a rearrangement of one into
the other (`PartsMatch`), under which verdict, groups, ties and offset are the same.
*Table.* `TableInv` says that what a reader has seen is the beginning of one fixed
sorted list, by `OrderNumbers` again; `PagesAreOneTable` follows.

Assumptions on constants (the `ASSUME`s, each named) state the types of the
parameters, that `NoValue` is no value, and the margin above. Those the pages rest
on say that no column is both text and number (`CellAssumption`), that files and
journals are sequences of rows with the cells parsing leaves in them
(`FilesAssumption`, `QueriesAssumption`), and that document ids and the keys the
table sorts by can be ranked by whole numbers (`CorpusAssumption`,
`TableAssumption`). TLC evaluates each of them in the runs of its component.

Only model-checked: `PendingSettles` and `RunIsShown`, since liveness under fairness
is out of the prover's reach, as is ENABLED. Every other property of a passing run
is stated by a theorem.

## 6. Findings

`JournalFailedUpload`: when the administrator deletes a file's row while the
upload that created it is still cleaning the file, the save of the status raises,
and so does the save in the `except` block, after the journal was popped. The
request ends as a 500, the session is not saved, and the failed upload leaves the
previous journal in place. The test
`performance/tests.py:562 test_failed_upload_clears_previous_cleaned_data` states
that a failed upload leaves no cleaned data in the session.

`ApprovalSingleUse`: the nonce is only remembered by the process that consumed
it, and the session copy another process loaded still holds the approval. Two
confirmations of one preview, answered by two processes, are both sent, while the
page promises a "One-shot confirmation" (`provider_grounding_inspector.html:80`).

`TradeResurrected`: `trade_update` saves the whole row it loaded, so an edit that
overlaps a deletion inserts the trade again, while the confirmation page says
that the deletion is permanent (`trade_confirm_delete.html:15`).

## 7. Not modelled, and why

- Rendering: charts, templates, display texts, PDF and spreadsheet layout. It has
  no state, and no property is about wording.
- The evaluation harnesses: offline programs that run retrieval and validation,
  which are modelled, over fixed cases; nearly all of their lines are cases.
- Settings, routing, styles and the calculator script; what the models take from
  the settings is stated in section 1.
- Parsing of characters: regular expressions, number formats, CSV syntax and the
  canonical form of a ticket are abstracted to their outcomes. So is the
  validation of a declared time basis, a test of its own input.
- The Sharpe ratio, the volatility and rounding: floating-point arithmetic.
- Row edits in the Django admin site, the deletion of accounts, the filters of
  the list of trades and the position-size page.
- Limits of SQLite outside the review session: a write that finds the database
  locked is modelled in `JournalSession`; in the other components it is an exception
  before the write, and ends the request as any other.
- What pandas infers: the format of a column of dates, and what a text means in it,
  are given by the instance (`GuessedFormat`, `DayRead`). `read_json` may already
  have parsed a column it takes for dates, such as one named "Date"; then all its
  rows are read alike, which is the case of one format.
- A provider that keeps the connection busy: the timeout of the client is one of
  silence, and an answer that comes drop by drop can take longer; the model's
  answer comes as a whole or not at all.
- What a restart forgets: `PendingSettles` is about processes that do not crash
  (after a crash a row may stay pending for ever), and `AtMostOncePerProcess` counts
  the calls of a process until it is restarted.
- Overlapping saves of one profile, and overlapping whole-session writes, beyond
  what section 4 says of them.
- The wait for a person between preview and confirmation is `MinThink`; how long
  a thread may really stall is not known to the code (section 5).

## 8. Plan

1. The converse of the fingerprint: which changes of a journal leave evidence
   bound, composed with `Excursion`, so that evidence is that of the rows shown.
2. Between components: that the bars `MarketData` accepts are a market of
   `Excursion` (`IsMarket`), and that what ingestion accepts is a journal of
   `GroundingInspector`, as theorems instead of matching assumptions.
3. Liveness of the approval: a preview that is confirmed in time and meets no
   other tab is answered.
