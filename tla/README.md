# TLA+ models of the pintobeans help desk

The help desk is a Rails API (`help_desk_backend`) and a React single-page
application (`front-end`).  A user opens a conversation, an LLM names the expert
who is to answer it, the two exchange messages, and every browser learns of
changes by polling.  This directory holds TLA+ models of the parts of it whose
correctness depends on the order in which independent things happen, the TLC
configurations that check them, and proofs of what matters most.

    tlc -workers 2 -config assignment_shipped.cfg MCAssignment.tla
    tlapm AssignmentProofs.tla

## 1. The system

### Backend

| Component | State | Operations | What is hard |
|---|---|---|---|
| Conversations (`conversations_controller.rb`, `conversation.rb`) | rows of `conversations`: initiator, assigned expert, status, summary | create, index, show | create runs the assignment job in the request thread; showing a conversation may write its summary |
| Assignment (`auto_assign_expert_job.rb`, `auto_expert_assignment_service.rb`, `expert_assignments_controller.rb`) | `assigned_expert_id`, `status`, rows of `expert_assignments` | perform, assign, auto_assign | read, LLM call of seconds, two writes without a transaction or lock |
| Experts (`experts_controller.rb`, `expert_profile.rb`) | the same rows, `expert_profiles` | queue, claim, unclaim, history, show, update | check-then-write; claim, unclaim, show, update and history are private methods |
| Messages (`messages_controller.rb`, `message.rb`) | rows of `messages`, `last_message_at` | index, create, mark_read | create writes the conversation, the message, an automatic reply and a summary one after the other |
| Automatic replies and summaries (`auto_response_service.rb`, `conversation_summary_service.rb`, `generate_summary_job.rb`) | `messages`, `summary` | generate_response, generate_summary, perform | LLM failure; two threads summarising one conversation |
| Update endpoints (`api/updates_controller.rb`) | none | conversations, messages, expert_queue | the client's cursor against rows that appear later; timestamps cut to seconds; without a cursor only the last hour |
| Authentication (`authentication_controller.rb`, `jwt_service.rb`, `authenticatable.rb`) | `users`; tokens that expire after 15 minutes | register, login, logout, refresh, me | registering writes user and profile separately; logout leaves the token valid |
| LLM client (`bedrock_client.rb`) | none | call | latency, failure, answers that name nobody |

### Front end

| Component | State | Operations | What is hard |
|---|---|---|---|
| Polling service (`ApiPollingUpdateService.ts`, started by `ChatServiceContext.tsx`) | timer, cursors, retry count | start, stop, pollForUpdates, setUserContext | `setInterval` does not wait for the poll before; polls outlive logout; the retry count is shared by overlapping polls |
| Chat state (`ChatContext.tsx`) | conversations, messages by conversation, queue | load, select, send, claim, unclaim, resolve, handle updates | answers of polls, loads and sends arrive in any order and write one list |
| Session (`AuthContext.tsx`, `ApiAuthService.ts`, `TokenManager.ts`) | displayed user, token in memory and in localStorage | login, register, logout, restore | the check at start-up runs while the login form is enabled; tabs share localStorage |
| API client (`ApiChatService.ts`) | none | one request per method | `updateConversation` and `deleteConversation` throw |
| Dummy services (`DummyChatService.ts`, `DummyAuthService.ts`) | everything, in localStorage | the same interface | read and write with a delay between, two tabs on one store |
| Configuration (`ConfigService.ts`, `ServiceContainer.ts`, factories) | configuration, singletons of services | get, update, reset, subscribe | a changed configuration does not reach services that exist |
| SSE, WebSocket and push services | running flag | start, stop | stubs: no connection is ever opened |
| Views (`components/`, `pages/`) | form fields, dialog state | rendering and callbacks | none beyond the contexts they call |

### How they interact

A browser calls the API over HTTP with the token of `TokenManager`.  Puma serves
each request in a thread; the threads share nothing but the database.
`SYNCHRONOUS_MODE` and `perform_now` run the jobs in the thread of the request,
so there are no background workers to model.  The polling service calls back
into `ChatContext`, which also starts loads and sends of its own; JavaScript
runs one callback at a time, so a step of the browser is the code between two
`await`s.

## 2. Modules

| Module | Models | Role |
|---|---|---|
| `ConversationLifecycle` | what users are promised about who holds a conversation | abstract specification |
| `Assignment` | the assignment of experts: both tables, request threads, LLM, claim, unclaim, activation by a message | detailed specification; implements `ConversationLifecycle` |
| `MCAssignment` | the symmetry of `Assignment` for TLC | model checking |
| `AssignmentProofs` | theorems about `Assignment` | proofs |
| `MessageFeed` | how messages of one conversation reach the list a browser shows | specification |
| `PollingService` | life of the polling service over logins, outages and overlapping polls | specification |
| `PollingProofs` | theorems about `PollingService` | proofs |
| `Messaging` | messages, automatic replies and the summary of one conversation | specification |
| `MessagingProofs` | theorems about `Messaging` | proofs |
| `BrowserSession` | who is logged in according to the tabs of one browser | specification |
| `SessionProofs` | theorems about `BrowserSession` | proofs |
| `MessageFeedProofs` | theorems about the cursor and the list of `MessageFeed` | proofs |
| `ClientServices` | configurations and the services made from them, in several tabs | specification |
| `MCClientServices` | an environment and five forms for `ClientServices` | model checking |
| `ClientServicesProofs` | theorems about `ClientServices` | proofs |
| `ExpertDesk` | profile, queue and history of the expert in one tab, and the panel's draft | specification |
| `MCExpertDesk` | the symmetry of `ExpertDesk` | model checking |
| `ExpertDeskProofs` | theorems about `ExpertDesk` | proofs |
| `DummyStore` | the dummy backend in localStorage, called from any tab | specification |
| `MCDummyStore` | the symmetry of `DummyStore` | model checking |
| `DummyStoreProofs` | theorems about `DummyStore` | proofs |

### Assignment

`conversations` is the table of that name restricted to the three columns that
matter here, `assignments` the table `expert_assignments` in the order of
`assigned_at`, and `requests[t]` what Puma thread `t` is doing: its next
statement, the conversation, the copy of the row it loaded, and the expert it
works for.  One action is one SQL statement, or the part of a handler between
two of them, because no controller opens a transaction: `CreateConversation`,
`LoadForJob`, `LlmPicks`/`LlmPicksNobody`/`LlmUnavailable`, `RecordAssignment`,
`AssignConversation` are the job in order.

ActiveRecord writes only attributes that differ from those the object was loaded
with.  `DirtyWrite` is that rule, and it decides what two racing writers leave
behind: a thread that loaded a row with status `"active"` and sets `"active"`
leaves the column alone, whatever it has become meanwhile.

`expert_assignments` gets status `"Active"` from the service and `"active"` from
a claim; both are open (`OpenStatuses`).

`PublicActions` says which methods of `ExpertsController` the router reaches.
As shipped that is `{"queue"}`: `claim` and `unclaim` stand below `private`.
The runs about claims give it all three, because the handlers, their tests and
the front end exist.  `Failures` allows a thread to die between two statements.
Identities of experts are those of their users: every user gets an expert
profile on registration.  Titles, summaries and messages are left out.  Two rows
inserted for one expert in opposite order of their `assigned_at` (microseconds
apart) are not distinguished from rows in order.

### Messaging

One conversation and the threads that write to it.  `requests[t]` is again the
next statement of thread `t` and what it remembers of the conversation it loaded:
its expert, whether its summary was blank, what its job found.  `LoadForMessage`, `SaveMessage`,
`LlmReplies`/`LlmHasNoReply`, `SaveReply` and `CountMessages` are
`MessagesController#create` in order, `StartSummary`, `Summarise` and
`WriteSummary` the job, which `ShowConversation` (index and show) starts too, and
`RescueSummary` its rescue of any error.
A message is its sender, its role and the message it replies to; a summary is
`Null`, 0 if it is empty, or the number of messages it was made from, 1 for the
fallback, which is the first message.  `BedrockClient` answers `""` when the LLM
sends no text, Ruby takes that for true, and an empty summary is written; like
`Null` it does not count as one (`Present`).  `update` leaves the column alone when
the new text is what the job found in it.  `ChangeExpert` is what `Assignment` does to the row, and more: any
change of expert at any time.  `experts` and `spoiled` are history variables: who
has ever been the expert, and whether a thread has died or an attempt to summarise
has failed or come out empty; so is a request's `raced`, whether a summary was
written while it was making its own.  Status and
`last_message_at`, which the same handler writes, are in `Assignment` and
`MessageFeed`; `mark_read`, a single update, is left out.

### MessageFeed

One conversation, one browser.  The server inserts messages (a tick of
`created_at`), commits them later or rolls them back; a poll is sent with the
cursor it finds, is answered from the rows visible then, and is handled or fails
later; a load is answered and handled; an own message is appended when its POST
is answered.  `Second` is `iso8601`, which cuts the fraction.  Inserts are
ordered by `created_at`, but rows become visible in any order: within one
conversation MySQL's row lock, taken by the update of `last_message_at`, leaves
little room for that, but the cursor is shared by all of a user's conversations.
The history variable `overtaken` holds the messages that were committed when a
later one was visible; those the polls may lose, and the properties of the cursor
say that they lose no others.  A poll that has no cursor yet gets the messages of
the last hour (`updates_controller.rb:21`): `Cutoffs` lets the hour end at any tick
that has been, never earlier than for the answer before, and `aged` holds the
messages that such an answer left out.  Those, too, the cursor may pass: a
conversation older than the tab, or a first message after which the polls failed
for an hour.  Both histories forget a message when it is handed over after all.
A message whose transaction is rolled back leaves no row; its name is used again.
Lists are sequences of messages because order and repetition are what the properties
are about.  The two sorts, `ORDER BY` in the answers and the stable
`Array.prototype.sort` in the browser, are `Enumerate`: the element at place k
has k - 1 smaller ones.  (The library's `SortSeq` chooses a permutation through
a recursive function and cannot be reasoned about here.)  `sort` compares
seconds and is stable, so `Chronological` sorts places by second and then by place.

### PollingService

The service as a whole, without payloads: whether somebody is logged in, whether
the timer runs, which fetch each poll in flight awaits, the retry count, and
whether requests can succeed.  `overlap`, a history variable, is the number of
polls in flight when the latest one was fired.  The third fetch, of the expert
queue, does not occur: `ChatServiceContext` sets the role `'user'` and
`fetchExpertQueueUpdates` returns nothing unless it is `'expert'`.

### BrowserSession

The tabs of one browser.  `user[t]` and `loading[t]` are `AuthContext`'s state,
`token[t]` is `TokenManager`'s field, `storage` the key `auth_token` of
localStorage, which the tabs share, `accounts` the table `users`, and
`pending[t]` the requests of a tab that are in flight, each with what it was sent
with.  A token stands for its owner: the client cannot tell an expired token from
a network error, so a check may fail at any time.  An answer is handled in one
step, because `AuthContext` continues after `ApiAuthService` without another
callback in between.  `AuthProvider`'s first effect clears `isLoading` before the
service exists, so the form is enabled while the check is in flight; that is why
`Init` and `Reload` set `loading` to `FALSE` and a check to pending.  `Reload`
drops the tab's requests: a registration that the server makes after it is one
made just before it, since logins may fail at any time.  A tab that is closed is
one that takes no more steps.

Left out: `refreshToken`, which nothing calls; a change of configuration, after
which `AuthServiceContext` makes the auth service anew and the check runs again
(the settings themselves are in `ClientServices`); React's double effects, which
occur only in development.

### ClientServices

`storage` is the key `chat-app-config` of localStorage, `memory[t]` the copy
`ConfigService` keeps in tab `t`, `updates[t]` the update service of the tab's
`ServiceContainer`, `page[t]` whether React shows anything.  `Load` is a page
load: read, merge, store, make the services.  A factory that throws while React
renders leaves the page blank, for there is no error boundary.  `Save`, `Reset`
and `GetAvailableOptions` are what the settings page calls; `UpdateConfig` leaves
`updates` alone because the container is a singleton.  `Validate`,
`ServiceConfig`, `CreatesChatService` and `CreatesUpdateService` are the checks
that stand between a form and a working page.  The rest is the effect of
`ChatServiceProvider`: `Login` and `Logout` run the clean-up of the old effect
and the new effect, whose awaits queue the values they will give
`isServicesReady` (`pending[t]`, oldest first); `SetServicesReady` runs the
oldest, `RegisterHandlers` is `ChatContext`'s effect, `GiveUp` what
`PollingService` describes in detail.  URLs are present or absent; they are not
parsed by the code either.

### ExpertDesk

One tab over several logins.  `profiles` is the table `expert_profiles`, `shown`
is `expertProfile` of `ChatContext` with its owner, `panel` the state of
`ExpertPanel`: mounted, editing, the fields, and, as history, whether they were
filled, all of them, from the user's own profile.  `requests` are GETs and PUTs in flight, each
answered by the server at one moment and delivered at a later one, or lost.
`Logout` unmounts the panel and keeps `shown`, because `ChatContext` is above the
router.  `Reload` drops everything but a PUT on its way (`"lost"`).
`RegisterHalf` is the registration that saves the user and not the profile.
`DeliverSave` keeps what the server answers, in which links may be null;
`Crashed` is the panel rendering that null, and `CancelEdit` joins it: the bio has
been set back by then, the links have not, and editing goes on
(`ExpertPanel.tsx:50-51`).  The three GETs of `loadExpertData`
are one request, since `Promise.all` delivers them together.

`show`, `update` and `history` stand below `private` (`experts_controller.rb:39`),
like `claim` and `unclaim`.  `PublicActions` is as in `Assignment`: as shipped it
is `{"queue"}`, every load of expert data and every save fails, `expertProfile`
stays null, and `ShippedDeskIsIdle` proves that (section 5).  The run gives it all
four methods, because `routes.rb`, the handlers, their tests
(`experts_controller_test.rb:26-33`) and the front end are written for that; what
it shows is what the front end would do once the line is moved.

### DummyStore

`doc` and `auth` are the keys `dummy-chat-data` and `dummy-auth-data`, which all
tabs share; `calls[k]` is one call of `DummyChatService` in some tab: what it
awaits and what it has read.  A method that reads and writes without an await
between is one action; `createConversation` and `claimConversation` are two
(`StartCreate`/`FinishCreate`, `StartClaim`/`FinishClaim`), since they read the
document, await the current user, and write the document back; `sendMessage` is
three, and reads last.  `Tick` is the clock, in units of the shortest delay: a
call resumes only after a tick.  `Date.now()` is the clock's value.  Nothing keeps
two ids made in one millisecond apart.  Of two overlapping creates the later write
replaces the earlier, a lost write like any other; two messages of one sender with
one id are one in the model, which keeps sets of rows.  The queue's
lists hold copies of conversations, as in the code, so that they can disagree
with the rows.  `markMessageAsRead` sets a flag on which nothing depends, and is
left out.

## 3. What the runs check

| Run | Bounds | Shows |
|---|---|---|
| `assignment_shipped` | 2 threads, 2 conversations, 2 users, 4 assignment rows, all LLM outcomes, crashes, symmetry | `StatusMatchesExpert`: waiting exactly when nobody is assigned. `HolderHasOpenAssignment`: whoever holds a conversation has an open history row. `ImplementsLifecycle`: refinement of `ConversationLifecycle` |
| `assignment_claims` | 3 threads, 1 conversation, 2 users, every initial status, claim and unclaim reachable, symmetry | `HolderIsRecordedOrPending`: a holder's row exists or is the next statement of the claimant. `HolderNeverResolved`: no stale write combines an expert with `"resolved"` |
| `assignment_liveness` | 2 threads, 2 conversations, every initial status, an LLM that answers, no crashes | `EveryConversationGetsExpert`, and `HolderMeansActive` whatever status a client asked for |
| `message_feed` | 3 messages (1 own), 2 polls, 1 load, ticks 0 to 2 of half a second (484 thousand states) | `NothingSkipped`: only messages that were overtaken, or older than an hour when a poll without cursor was answered, can fall behind the cursor. `ForeignShownOnce`, `ForeignInOrder`: others' messages once and in order. `CursorNeverMovesBack`. `EveryMessageHandedOver`: polls that overlap and fail still deliver all others |
| `polling` | 3 polls, `maxRetries` 3 | retry arithmetic under overlap, draining after logout, recovery |
| `messaging` | 2 threads, 3 users, 4 messages, any change of expert, failed and empty summaries, crashes (621 thousand states) | `SendersWereParties`: nobody's name comes to stand on a message who never belonged to the conversation. `OnlyRacersOverwrite`: while there is a summary, only threads that were making theirs when it was written can replace it. `RepliesAnswerQuestions`: each automatic reply has a question of its own. `EverySummarised`: three messages lead to a summary, whoever counts last, unless an attempt fails |
| `session` | 2 tabs, 2 users, 2 requests in flight per tab | `TokenWithoutUserIsChecked`: no forgotten token behind a login form. `OnlyStaleChecksDisagree`: only an overtaken check makes the displayed user and the token differ. `StorageIsHeld`: what a reload finds is a session some tab has. `FormComesBack`: the form is not disabled for good |
| `dummy_store` | 2 calls of any kind, 3 initial users and one to register, 10 ticks, symmetry (419 thousand states) | `DocumentsCoherent`: every document, stored or about to be written back, has queues that agree with its conversations. `OnlyStaleWritesLose`: only a deletion, or a create or claim writing back what it read before its await, loses anything |
| `client_services` | 2 tabs, the default environment and 5 forms, 3 continuations | `ConfigurationsServable`: which configurations leave a page blank, and that then no reload helps. `ServicesFollowLogin`: ready exactly when logged in, once the awaits have returned. `HandlersFollowLogin`: the handlers end up as the login does |
| `expert_desk` | 2 users, 2 requests in flight, all methods reachable, symmetry (3.3 million states) | `OthersDataExcused`: when a user may see his predecessor's expert data. `OnlyCarelessSavesOverwrite`: a profile holds what is not its owner's only if he saved fields not all of which were filled from it |

Why the bounds are enough.  A race over a row needs two writers with copies
loaded before either wrote; a third thread adds a reader or an unclaim between
them, which is why the run with unclaim has three.  A second conversation lets
requests be about different rows; conversations do not otherwise affect each
other.  Three ticks of half a second give two messages in one second and a third
in the next, the cases truncation can confuse; two polls are the least that
overlap, and one load is enough to return after the polls that followed it.  All
commit orders of three messages occur, and without the exceptions for `overtaken`
and `aged` ones `NothingSkipped` fails under these bounds.  For the retry count three polls is `maxRetries` itself, and the
theorems cover every number.  Two tabs are the least that share localStorage, two
users the least a login can confuse, and two requests the least one of which
overtakes the other; the theorems about `BrowserSession` cover every number.  In
`DummyStore` a lost write needs one call that holds a document and one that
writes meanwhile; three ticks let two creates follow each other while a third
moment passes.  The five forms are one that works with the API, two that
validation refuses (no URL, an interval below a second), and two that pass it and
cannot be served.  In `ExpertDesk` two users are the least of whom
one follows the other, and two requests the least that can be reordered.  The
theorems about these three modules, too, cover every number.

### Disagreements with what the repository says

Each is a run that must fail.

| Run | What the repository says | What the code does |
|---|---|---|
| `assignment_takeover` | "Skip if already assigned" (`auto_assign_expert_job.rb:22`) | two jobs both pass the check; the second expert replaces the first, whose history row stays open |
| `message_feed_duplicate` | "Check if message already exists (by ID)" (`ChatContext.tsx:459`) | `sendMessage` appends without looking, after a poll may have delivered the message |

Read off the code, without a run: `README.md:103` has a fallback to the least
busy expert where an error from the LLM is logged and the conversation stays
waiting (`ExpertAssignmentService` has no caller); `README.md:502` documents
`POST /expert/conversations/:id/claim`, whose method is private and not an
action; `experts_controller_test.rb:26-33` expects `GET /expert/profile` to
succeed, whose method is private too; a conversation that is listed is summarised after its first message, where
`messages_controller.rb:72` says "after 3+ messages"; an assignment an expert gave back is marked
`"resolved"`, where `types/expert.ts:24` says `'unassigned'`; `create` permits a
client's `status`, where `API_SPECIFICATION.md:553` says it is always
`'waiting'`; `resolveConversation` calls `updateConversation`, which throws;
`ServiceContainer.getInstance` ignores a configuration after the first; the
expert-queue endpoint returns an object where the specification has an array.
So are these, of which passing runs show how far the difference goes:

* "Stop polling after max retries" (`ApiPollingUpdateService.ts:156`): the count
  is reset when a poll starts, so polls that do not overlap never reach it, and
  an outage does not stop them (`GivesUpOnlyWhenOverlapping`).
* "Token invalid or expired, clear it" (`AuthContext.tsx:47`): a failed check
  clears the token there is by then, even one that a login has stored since
  (`OnlyStaleChecksDisagree`).
* "Only generate if there are messages and no summary yet"
  (`generate_summary_job.rb:12`): two threads look before either has written, and
  the second summary replaces the first (`OnlyRacersOverwrite`: no more than
  that).
* `validateConfig` asks of a WebSocket configuration only that it has a URL
  (`ConfigService.ts:185`), but `getServiceConfig` (`:106`) does not pass the URL
  on: saved, it leaves every tab blank at its next load (`ConfigurationsServable`).

And without a property: "Reset configuration to defaults" (`ConfigService.ts:83`)
stores the defaults and drops them, so that the tab goes on with the old ones;
"runtime switching" (`ConfigService.ts:5`) changes the auth service and not the
chat and update services; `types/expert.ts:7` has `knowledgeBaseLinks` an array
where `experts_controller.rb:144` may store null; "Appears in expert queue for
claiming" (`types/conversation.ts:7`) is not true of the dummy service, whose
`createConversation` (`DummyChatService.ts:289`) leaves the queue alone.

`NoTakeover` and `OpenAssignmentIsCurrent` (`types/expert.ts:19-22`) are proved
for one thread (section 5); two threads break both, and a crash between the two
writes of the job breaks the second.

## 4. Fairness

`Assignment`: weak fairness of each thread's statements and of the LLM's answer.
Puma runs its threads preemptively and the AWS client's time-outs end every call,
so a request that has begun ends.  Nothing makes a client send one.

`Messaging`: weak fairness of each thread's statements, as for `Assignment`.
`EverySummarised` excuses behaviours in which a thread died or a summary failed or
came out empty, since the thread that counts three messages may be that one and
nothing tries again.

`MessageFeed`: a timer that keeps firing and a server that answers (weak); of the
answers that come again and again some are delivered (strong), although any one
poll may fail, also for ever.  Commits are not fair: a message may stay invisible, and nothing is claimed
about it.

`PollingService`: the timer fires (weak), every fetch ends one way or the other
(weak), and each of a poll's two fetches, if it can succeed again and again,
does (strong).  Users log in and out, and the network changes, as they like.
`KeepsPolling` is therefore conditional on the network's coming back for good.

`BrowserSession`: every request in flight is over in the end (weak, per request).
Only `FormComesBack` needs it.

`ClientServices`: calls that await resolved promises return, and React runs the
effects of a changed state (weak, per tab).  Neither depends on the network.
Only `HandlersFollowLogin` needs it.  `DummyStore` and `ExpertDesk` state none:
their properties are safety, and calls and answers may stay out.

## 5. What is proved

Every invariant and every action property that a passing run checks is the
subject of a theorem, and so is the refinement of `ConversationLifecycle`.

`AssignmentProofs`, for every number of threads, conversations and users.

* `TypeCorrect`.  `TypeOK` is not inductive: a thread about to insert a row must
  have an expert (`ExpertChosen`), or the row would have none.
* `StatusMatchesExpertAlways`, assuming only that clients leave the initial
  status to the server (`InitialStatuses = {"waiting"}`, which is what the front
  end does), whichever of claim and unclaim the router reaches.
  The strengthening says what a thread may rely on about a copy it loaded before
  others wrote the row (`LoadedInv`) and that each copy was itself coherent
  (`CoherentInv`); a write then sets both columns or neither, because it crosses
  from "no expert" to "an expert" relative to its copy (`CoherentWrite`).
* `HolderHasOpenAssignmentAlways` and `ImplementsLifecycleAlways`, assuming the
  deployed router (`Shipped`: neither claim nor unclaim is reachable).  The
  strengthening `RecordedInv` says that a thread about to write a conversation
  has inserted its history row.  The refinement maps the first statement of a
  creation to `Open`, an insert to `Record` and the job's update to `Assign`;
  every other step stutters.
* `HolderMeansActiveAlways`, under `Shipped` and for every initial status.  Two
  jobs may both hold a copy that was already `"active"` and leave the column out
  of their UPDATE.  `ActiveInv` says why that is harmless: while somebody holds
  such a copy the row itself is `"active"`.
* `HolderNeverResolvedAlways`, for every routing and with crashes.  A copy with
  an expert is never `"resolved"`, and the row is `"resolved"` only while every
  copy of it is (`ResolvedInv`); an update! then either writes the status or finds
  a row that is not resolved (`WriteUnresolves`).
* `HolderIsRecordedOrPendingAlways`, for every routing, if no thread dies
  half-way (`~Failures`; a claimant killed between its two writes is the one way
  to hold a conversation without a row).  `PendingInv` adds that a job about to
  write the conversation has its row; a claim stays pending until the claimant
  itself inserts (`ClaimPending`), and resolving a row removes none.
* `NoTakeoverByOneThread` and `OpenAssignmentIsCurrentByOneThread`, for a single
  thread (`OneThread`), any routing, and for the second no crash.  What the thread
  read of its conversation's expert is still so when it writes (`CurrentInv`); an
  open row is its holder's or about to be, and is the latest of its conversation
  and expert (`OpenInv`), which is why unclaim, taking the latest, finds it.

`PollingProofs`, for every number of polls and of retries:
`FailuresBoundedAlways`, `PollingTypeCorrect`, `GivesUpCorrect`.
`FailuresBounded` (failures counted, plus polls that may still fail, are at most
the overlap at the latest poll) is the invariant; `Fire` makes both sides equal,
and a poll that ends moves from one summand to the other or disappears.

`MessagingProofs`, for every number of threads, users and messages:
`MessagingTypeCorrect`, `SendersWerePartiesAlways`, `RepliesAnswerQuestionsAlways`
and `OnlyRacersOverwriteAlways`, which is inductive with the types.  Two strengthenings carry the others.
`ThreadsKnowParties`: what a thread remembers of the conversation is a party of
then, and a thread that is to reply knows an expert.  `QuestionsAreOpen`: a thread
that is to reply has a question that is the initiator's, unanswered, and no other
thread's.  An insert gives the new row's index to one thread at most, and a reply
closes the question of its own thread only.

`SessionProofs`, for every number of tabs, users and requests in flight:
`SessionTypeCorrect`, `TokenIsChecked`, `StorageIsHeldAlways` and
`OnlyStaleChecks`.  With the types the three properties are inductive as they
stand: `TokenWithoutUserIsChecked` names the check that justifies the exception,
and every other answer puts a user on the tab or takes its token away.

`MessageFeedProofs`, for every number of messages, polls and loads, every
resolution of `created_at` and every length of time.  `CursorNeverMovesBackAlways`
needs no more than the types and that answers hold visible rows; that the latest
timestamp of an answer exists, for sets of any size, is from the well-foundedness
of the natural numbers (`HasLeast`, `MaxFound`).  `NothingSkippedAlways`
assumes nothing either, not even an order of commits.  Its strengthening: the
cursor is the second of a visible row (`CursorReached`), no poll was sent with
more than the cursor (`SinceBehind`), and a message still outstanding that an
answer lacks is later than all the answer has (`AnswersComplete`).  The last
conjunct is what survives when answers are handled in another order than they
were made.  A row in
`aged` stays there until it is handed over (`AgedStays`), so an answer without a
cursor has every row that is still outstanding after it.  A row that is not overtaken at its commit is later than every visible
row, hence later than the cursor and than every answer in flight (`CommitLater`).

About the list, `FeedTypeCorrect`, `ForeignShownOnceAlways` and
`ForeignInOrderAlways` assume nothing.  The strengthening `ShownInv`: the list,
and every list a load will replace it by, shows visible rows, each foreign one
once, in the order of their seconds (`WellShown`).  A load's answer is well shown
because rows have different times (`AnswerWellShown`), merging a poll's answer
keeps the list so (`MergeWellShown`), and an own message appended at the end
moves no other.  Underneath are lemmas about sorting any finite set by any key
without ties: ranks follow keys, every place is taken, hence `Enumerate` lists
each element once and in order (`RankOrdersByKey`, `PlacesTaken`,
`EnumerateSorts`), and a sort by second and place is a stable permutation
(`KeyOrder`, `ChronologicalSorts`).

`DummyStoreProofs`, for every number of calls, users and ticks:
`StoreTypeCorrect`, `DocumentsCoherentAlways` and `OnlyStaleWritesLoseAlways`.  A lemma for each method says what it makes of any
document, and another that it leaves a `Good` one good: no two conversations in it
with one id, none later
than the time of reading or writing, rows in agreement with the lists.
`StoreInv` says this of what is stored, now, and of what each call holds, when it
read it; the id of a new conversation is later than all of them because a create
resumes at least a tick after it has read.

`ClientServicesProofs`, for every number of tabs and all forms:
`ClientTypeCorrect`, `ServicesFollowLoginAlways` (strengthened by
`LastFollowsLogin`: the last value queued is what the login asks for) and
`ConfigurationsServableAlways` (strengthened by `ConfigurationsInv`: everything
stored or loaded is the environment's or a form that validation accepted).

`ExpertDeskProofs`, for every number of users and requests: `DeskTypeCorrect`,
`OthersDataExcusedAlways`, which is inductive with the types, and
`OnlyCarelessSaves`.  The strengthening `TextsFine` says the same of every place a
text can come from: the profile shown, a request in flight, and a draft taken
from the user's own profile.  The bio that a cancellation half-way puts into the
draft is covered by `HalfCancelled`.  All of this holds for every `PublicActions`;
`ShippedDeskIsIdle`, assuming `PublicActions = {"queue"}`, says that with the
shipped controller no profile is ever shown and no row ever changes.

The constants' assumptions (`NobodyAssumption`, `NoDocumentAssumption` and so on)
are stated in the modules and evaluated by TLC in every run.

Only model-checked: the temporal properties `EveryConversationGetsExpert`,
`EveryMessageHandedOver`, `LogoutDrains`, `KeepsPolling`, `EverySummarised`,
`FormComesBack` and `HandlersFollowLogin`.  Liveness under fairness, ENABLED, and
results that need induction over data are outside what the prover handles.  That
`MergeUpdates` sorts once where the code sorts after each message of an answer is
such a result: it is argued at its definition, and not proved.

## 6. Not modelled

* The conversation list of the front end and its polling, and the expert queue as
  `ChatContext` shows it; the server's cache of the waiting list.
* The FAQ editor of the expert panel, the buttons of the queue and the message
  list, which render what the contexts hold.
* The network side of the SSE, WebSocket and push services: they are stubs that
  open no connection.  That they can be chosen is in `ClientServices`.
* `mark_read` and `markMessageAsRead`: a flag on which no other step depends.
* `ExpertAssignmentService` and `UsersController`, which have no caller or route.
* Prompts and the wording of LLM answers, health check, load test, deployment.

## 7. Plan

1. `ConversationFeed`: the conversation half of polling, where rows change, so
   an old answer handled late may overwrite a newer one.  Property: the list is
   current again after the rows stop changing.
2. `ExpertQueue`: claim from two browsers against `ChatContext`'s local update
   and `loadExpertData`, with the server's cache; composed with `Assignment`.
3. Proofs: an abstract specification of the list a browser shows, with
   `MessageFeed` as its refinement, and the theorems of the two modules above.
