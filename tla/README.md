# A TLA+ verification of regex_entity_scanner

The program is a stateless HTTP service that finds entities (dates, amounts, account numbers,
addresses) in a fragment of text. A linear-time regex prefilter proposes candidates, one validator
per rule judges them, a rejected candidate is searched again on a budget, overlapping results are
resolved, and the offsets are moved into the caller's document. This directory holds TLA+ models of
that machinery and of the validators, the TLC configurations that check them on small instances, and
TLAPS proofs of the results that hold for every instance. Line numbers below are of the files under
`src/src/`.

## 1. Inventory

| Part | State it keeps | Operations | Hard behaviour |
|---|---|---|---|
| Prefilter (`scan/prefilter.rs`) | compiled patterns, immutable | `compile`, `candidates`, `find_in`, `find_from` | a pattern must mean the same in a fragment and in a slice of it |
| Scan loop (`scan/mod.rs`) | work list, visited set, two budgets, accepted entities | pop, validate, resume, shrink | LIFO order, several lineages to one span, budgets, slices of UTF-8 |
| Resolution (`scan/resolve.rs`) | list being sorted, kept entities | sort, greedy keep, sort | suppression is not transitive; ties; half-open spans |
| Model (`model.rs`) | none | `precedence` | the ladder settles overlaps |
| Rules (`rules/mod.rs` and one file per family) | none | `validate` of 41 rules | neighbours re-imposed by hand against the loop's retries, check digits, calendars |
| Check digits (`rules/checksum.rs`) | none | six algorithms | direction, weights and the tenth value of each scheme |
| Context (`rules/context.rs`) | none | `has_cue` | a window in bytes over words, lines and characters |
| Vendored data (`data.rs`) | six tables, immutable once loaded | `load`, `incomplete_tables`, lookups | truncated files switch rules off silently |
| Service (`service.rs`) | scanner and limit, shared by all requests | `/health`, `/rules`, `/rules/{id}`, `/scan`, `/explain` | two size limits, concurrency on few workers, panics, hang-ups |
| Process (`main.rs`) | stage of its life | start, serve, drain | refuse to start, signals, in-flight requests |
| Explainer (`explain/`) | none | `explain`, catalogue lookup | none: static text |
| The windowing caller (`docs/Entity_Contract.md`) | what it sent and collected | split, scan, deduplicate | verdicts that depend on context beyond the window |

**Interaction.** `main` loads the tables, compiles the rules into a `Scanner` and shares it between
all requests. A `/scan` handler calls `Scanner::scan`, which runs synchronously on its worker: the
prefilter's candidates seed the work list, validators read the whole fragment and the tables, and
what they accept goes through `resolve`. Nothing is written after the start, so requests interact
only through the workers they occupy and the process they would take down. The rules interact with
the loop: a guard that refuses one candidate is asked again about every shorter and later reading
the loop makes of it, so whether a guard holds can only be said of both together.

**What makes each part correct.** Prefilter and loop: every match is examined or overlapped by one
that was, once, within the budgets, and the loop ends. Resolution: the kept entities are disjoint and
nothing is dropped except for something kept that is at least as strong. Rules: what stands alone is
read, whole; nothing is cut out of a longer token; a misread number is refused; an ambiguous reading
says so. Context: a cue stands near, in the same field, as a word. Service and process: it serves
only on complete tables and the configured limit, its size errors are precise, a request fails only
for its own reasons, and a signal drains. Windowing: what the windows report together is what the
document contains.

## 2. Modules

The machinery:

| Module | Models | State and actions, and where they come from |
|---|---|---|
| `Prefilter` | `scan/prefilter.rs` over an abstract regex | no state. A fragment is its byte offsets and character boundaries; a pattern is, for each start, the ends of its matches in the order the leftmost-first engine prefers them. A pattern without lookaround is exactly such a table |
| `Verdicts` | what the loop knows of a rule (`rules/mod.rs`) | candidates, and the spans a verdict may carry: trimmed, or with the start moved |
| `ScanPromise` | abstract specification of a scan | examine a match at most once, report only what was accepted, finish only when no match was passed over; no order, no budgets |
| `ScanLoop` | `Scanner::scan`, lines 82-160 | `Compile`, `CollectMatch`/`CollectNextRule` (the prefilter's iterator), `Skip` (97-99), `Accept` (110-122), `Reject` with `Resume` (129-136) and `Shrink` (138-144), `InteriorMatch`/`InteriorDone` (149-158), `Drain`. `queued` and `shrunk` are history variables; nothing reads them but properties |
| `Resolve` | `resolve.rs` and the offsets of lines 161-165 | `Arbitrate` is one turn of the greedy pass over the stably sorted list, `Emit` one turn of the last loop, in arithmetic modulo 2^w |
| `Scanner` | one whole call of `scan` | `ScanLoop`, then an instance of `Resolve` over what it accepted, ranked by each rule's precedence |
| `Startup` | `main.rs` 14-43, `data.rs` 84-191 | one action per step of `main`; each either goes on or refuses |
| `Service` | `service.rs`, and the serving part of `main.rs` | extends `Startup`; per request `Open`, `Receive`, one action per handler, `ScanDone`, `ScanPanics`, `HangUp`; `Signal` and `Exit` for the drain |
| `Windowing` | the caller of `docs/Entity_Contract.md`, with `vessel.mmsi` as its rule | `Send` a window, `Collect` an answer, in any order |

The validators, where the text is real:

| Module | Models | How |
|---|---|---|
| `Context`, `Headers`, `Cues` | `rules/context.rs`, `message.rfc5322` of `extras.rs` | over bytes, in the code's own slices: `has_cue`, and the walk from a token left to the header that labels it. `Cues` asks either question of one candidate; a slice inside a character is an outcome |
| `Texts` | `Candidate` (`rules/mod.rs`), regular expressions | a fragment is the sequence of its characters; a pattern is a set of alternatives, an alternative a sequence of character classes with repetitions |
| `CheckDigits` | `checksum.rs` | the six algorithms as folds over base-36 values, and the calendar |
| `CompanyNumbers`, `PersonalNumbers`, `IssuedNumbers` | `company.rs`, `national_id.rs`, and the numbers of `bank.rs`, `security.rs`, `maritime.rs`, `device.rs`, `extras.rs` | one operator per scheme, named as in the code |
| `Schemes`, `Misreadings` | the dispatch tables of `company.rs`, and a reader | `Misread` one character of a right number, or `Swap` two neighbours |
| `Recognisers` | the identifier rules themselves | for each its pattern, the neighbours it refuses, its label, what it drops or trims, and its index key |
| `DateMachine` | `date_machine.rs` | RFC 2822, web server logs and ISO weeks, their calendars and zones; a name of a day or a month is one character |
| `Money` | `money.rs` | both patterns and validators, `continues_left`, `continues_right`, `code_beside_sign`, `to_minor_units` |
| `Phone` | `phone.rs` | the pattern, the guards, `brackets_balance`, `looks_like_page_range`, `looks_like_timestamp`; numbering plans are lengths per country |
| `Addresses` | `network.rs`, `email.rs`, `coordinates.rs` | patterns and guards; what `std::net` parses; degrees in exact integers |
| `Readings` | all of the above under the loop | one number in one text; `Propose`, `Skip`, `Accept`, `Reject`, with the retries and resumes of `scan/mod.rs` and the constants of the code |
| `DateIso` | `rules/date_iso.rs` with the loop's retries | a timestamp as fields and surroundings, with the bytes its slices cut; `Accept`, `Reject` (which shortens the reading), `Panic` |

The `MC*` modules hold the finite sets the configurations give to the constants. The `*_proofs`
modules hold the theorems of section 5: `Scanner_proofs` those of the loop and of the call around it,
`Resolve_proofs`, `Service_proofs` and `DateIso_proofs` those of the modules they are named after,
`Context_proofs` those of `Cues` and of `Windowing`, which share the lemmas about slices and cues,
`Misreadings_proofs` one lemma per scheme and error, resting on what `CheckDigits_proofs` says of the
algorithms of `checksum.rs`, and `Readings_proofs` those about amounts of money.

The loop appears twice on purpose. In `ScanLoop` a validator is external: it is asked at most once
about a span, so letting it answer either way covers every deterministic validator, and what is shown
holds for all rules. In `Readings` the validators are the code's and the question is what they, with
the loop, make of a text. The definitions named `X_...` before a definition `X` are its mutations,
used to confirm that each property can fail; nothing else uses them.

## 3. Runs

| Run | Shows | Bounds |
|---|---|---|
| `scan_loop` | only matches are validated; slices fall on characters; nothing the prefilter or a searched interior matches is passed over; the only reason not to search a rejection is its own lineage | a rule with every greedy and lazy pattern over five bytes with a two-byte character, those the startup refuses included, behind a rule that resumes; budgets 2, 5 and 2: all run out |
| `scanner` | the loop implements `ScanPromise` and always returns; later rules are judged first; the reading to the right of a rejection is tried; an interior several lineages reach is paid for once; every match is accounted for in the answer; the answer is exact | two rules, equally strong or not, one resuming, three bytes, up to two matches each, a chain or a nest of three, verdicts that move an edge |
| `resolve` | disjoint, justified, and the only result its rule allows | every list of up to three entities, two strengths, four bytes, three base offsets of which one overflows |
| `service` | it serves on complete tables only, its size errors are precise, requests are isolated; every request ends and a signal ends the process | two requests of every kind for one worker, every single fault of the environment |
| `cues` | slices, fields, words; a label is a header's own, with nothing in between but separators, groups and what a stray `>` overruns (section 4) | every text of up to four characters before and two after a two-digit number, window of three bytes; every text of up to five characters with colons and brackets before a token |
| `windowing` | answers are exact away from the edges; enough overlap loses nothing | every document of seven bytes with one number, every legal splitting |
| `date_iso` | a reported date is whole, but for two known cuts; the salvage works | every timestamp with up to three fraction digits and one wide digit, four retries, so that the budget both suffices and does not |
| `misreadings` | a misread character or a swap is refused, but for the exceptions named in the property; no ten digits are a company's and a person's; the two Spanish readers agree | the documented example of each of 55 schemes and the right numbers two edits away from it, every position, every other character of its kind |
| `readings` | what stands alone is read whole and normalised; nothing is cut out of a longer token; an ambiguous amount says so; no digit, minus or separator with a digit behind it touches an amount | some 145 numbers of every rule, right and refused, in 44 surroundings; the code's own budgets 8, 256 and 32 |
| `date_panics`, `label_panics`, `money_cut` | violations, findings 1 to 3 | as `date_iso`, `cues` and `readings` |

**Why the bounds are enough.** A lineage needs two nested spans to exhaust a small per-candidate
budget and a sibling to exhaust the fragment's; five bytes give both, and a character of two bytes
inside them makes every boundary computation matter. Two lineages of a rule reach the same span only
with a resume, since the matches of one search are disjoint and a shrink stays inside its own; the
nested patterns of `scan_loop` and `scanner` are the least with which they do. Two rules are enough
for order between rules, since they interact only pairwise. Three entities are the least for which an
entity dropped for a dropped one can be told from one dropped for a kept one. Two requests for one
worker make waiting behind a scan real. The windows of two and three bytes are longer than the cue, so
cues fit, are cut and are missed; an overlap of five is the number and such a window on both sides,
and seven bytes leave room for up to three windows with it. A guard looks at most three characters
beyond a span, and the surroundings put a letter, a digit, a blank, each separator and each separator
with a digit behind it there, on each side, next to nothing and next to a separate number.

**Deadlock** is not checked: every modelled computation is meant to stop (the list is drained, the
answer is out, the process has ended). Where not stopping too early matters it is a liveness property.

**Fairness.** The scan is straight-line code of one thread, so `WF(ScannerNext)` only says that it
runs on; `EveryCallReturns` needs no more. In `Service` the runtime polls each ready task, a scan
always ends (`EveryCallReturns`) and main goes on when it can: weak fairness of each handler, of
`Boot` and of `Exit`. The requests of a run are finitely many, so a worker is free for good in the end
and weak fairness is enough. The one assumption about the outside is that a client that stays sends
the body it announced (`Receive`); signals, arrivals and hang-ups are never assumed to happen.

## 4. Where the code and what is said of it differ

1. `date_panics`: a character of several bytes after a date, or in it, panics the validator.
2. `label_panics`: a header's name is compared by slicing as many bytes off the label (`extras.rs:252`),
   which panics where that lies inside a character.
3. `money_cut`: behind a minus nothing is to be reported, since that "would report the wrong money
   rather than none" (`money.rs:313`). In `-5 000 EUR` the amount is refused for its minus, the loop resumes behind its
   first digit (`scan/mod.rs:129`), and `000 EUR` is accepted, since the guard takes a digit beyond a
   blank for another number (of `-12 345 678 EUR` the loop reports 345 678 EUR). The same holds without
   a minus, whatever the reason the whole amount is refused for.

What else was seen while modelling follows from the definitions named, without a run of its own.

In the loop and its callers:

- A resumed span inherits the retry count of the span it was resumed from (`scan/mod.rs:133`), is popped
  first, and the visited set then drops the fresh copy: a span that was never shrunk is denied its
  interior although the budgets are not spent (`docs/Rules_And_Patterns.md:54` promises it). Hence
  `ShallowRejectionsSearched` speaks of rules that do not resume.
- `RETRY_PER_CANDIDATE` bounds the depth of a lineage (`InteriorLimit`), not the number of shrinks of
  one candidate, as the comment at `scan/mod.rs:23` puts it.
- An overlap of the longest entity, which `docs/Entity_Contract.md:25` asks of a caller, does not keep
  entities that need a cue; `WideOverlapLosesNothing` says what does.
- A word that runs through the far edge of the cue window is cut there, so its tail can be taken for a
  cue (`OnlyTheWindowCutsWords`, `context.rs:96`).

In the rules:

- A timestamp refused with its `Z` is reported without it (`CutsAreKnown`, `date_iso.rs:135`).
- A refused telephone number is read again up to a blank: `+49 2012-01-02 08:15` as `+49 2012-01-02`
  (`MayBeCut`, `phone.rs:252`). A refused mail address is read again up to a dot: `b@host.com.local` as
  `b@host.com`, which the guard of `email.rs:43` means to exclude.
- More than eight capitals or digits behind an IBAN hide it from the retries (`Hidden`); a card number
  or an IMEI behind digits and a blank is not found, since only money resumes (`RunInto`).
- The walk from a message id to its header takes a `>` for the end of a group that begins at the nearest
  `<` on its left (`extras.rs:237` to 242). If that `>` closes no group, the walk skips whatever prose
  stands in between: a token in a quoted line (`> <x@y>`) below `References: <a@b> see also` is
  labelled, although only "complete angle-bracketed groups" should be crossed (`extras.rs:227`). In
  `cues` the least such text is `c:<>>9`; `Overrun` is the exception it takes.
- A no-break space does not separate in `continues_right` of `money.rs` as a space does, and the `#` of
  `EXTENSION_MARKERS` is never looked for, since nothing refuses it (`extension_follows`).

In the service:

- Without `Receive` in the fairness, a client that stops in the middle of its body keeps the graceful
  drain waiting for ever: nothing at `main.rs:44` bounds it.
- `BodyLimit` adds in `usize` (`service.rs:92`) and wraps in a release build for a configured limit
  within the allowance of the largest `usize`; `SizeErrorsArePrecise` claims nothing there.
- A `RES_MAX_BODY_BYTES` that is set but is not Unicode takes the `Err(_)` arm of one that is not set
  (`ReadLimit`, `main.rs:58`).

## 5. Proofs

The `*_proofs` modules are checked by TLAPS. They use only the assumptions the modules state, which TLC
evaluates in every run:

- `FragmentAssumption`, `RulesAssumption`, `LoopAssumption`, `ScannerAssumption`, `ResolveAssumption`:
  constants have their types, the ends of a fragment are character boundaries, and patterns match whole,
  non-empty stretches of characters. A pattern that depends on where its haystack ends contains one of
  the three marks `compile` looks for, as every anchor but `\A`, `\z` and `\B` does, which no pattern of
  the rules has. Fragment, patterns, rules, budgets and precedences are arbitrary.
- `ServiceAssumption`: numbers are naturals below 2^w, a table has no more empty rows than rows, and a
  fragment is no longer than the body it came in. Nothing is assumed of the number of requests.
- `ContextAssumption`, `CuesAssumption`, `WindowingAssumption`: fragments and documents are whole
  characters, as a `str` is (`IsText`), and a cue begins and ends with a letter, as every cue the rules
  pass to `has_cue` does. The cue, the window's width and the texts are arbitrary.
- `DateAssumption`: the bounds are naturals.
- `SamplesAssumption`: the numbers are sequences of base-36 values, and only an Irish one may contain the
  two other characters the code looks for. Which numbers, how many and of which schemes is arbitrary.
- `ReadingsAssumption`: texts are sequences of characters, which are numbers, and a currency has a whole
  number of decimals. Texts, surroundings, currencies, signs and budgets are arbitrary.

*The loop.* Type correctness is inductive together with what the cursor may hold. `LoopInv` adds the
facts a step needs: queued items and visited candidates are matches of their rule; an item not yet
validated is in the queue (so `ProposedIsValidated` when the queue is empty); the number of retries
is the cardinality of `shrunk`; for each searched interior the part the iterator has passed is
swept, and for the rejected candidates of a resuming rule the next reading was queued. None of the
properties is inductive alone: at the end of the run they follow from what was still queued before
it. `LoopKeepsPromise` maps `Accept` and `Reject` to the abstract `Examine`, `Drain` to `Finish` and
all else to a stutter, with `visited` as what was examined. `AcceptedOnce` and `ProposedIsValidated`
follow from the promise and are stated as theorems only.

*Lineages.* `ShallowRejectionsSearched` needs that a rule without resumes never reaches one span twice
with different retry counts. `LineageInv` says why: the matches of one search are disjoint and what a
rejection pushes lies inside the rejected span, so of such a rule the spans that wait are disjoint, and a
validated one is disjoint from each of them or encloses it (`NestInv`); a span that was ever queued has
one lineage (`OneLineage`). For a resuming rule this is false, which section 4 describes.

*Termination.* The height of a state is four naturals in lexicographic order: the stage; what the
prefilter has left of the rules or, later, how many candidates were not validated; the bytes the
iterator has left; the length of the queue. `EveryStepDescends` proves that each step makes it smaller,
and `DescentsEnd` that the order is well-founded. A rejection may push a span as long as itself, or one
that was queued before; it pays for either with the candidate it adds to `visited`. `EveryCallDescends`
adds what the greedy pass has left and what is left to return. So no call has an endless behaviour,
whatever the budgets; that a step can always be taken (`EveryCallReturns`) is TLC's.

*The call.* `CallImplementsLoop` carries the loop's theorems over. `CallInv` adds that what is pending
in resolution is never stronger than what was kept, so that a decision to drop is final, and that each
entity goes out once and as itself. With `NoMatchUnexamined` it gives `EveryMatchAnswered`.

*Resolution.* `ResolveInvariant` says that what was decided is an initial part of the order
`Stronger`, and that an entity was dropped exactly if a stronger kept one overlaps it. Since the
order is strict and total, a well-founded argument over it gives `GreedyIsTheKernel`: no other subset
satisfies the rule the greedy pass computes. That ties go to the first accepted and that the output
is in document order are theorems only, too.

*The service.* `ServiceInv` relates each request's phase to what was received and answered, and the
stage of the process to the tables: past the check no table is incomplete, and the counts never change
again. The size properties follow where `limit + Allowance` fits usize, which the property says itself.

*Cues and labels.* `AnswersAreTheirHandlers` reduces each property to one about the operators. The
ends of both slices are a least and a greatest boundary, which exist since the candidate's own ends are
among them. The walk to the header is a recursive function; that its result is a header is proved by a least
counterexample, since every step of the walk moves left. What it crossed is told from the brackets: a
`>` either closes a group, or closes none, and then everything back to the next `<` is overrun
(`BracketsAreCrossed`); `LabelIsItsHeader` names that exception and no other.

*Windowing.* A window's text is a shifted slice of the document. The lemmas move a cue from one to the
other; a line break at the very end of a window may look like the end of a field there, which is
harmless because a cue ends with a letter. The invariant says that every number whose context was
reached is inside some window that was sent, with its context (`Covered`).

*Dates.* `DateInv` counts: the retries used are the fields given up so far. `PanicsAreWide` (a theorem
only) bounds the panic of section 4: it takes a wide character after the timestamp or a wide digit in it.

*Check digits.* `MisreadInv` says that the number read is the one written, or differs from it at one
place by a character of the same kind, or has two neighbours exchanged; the rest is arithmetic, for
every number and not for samples. A validator folds its digits with the folds of the community modules
or with a recursive function. `CheckDigits_proofs` shows each of them once to be a walk, a sequence of
values each of which is one step from the one before it. Two walks over numbers that differ in one place
part there and, where a step is one-to-one in the value it starts from (Luhn's and Damm's tables, modulo
11-10, modulo 11-2, modulo 97), never meet again; a weighted sum grows by the weight times the
difference, which the modulus divides or not. Inductions are least counterexamples (`LeastNumber`). Each scheme then
has a lemma for either error, which finds its weights, its modulus and where its remainders fold, and
`MisreadingsAreCaught` and `SwapsAreCaught` put them together: the exceptions the two properties
name are exceptions of the arithmetic, and there are no others. `NumbersAreNotBoth` needs the third digit
only. `ReadersAgree` needs that a fold over digits is not changed by a leading zero, since
one reader writes X, Y and Z as a digit in front and the other puts it into the number.

*Money.* `MoneyInv` says that the table holds what the pattern matches in this text, that every queued
span is one of those matches, and that everything found is a verdict on one. What that is takes two
parts. The pattern is a fold over its items: lemmas about the walk of each fold (`AmountEndsAre`,
`IsoCodeShapes`, `SymbolShapes`) give its matches a shape, an amount with nothing but a code or a sign
and blanks beside it; the validators, with their slices, trims and splits, find that same amount
(`IsoCodeReads`, `SymbolReads`), and asked the neighbours of the span or, where they narrowed it, of the
capitals it stands behind. `DigitsAreNotCutOff` follows from those neighbours, and says no more than
they do: a group set off by a blank is no neighbour (section 4, finding 3). For
`AmountsAreCertainOrFlagged` the code's rule (the last separator, three digits behind it, the separator before) is
compared with every convention a reader may assume: each group every fourth place before the decimal mark,
one mark at most. What the code settles on is a convention of the amount (`SettledIsAConvention`), and
without the flag every convention puts its mark at the same place (`NoOtherConvention`).

Only model-checked, and why:

- liveness (`EveryCallReturns`, `EveryRequestEnds`, `ShutdownEnds`), which rests on `ENABLED` and is out
  of the prover's reach;
- `StandingAloneIsRead` and `NothingIsCutOut`: they compare what 41 patterns and their validators make of
  a whole text with the number a document meant, which `Written` states; they hold for the numbers listed there and
  not for every value of that constant;
- what the three runs of section 4 refute.

## 6. Not modelled

The regex engine, jiff, phonenumber, `std::net`, axum and tokio are external; what the code relies on
of them is modelled at their interface. Confidences, JSON shapes, logging and explainer text are data
no property here is about, and of the flags only the one that an inferred separator sets is.

- `crypto.rs`: its validators compare Keccak and SHA-256 digests over decoded strings. With the digest
  abstracted away what is left of each is one comparison, and no property tells two of them apart.
- `explain/`: cards and catalogue are static text and formatting. Whether a rule id is known is a flag of
  a request in `Service`.
- In `readings` every text stands behind a label and away from a release number: what cues do is shown
  in `cues`. Currency codes, countries, numbering plans and top-level domains are a few of each table.
- A wide digit that `\d` also matches is modelled where a slice depends on it (`DateIso`). Most other
  validators parse or compare what they matched and so refuse it; the sequence of a CVE id, the
  registrant of a DOI, an MMSI behind its first three digits and the serial of a PAN are passed on
  unread, wide digits included.

## 7. Plan

Done: the loop, resolution, `Scanner`; `Startup` and `Service`; `Context`, `Headers`, `Cues`;
`Windowing`; `DateIso`; the check digits and all identifier schemes; `Money`, `Phone`, `DateMachine`,
`Addresses` and `Readings`. Proofs of every safety property of the machinery, of the context questions,
of windowing, of the ISO dates, of the check digits and of the amounts of money.

Next: what `Readings_proofs` does for the two money rules, for the others, beginning with the guards of
`phone.rs` and the shapes of the identifier patterns in `Recognisers`; and lemmas about the calendar.
