# A TLA+ verification of gpib-utils

gpib-utils is a set of command line programs that control measuring
instruments over GPIB, VXI-11 (ONC RPC over TCP) and serial lines.  This
directory holds TLA+ modules of its core, configurations that check them with
TLC, and proofs checked by TLAPS.  `PROJECT.json` lists the runs, the source
lines every definition stands for, the hazards and the findings.

    tlc -config MCRpcCache.cfg MCRpcCache.tla        # a run
    tlapm RpcCacheProofs.tla                         # proofs; and so for every
                                                     # module *Proofs.tla

## The system

A program (`src/hp3488.c`, `ics8064.c`, `ibquery.c`) finds an address
(`libinst/configfile.c`), opens an instrument (`libinst/inst.c`) and sends it
messages; inst.c hands them to linux-gpib, to libvxi11 or to a file
descriptor, and after each of them polls the instrument and calls the program
back with its status.  libvxi11 keeps device handles (`vxi11_device.c`), makes
RPCs (`vxi11_core.c`) and shares connections (`rpccache.c`).  `icsconfig.c`
talks to ICS devices through a library of its own (`libics/ics.c`).

| component | state | operations | what is hard | correct when |
|---|---|---|---|---|
| connection cache, rpccache.c | list of (key, CLIENT, use count) | create (two kinds), destroy | sharing, malloc failure, address reuse, ports mapped late | counts exact, nothing freed in use, nothing leaked, right server |
| device handles, vxi11_device.c and vxi11_core.c | channels, link id, timeouts, policies; per server links and locks | open, close, lock, unlock, generic operations, settings | an open fails half-way, lost answers, connections break, shared connections, late grants of locks | handles empty after close, links owned by who names them, locks as believed |
| transfers, vxi11_device.c | loop counters, remaining time, lock | write, read, abort | chunks, partial answers, timeouts, abort between RPCs, other clients | all bytes once and in order, in time, one lock for all of them (in order and in time they are not, below) |
| instrument layer, inst.c | connection kind, poll level, callback; per serial line its lock and settings | init, fini, I/O, clear, trigger, poll | forms of address, programs on one line; poll inside a poll, retries, stale status bytes, exit inside a callback | the address opens what it names, settings are the user's own; every error is seen by the operation that made it |
| hp3488.c | slot configuration, `lerr_flag`, list of targets | probe, open, close, query, test, clear, shell | the probe needs errors to happen | right cards, no relay moved that was not asked for |
| libics, icsconfig.c | (on the device) active, flash and factory configuration | list, get, set, reload, factory, commit, errlog, reboot | several administrators, byte orders, lost answers | what is shown is active, what is reported happened |
| ics8064.c | radio flag | open, close, query, self test | radio mode in two messages | in radio mode no more relays closed than programs; exit 0 only if all was sent |
| configfile.c, ini.c | a table of instruments | parse, look up | continued and repeated lines, files with errors, three places | the entry is what the first good file says |
| ibquery.c | words left, line in the buffer | commands and shell | argument counting, end of input | each command once, in its turn; exit 0 only if all were sent |
| hostlist.c | ranges of numbers, the number of names beside them, iterators | create, push, pop, shift, delete, find, sort, uniq, strings, next, remove | padding, prefixes carried along, overlapping ranges, iterators of a list that changes | it is the sequence of names that hostlist.h speaks of |
| ib_488_2.c | - | block decoding, learn and restore | lengths at their limits | decodes what 488.2 says; no program calls it |
| rest of liblsd | hash, list, cbuf | - | - | taken over from another project; hash alone is used, as a function |
| libutil | - | argv, hprintf, read_all, write_all | short reads and writes | - |

## Modules

| module | models | built on |
|---|---|---|
| `ClientPool` | what the cache promises: acquire and release of shared connections | |
| `RpcCache` | rpccache.c; implements `ClientPool` (`PoolSpec`) | `ClientPool` |
| `RpcCacheProofs` | proofs about `RpcCache` | `RpcCache` |
| `Vxi11Device` | handles of one process, their servers, broken connections, another client | `RpcCache` |
| `Vxi11DeviceProofs` | proofs about `Vxi11Device` | `Vxi11Device`, `RpcCacheProofs` |
| `Vxi11Io` | vxi11_write, vxi11_read, vxi11_abort | |
| `Vxi11IoProofs` | proofs about `Vxi11Io` | `Vxi11Io` |
| `Hp3488` | hp3488.c on inst.c's polling, and the instrument | |
| `Hp3488Proofs` | proofs about `Hp3488` | `Hp3488` |
| `IcsConfig` | icsconfig and libics, and the device | |
| `Ics8064` | ics8064.c in several processes, and the device | |
| `IcsProofs` | proofs about `IcsConfig` and about `Ics8064` | `IcsConfig`, `Ics8064` |
| `ConfigFile` | configfile.c and ini.c, as functions | |
| `InstInit` | inst_init, inst_fini and what they need, for several processes | |
| `IbQuery` | ibquery.c in several processes | `ConfigFile`, `InstInit` |
| `IbQueryProofs` | proofs about `ConfigFile`, `IbQuery` and `InstInit` | `IbQuery` |
| `NameList` | what hostlist.h promises: a sequence of names, and places in it | |
| `Hostlist` | hostlist.c; implements `NameList` (`NameListSpec`) | `NameList` |
| `HostlistProofs` | proofs about `Hostlist`: the number of names, find, sort, uniq | `Hostlist` |
| `HostlistCallsProofs` | proofs about `Hostlist`: the names and iterators after each call | `HostlistProofs` |

`MC*` modules give each of them small sets; each `.cfg` is one run.
Definitions are named after the functions they stand for.  A definition that
is marked as a mutant in its comment is used by nothing: it is the definition
after it with a plausible mistake in it, and shows that a property would
notice that mistake.

**RpcCache.**  `cache` is `clnt_cache`.  A `Slot` is a place in the program
that keeps a CLIENT pointer (`vxi11_core`, `vxi11_abrt` of a handle).  The list
walks stop at the first match (`First`).  `Resolve` is what the port mapper
does to an address with port 0.  `peer` and `asked` are bookkeeping for
`LeadsWhereAsked`: where a connection leads and what was asked for.

**Vxi11Device.**  The library is called from one thread, so one `call` is in
progress; but a call is several RPCs, and every RPC is a step of its own,
between which connections break, servers reap links, other clients lock and
held-back lock requests are granted.  The cache actions are those of
`RpcCache`, taken in the same step as the handle's change.  Servers are
external: they keep links by connection, one lock, and requests that wait.
An RPC can go unanswered (vxi11_core.c:343, 358) on a connection that works,
and the server may then have done what it was asked: a create_link made its
link and took its lock, a lock or unlock was executed or a lock request still
waits (`DoneUnanswered`), a destroy_link freed the link or not (`DestroyLink`).
`ErrLid` is what a server may put in the lid field of a refusal.  vxi11_core.c:124
stores it, and closing the handle destroys that link, whosever it is; `named`
remembers which links handles have from a refusal, and the properties of links
and locks are about the others.

**Vxi11Io.**  One action per RPC and per answer.  A byte is its offset in the
caller's buffer, so `got` shows what the instrument received of whom and with
which END flag, and `mem` what a read stored where.  An answer that is an error
still brings data and a reason, which are stored but not counted
(vxi11_core.c:194, `StoreAnyway`).  `tmout` is an unsigned number modulo `Word`.
An answer takes any time up to the timeout it was given plus `Slack`; `late`
remembers that one took longer than its timeout.  A lock or unlock that fails
may have been executed.  The other client may lock and write between two RPCs;
an abort may end the RPC in progress or do nothing.

**Hp3488.**  `phase` is where the inst_* operation in progress is: I/O, poll
(`rsp`), the callback's two operations (`errwrt`, `errrd`), and the decision
(`judge`).  `pc` is where the program is.  A command is executed a while after
it was written; a GPIB board keeps the status byte of a request for service.
Any I/O may fail, which ends the program.  The self test may find a fault.

**IcsConfig.**  Its specification is `IcsSpec`, with `IcsInit` and `IcsNext`,
because `IcsProofs` extends `Ics8064` as well.  A 32-bit number is the sequence
of its four bytes; a host loads `s_addr` in its own order, so that `_str2ip`,
`_ip2str` and `htonl` are what they are on that host.  `mem` is what the device
stores, `text` the words it was set with.

**Ics8064.**  An option or shell command is the list of messages it sends
(`todo`); each is a step, followed by its poll, so that the messages of two
programs mix.  `owed` is what a program was asked to move and has not moved.
The callback's `*ESR` lacks its question mark: it never gets an answer and
leaves the error where it is.

**ConfigFile** has functions only: a file is a sequence of lines, read by a
recursive function as ini_parse_file reads it; in the first of the three places
there may be `Unset`, for GPIB_UTILS_CONF that is not set.  `Means` and `Good` say
what a file means without reading it line by line, for `LookupRight`.

**InstInit.**  An address is known by what the scanners of inst_init find in it
(`Fields`), so that the order of its tests matters as in the code; instruments
are records, opened by `inst_init` in one step or, on a serial line, in three,
between which another program runs.  `locker` is the lockf lock, `tio` the
terminal settings.

**IbQuery.**  A program goes from "open" through "ready" to its arguments or
its shell.  Words are strings, `Asking` those with a question mark at their
end.  `owed` starts as what the manual page makes of the words (`Asked`, which
finds out which words are arguments without counting), and every message that
is sent takes its first element away; `odd` is set if it is another one, `lost` if a
write to a serial line was lost or cut short, which the program takes for done
(util.c:56, inst.c:325), and `eof` once the end of a shell's input was passed.

**Hostlist.**  `hl` is the struct hostlist: ranges, `nhosts`, iterators with
their index, depth and whether their `hr` is the range at that index.  Names are
sequences of characters, strings sequences of tokens (what `_next_tok` returns),
so that carried prefixes, padding, and the split of a name into prefix and number
are what the code makes of them; `Given` says beside `Strings` what hostlist.h
says they stand for.  `track` says how an iterator was used and whether it still
has a place; one that has not ("lost") is only reset or destroyed.  `broken` is
set by a step that leaves or uses freed memory or fails an assertion, and nothing
follows it; hostlist_pop_range and hostlist_shift_range then leave NULL in the
places that hold freed ranges (`Left`).  `short` is 1 once hostlist_delete_nth
was asked for the place behind the last name, which its assertion admits and
which it counts (hostlist.c:1812, 1840).  `_width_equiv` also makes two widths
equal, but only two that are no more than the digits of both first numbers, which
pad nothing; the model leaves them.  qsort may leave equal ranges in any order:
`Sorted` has every order that is one.
**NameList** is the same list without ranges: each call changes a sequence of
names, an iterator is the number of names it has returned.  Its `Keep` says
of which iterators a call keeps the place: push of all that were not told the
end, pop of those with names left before the end, shift of all, remove of its
own.  Delete takes of each name as many as were asked for, or all there are.
A sort is any rearrangement; that it is in order is `SortRight`.  Three things
that the calls do and hostlist.h does not promise are named beside it in
`NameListSpec` of `Hostlist`, so that a fourth would be found: `RangesStay`,
`DeletesNone`, and `DeletesFewer`, which excuses a delete for names in a bracketed
list with a digit before it and for no others.

## Runs

| run | shows | bounds and why they are enough |
|---|---|---|
| rpc_cache | use counts, liveness and sharing; refinement of the pool | 4 slots, 4 CLIENTs: two entries with two holders each, and freed addresses reused; 2 hosts, a port by number and through the mapper, which gives duplicate entries |
| device | what opens, failures and closes leave behind; locks as the program believes them | 2 handles on one host share a core connection; 2 CLIENTs: the second is an abort channel, or a core connection made when the first was not entered; 2 links; both lock policies and another client; a refusal may name any link |
| device_live | every call returns; links are reclaimed | as device without the waiting policy, and refusals name no link |
| io | both transfer loops | lengths 1 to 3 with chunks of 2: one short chunk, one full, two; timeout of 2 so that both one and two RPCs use it up; answers up to 1 late, so that the remaining time wraps modulo 4 |
| hp3488 | the probe and the errors of every operation, and that each ends | 2 slots, so that an error could be blamed on the next card, on GPIB and VXI-11; channels 4 and 9, which the probe uses; -C naming one model for every slot; one option after the probe; two presses of the key, so that the board holds two bytes |
| ics8064 | radio mode and the exit code | 2 programs, lists of one or two relays, one relay twice, and a list with 17, which is none; three relays, so that two programs can break the bound |
| ibquery | lookup, address, serial line, commands | 2 programs on one terminal; 9 files, some for each kind of error, in each of the three places, with another behind or none, the variable set or not; 13 addresses, every form; argument lists with commands as arguments, a missing argument, the status command; 2 lines typed to a shell, and its input may end |
| icsconfig | what is shown and reported | 2 administrators, one on each kind of host; 3 commands in all: a change, something that moves it, something that shows it |
| hostlist | the list, its iterators and strings keep their promises | at most 4 names, so that an iterator has a range before it, is in one, and has one after it; one iterator, because iterators do not know of each other; strings with a carry from 9 to 10, in brackets with padding and without, a prefix that ends with a digit (0[9-10]), a carried prefix, a bare word, and a suffix; pushed twice they overlap |

The remaining runs each end in a counterexample: they state what a comment,
assertion or manual page says and the code does not do.

| run | statement | what happens |
|---|---|---|
| io_order | vxi11_device.h:55 | the second chunk is taken from before the buffer (`buf -= size`, vxi11_device.c:263) |
| io_timeout | vxi11_device.h:59 | the unsigned remaining time wraps when an answer came a moment late |
| ibquery_secondary | man/gpib-utils.conf.5.in:22 | `board:primary,secondary` opens the primary address alone, and the handle that was right is lost (inst.c:1066) |

`TimesOut` and `OpensWhatItNames` are the documents' statements and fail.  The
passing runs have beside them what the code does: `TimesOutUnlessLate`, where no
answer so far came later than it was asked to, and `OpensAsNamed`, for every other
form of address.  `CommandsAsGiven` speaks of a shell until its input ends, and
promises that everything was sent only if no serial write was lost.
`LinkIntegrity`, `LockAgreement` and `OthersLinksSurvive` except the links that a
handle has from a refused create_link (`named`), `LookupRight` the case that
GPIB_UTILS_CONF names a file that is not good, `NameListSpec` the three departures
above, `SuccessIsTrue` what `icsconfig factory` reports.  In run hostlist the
iterators that a call leaves without a place are out of the question.  Each of
these exceptions is in the table or in the next list.

Further disagreements, seen while modelling, which the modules have as the code
does it and no run is spent on, because each is a step or two from the start:

- vxi11_create_link stores the lid of a refused answer, vxi11_core.c:124, and
  the error path destroys the link of that number on the shared connection,
  vxi11_device.c:201, although vxi11_device.h:49 speaks of the handle's own
  (`create_link_refused`; `named` in `OthersLinksSurvive`);
- an unlock that fails after a transfer that failed is forgotten, and the
  instrument stays locked until the link ends, vxi11_device.c:270 (`ReleaseLock`);
- vxi11_set_iotimeout changes the timeout of a connection that other handles
  share, and is not applied to one opened later, vxi11_device.c:467 against
  vxi11_device.h:142 (`vxi11_set_iotimeout`);
- an RPC error of vxi11_open is decoded with a channel that is closed,
  inst.c:851 against vxi11_device.h:44 (`vxi11_close` inside vxi11_open);
- `vxi11_lock` waits only if `doLocking` is set, by default it does not;
  vxi11_device.h:123 calls it blocking (`vxi11_lock`, second and third case);
- a bad -C calls `inst_fini (NULL)`, which reads `gd->magic`, hp3488.c:295
  (`config_refused`);
- a probe that is cut short leaves 04 or 09 closed, and one that is not opens
  every relay of the card, hp3488.c:402; man/hp3488.1.in:39 speaks of a
  momentary closure of these two (`IoFails`, `creset` in `Script`);
- modeltab gives the 44476 a channel 03, which it has not, hp3488.c:96
  (`Listed`, `Has`);
- on a serial line no operation is followed by a poll, inst.c:905, although
  inst.h:12 says every I/O is, so that the probe takes every such card for a
  44471 there (`Polls`);
- the status command of ibquery parses optarg, which getopt_long left NULL,
  ibquery.c:193, and is killed (`status_killed`);
- a file named by GPIB_UTILS_CONF that is missing or has an error is passed
  over and the other two are tried, configfile.c:182, although
  man/gpib-utils.conf.5.in:14 says that it is used, and the others otherwise
  (`cf_create_default`); a section without an address opens GPIB address 0,
  inst.c:1070 (`OnlyNumber`);
- one kind of flow control leaves the other on, inst.c:1003 (`Settings`);
- a write to a serial line that fails or is cut short is taken for done and
  the program exits with 0, util.c:56 and inst.c:325, although
  man/ibquery.1.in:62 promises 1 (`message_lost`);
- two programs in radio mode can leave one relay closed each, although
  man/ics8064.1.in:50 says "max of one relay closed"; and the error the
  callback of ics8064 asks about is never cleared, ics8064.c:212
  (`RadioBound` has the bound that holds, `_interpret_status`);
- `icsconfig factory` reports that the factory configuration was written to the
  flash, icsconfig.c:309 and man/icsconfig.1.in:34; the procedure it calls
  reloads the active configuration and leaves the flash as it was (`Procedure`;
  `SuccessIsTrue` says of it what was done);
- the shell of ibquery ignores that xreadline returned NULL and repeats the line
  in its buffer until a message fails, ibquery.c:131 and man/ibquery.1.in:11
  (`at_eof`);
- inst_488_2_restore stores `read_all (...) < 0` as the length and restores
  nothing, ib_488_2.c:169;
- inst_loc, inst_clr and inst_rsp exit without inst_fini when a VXI-11 call
  fails, inst.c:448: the link ends with the connection only.

hostlist.c against hostlist.h, as the model has it:

- hostlist_find compares prefixes: a name of `2[00-02]` has the prefix 2, the
  name 201 that is looked for has none, and it is not found (`hn_within`).  That
  is what hp3488.c:523 means by "For some reason hostlist.c::hostlist_find() is
  not working for me...".  For the same reason hostlist_delete of 09 takes
  nothing out of `0[9-10]`, against hostlist.h:210 (`DeletesFewer`).  A host `x`
  without a number is found as `x0` (`FoundIsThere` allows for it);
- hostlist_remove of the only host left in a range after a longer one puts the
  iterator back to that one's first host, and its hosts are returned again
  (`again` in `hostlist_remove`);
- hostlist_push leaves an iterator that was told the end, or that was made of an
  empty list, at freed or missing memory; hostlist_pop one at the last name;
  hostlist_shift_range all of them (`Then` and its second argument);
- hostlist_pop_range and hostlist_shift_range collect the ranges in another list
  and take off as many as that has: where two were joined there, places stay in
  the list that hold a freed range or NULL, hostlist.c:1686 and 1718 against
  hostlist.h:177 (`Left`, `RangesStay`);
- hostlist_next_range at the end walks on past the array (`iterator_advance_range`);
- hostlist_delete_nth lets n be the number of names, deletes nothing, returns 1
  and takes one off nhosts, hostlist.c:1812 and 1840 (`DeletesNone`; `Consistent`
  says that it is one too low at most, however the calls go on);
- padding is compared by the first numbers of two ranges, and hostlist_sort
  raises that of a range it splits, so that ranges qsort had put in order are no
  more: sorting `9-10,9-10,09` ends the program at the assertion
  `hostrange_cmp(h1, h2) <= 0`, hostlist.c:889.  `IntersectAsserts` is that
  assertion, and

      tlc -config MCHostlistPadded.cfg MCHostlist.tla

  ends in a list for which it fails; `SortRight` promises that it holds for lists
  whose prefixes are padded alike, as those of hp3488.c:466 are (`Alike`).
  Likewise hostlist_uniq leaves a name twice that is in ranges of different
  padding (`9-10,09,10`);
- without a bracket, "foo,12" is foo and fo12, "tux1,0" is tux1 and 0, and "2-2"
  is one host of that name (`reckless_token`), so that what
  hostlist_ranged_string writes is not always read back the same (`RoundTrip`);
- hostset_insert subtracts a name that is there already twice; nothing calls it;
- hp3488 and ics8064 give the result of hostlist_create to an iterator: a list
  that cannot be read is NULL and ends the program, hp3488.c:571; the query
  option takes it for all targets, hp3488.c:551.

## Fairness

`Vxi11Device!FairSpec`: the call in progress goes on, because an RPC returns at
the latest with its own timeout (`clnt_call` has one), and a server notices in
the end that a connection is gone.  Nothing is assumed about the program's next
call, about locks being granted, or about other clients.
`Vxi11Io!FairSpec`: the calling thread runs, and RPCs end likewise.
`Hp3488!FairSpec`: the program runs, and the instrument executes a command it
has taken; without the latter the retry loop of `_serial_poll` has no end
(a hazard of the code, inst.c:131).  The key presses are bounded by `MaxPress`.

## Proofs

TLC checks the runs' small instances; TLAPS proves the following for all values
of the constants that satisfy the assumption named in the module.  In each
module the invariants that the runs check follow from an inductive invariant,
which has a part for each thing that takes several steps; its lemmas show one
kind of step, or one part of the invariant, at a time, and a theorem puts them
together.  `PROJECT.json` lists the theorems with the properties they state.

| module | theorems | for any | hypotheses |
|---|---|---|---|
| `RpcCacheProofs` | `TypeCorrect`, `CountsAreExact`, `HeldStaysLive`, `NothingLeaks`, `SharingIsRight`, `OneConnectionPerHost`, `ImplementsPool` | slots, CLIENTs, keys | |
| `Vxi11DeviceProofs` | `DestroyFindsNothing`, `ConnectionsAreAccounted`, `LinksAreOwn`, `LocksAgree`, `OthersLinksStay`, `UsesTheCache` | handles, servers, CLIENTs, links, lids of refusals | |
| `Vxi11IoProofs` | `WritesAsMany`, `ReadsTheAnswer`, `LockSpansTheCall`, `AbortsEndCalls`, `TimesOutInTime` | lengths, chunks, answers, lateness, word sizes | |
| `Hp3488Proofs` | `ErrorsAreRead`, `SelfTestIsHonest`, `ForgivesTheProbe`, `LeavesNoTrace` | slots, cards, options | |
| | `TheProbeIsRight` | | `AlwaysPolls` |
| `IcsProofs` | `ShowsTheActive`, `ReportsTheTruth` | administrators, byte orders, addresses | |
| | `ExitCodesAreTrue`, `RadioModeBound` | programs, relay lists | |
| `IbQueryProofs` | `FileMeans` | files | |
| | `SettingsAreOwn`, `LooksUpRight`, `NamesWhatItOpens`, `NothingStaysOpen`, `SaysWhatItIsTold` | programs, addresses, files, words | |
| `HostlistProofs` | `HostlistConsistent`, `HostlistFound`, `HostlistSortRight` | strings, names, iterators | |
| | `CoalesceEnds`, `CoalesceIs`, `UniqIs` | lists of ranges | |
| | `SortIs` | | `Alike` |
| `HostlistCallsProofs` | `PushIs`, `CollapseNames` | lists of ranges | |
| | `HostlistNamesKept`, `HostlistPlacesKept` | strings, iterators, orders of calls | |

The two hypotheses exclude what the code is known not to handle, and without
its own a theorem is no longer true:

- `AlwaysPolls` (no serial line): inst.c:905 does not poll on one, so that no
  error is read there, and the probe can learn nothing from errors;
- `Alike` (ranges of one prefix are padded alike): without it an assertion of
  hostlist_sort fails (`9-10,9-10,09`, above).  It is the premise of the second
  half of `SortRight` too; the first half, about hostlist_uniq, has none.

The assumptions are: sets of actors are finite where the model counts them;
NULL, NOLID and the like are no values of their sets; an address does
not have both numbers and a device name, as the scanners of inst_init return them
(`InstInitAssumption`); files are sequences of lines of text and words are
strings, and the addresses that good files mean are in `Fields`
(`IbQueryAssumption`), since `Fields` has what the scanners make of every
address; an IP address is four bytes (`IcsConfigAssumption`); strings given to
a host list are sequences of tokens as `_next_tok` returns them, names that are
looked for are sequences of characters (`HostlistAssumption`), and NULL is no
list (`NoList`).

**RpcCache.**  `UseCountExact` is not inductive alone.  A CLIENT that is not in
the list is freed by whoever gives it back; that is right because it has one
holder (`UncachedHasOneHolder`): a connection gets a second holder only through
an entry, and an entry leaves the list only when its connection is freed.  And
a caller shares an entry because of its key; that is right because the key says
where the connection leads (`KeyIsPeer`).  `IInv` adds these two to the
checked invariants.  Lemmas say what one more and one less holder does to a
count and what `PushFront` and `Unlink` do to a list; `ReuseInv`, `ConnectInv`
and `DestroyInv` are the three kinds of step.  The refinement needs `IInv` in
every state: `ObtainAcquires` and `DestroyReleases` map a step to one of the
pool.

**Vxi11Device.**  `DestroyAsserts` speaks of idle calls only, so `DevInv` says
for each place of a call (`InCall`) what its handle has there, and for the other
handles that a link has a connection (`HandleOK`).  The cache is not proved about
again: its steps inside a call are steps of `RpcCache`, so `DevInv` contains the
invariant of `RpcCacheProofs`, with the addresses already resolved (`ObtainStep`,
`CacheFacts`); the same argument read the other way is `UsesTheCache`.
`LinkIntegrity` needs all handles that store a link, not the open ones only: one
that is closing will destroy the link it stores (`OwnLink`).  Where the number
came from a refusal nothing is known of the link, so these parts speak of the
handles that are not `Named`, and a number is in `named` as long as some handle
stores it from a refusal.  Locks need that the program holds them through open
handles (`HeldOK`).

**Vxi11Io.**  `IoInv` is a loop invariant: what the instrument has is as many
bytes of the caller as `len` has gone down, and END is on the last of them
exactly when there are no more (`Writing`); what the caller has is the first
`count` bytes of the answer, with no terminator before the last (`Reading`); what
an error stored behind them is not counted, and ends the loop.  `Progress` says
that an RPC starts only when the loop's condition holds, and `Locking` who holds
the lock.  `Timing` is apart: as long as no answer was late, time spent and time
left make at most io_timeout together, and nothing wraps.

**Hp3488.**  An error must be seen by the operation that made it although the
command is executed some time after it was written, is asked about by polls
that are answered in between, and is read by two more operations inside the
callback.  `Polling` says that outside these phases the instrument is idle and
its error register empty; `Flag` and `Closing` follow `lerr_flag` through the
two CLOSE of a probe and say what it tells of the relay, `Finding` that the
slots before are known, `Traces` that until CRESET is executed only relays of
this slot may be closed, and `Testing` that a failed test is in the error
register until it is seen.  On a serial line nothing is polled, so that these
parts say nothing there; a command is then executed before the next one is
written, and CRESET therefore before the next slot is probed (`Unpolled`).

**IcsConfig.**  Host byte orders cancel: what `set` sends depends on the
attribute and the value and not on the host (`SameFromAnyHost`), and any host
reads it back as it was given (`ReadsWhatWasSet`).  With that the device stores
`Wire` of what it was told, whatever moves between its areas.

**Ics8064.**  What a program owes must be what it still sends (`PendingIsOwed`),
so that it owes nothing where it sends nothing (`TodoWhere`).  The number of
relays that are closed is not inductive, since a program may always be about to
close one more.  `OneEach` counts programs instead: as many as there are relays
closed are not about to close another without opening all first.  A CLOSE is
right after OPEN:ALL in what a program sends (`RadioTodo`), so the one that
closes a relay was not yet counted and from then on is.

**IbQuery and InstInit.**  The invariant is stated for one program (`Stage`,
`Locking`, `Line`, `Owns`).  `OnlyOwn` is what a step of one program leaves alone:
the others, and any serial line that one of them has locked; so it keeps their
parts (`OthersKeep`), and its own is shown action by action (`Keeps`).  Two
programs on one line would have to have its lock both.  `Looked` says that a
program uses what its configuration says of its instrument, and `Saying` that
what it still owes is what the command in progress has yet to send, followed by
what the words that are left ask for.

**Hostlist.**  The invariant of the list (`HlInv`) is that nhosts is the sum of
the ranges' counts, or one less once hostlist_delete_nth was asked for the place
behind the last name (`Counted`), and that an iterator that has a place is at a
range or just behind the last (`InPlace`).  One less and not two: from then on
that place is above nhosts, and its assertion refuses it.  It holds until a call
leaves a freed range in the list or an assertion fails, after which nothing is
said: what is inductive is `broken \/ HlInv`.  Each action keeps it by a lemma of
what its helper does to the sum: a range pushed, joined, replaced, split or taken
away (`PushRange`, `ReplacedSize`, `DeleteNth`, `TakenKeeps`).  `HostlistFound`
needs that a number which is printed and read is the same number (`PrintRead`),
and that two widths pad it alike exactly if both or neither make it longer
(`PadIs`).

hostlist_sort sorts, then looks from the end for two neighbours that intersect,
splits them, puts the pieces in their place and starts over (`coalesce`).  That
this ends is not obvious: the pieces are more ranges than before and may
intersect again.  But they are as many names, in later ranges: `Slots` counts how
far names can still move, and gets less (`FewerSlots`), so that the recursion has
a value (`CoalesceEnds`).  That no assertion fails on the way is the harder half.
It needs to be known that the list stays in order but for the pieces, and the
pieces rise (`Rising`); that every piece is padded as the range it came from was
(`Grown`); and that comparing padding by first numbers is then transitive (`Good`,
`PulledGood`).  It is not without `Alike`: the attempt to prove it led to the list
above for which the assertion fails.  Where nothing intersects any more,
neighbours in order make a list in order (`CollapseApart`).  hostlist_uniq goes
through the sorted list once; the range it joins to began as some range of the
list did, no later than the one looked at last, and there is a gap before it
(`Reaches`, `Spread`).

That the count is right does not say that the names are.  `NamesKept` says what
each call does to them, `PlacesKept` what it does to the place of an iterator:
they are what `NameListSpec` says of these calls, as action properties.  TLC has
checked them for lists of up to three names under two iterators,

    tlc -config MCHostlistCalls.cfg MCHostlist.tla

and `HostlistCallsProofs` proves them, `NamesKept` from `HlInv` alone; of
hostlist_pop_range and hostlist_shift_range where no freed range stays.  The
names of a list are those of its ranges one after the other, each at the place
that the counts of the ranges before it give (`NamesIs`), so lists put together
have their names put together (`NamesJoin`).  A range that follows the last one
becomes part of it and its numbers are then printed in the width of that one;
they are the same names because that width pads both alike (`PrintedAlike`).
`hostrange_delete_host` leaves what is below the number and what is above,
either of which may be nothing (`DeleteHostNames`).

`PlacesKept` says the same of the iterators, and is not inductive: the place of an
iterator is the names before its range and its depth in that range, and the range
may have lost names under it.  `HlSpots` adds that an iterator has not returned
more names of its range than the range has.  pop keeps this because
iterators that are behind what is left are lost; remove because it sets its own
back and loses all others; shift because it takes the depth of those in the first
range back by one (`PopPlace`, `RemovePlace`, `ShiftPlace`).  When hostlist_remove
splits a range, its iterator goes to the upper part with depth -1: that is the
place before its first name, which is also the one behind the lower part.

**Recursive functions.**  ini_parse_file, the list of words that are arguments
and the concatenation of what they send are recursive functions.  The library's
theorems on induction have the induction hypothesis as an operator, which the
provers cannot be given; but that every set of numbers has a least element is
stated of sets, and from it `IbQueryProofs` derives an induction over a set
(`Induction`), which each proof uses with a set of its own (`HostlistProofs` has
one of its own, and one for recursion along a measure that gets less, `Descent`):
the n for which the first n lines were read as they mean (`FileRead`), or for
which n messages of a sequence can be cut off (`FlattenTail`).  That a recursive
function exists, which its CHOOSE supposes, is an induction too (`Reads`,
`Marks`, `Flattens`).  `FileMeans` compares the parser with a meaning that does
not read line by line, in which a line belongs to the last section and attribute
before it: which files are refused, which instruments a file knows, and what it
says of each.  `AskedFrom` does the same for the words: the manual page's reading
of all of them and the program's, which counts how many words each command took.

Only model-checked:

- liveness (`CallsReturn`, `LinksReclaimed`, `CallReturns`, `OperationEnds` and
  the like), which is beyond the prover;
- `RoundTrip` of `Hostlist`: it is no theorem for all strings, since ranges that
  were joined can have more names than the parser takes in one (`MaxRange`), and
  what is printed of them is then not read back; the run's strings are shorter;
- `NameListSpec` as a whole: `HostlistNamesKept` and `HostlistPlacesKept` are it
  for push, pop, shift, their ranges where none stays, delete at a place, remove
  and next; that hostlist_delete, which deletes one name of a list of them after
  the other, and sort and uniq leave the right names, what strings stand for
  (`Given`), and hostlist_next_range are not proved;
- that a theorem fails without its hypothesis: for `Alike` TLC has the
  counterexample (MCHostlistPadded.cfg); on a serial line the probe gets no error.

## Not modelled

The plan below names what is to come.  Left out for good: the contents of
messages, formatting and verbose output; rpcgen's input (types only);
linux-gpib; the SRQ, interrupt channel and docmd calls of vxi11_core.c, which
nothing calls; liblsd's list and cbuf, which nothing uses; of hostlist.c
hostsets, which nothing uses, copies, and strings that are cut off because a
buffer is too small; ib_488_2.c, which no program here calls.  ICS error log
contents: the device keeps them, one RPC copies them.  The programs use of
hostlist.c what makes a list, sorts it and walks through it; `Hp3488` and
`Ics8064` have lists as sequences.

## Plan

Done, in this order: `ClientPool` and `RpcCache` (every handle depends on the
counts), their proofs, `Vxi11Device`, `Vxi11Io`, `Hp3488`, `IcsConfig`,
`Ics8064`, `ConfigFile`, `InstInit`, `IbQuery`, `NameList`, `Hostlist`, and the
proofs about `Ics8064`, `Vxi11Device`, `Vxi11Io`, `Hp3488`, `IcsConfig`,
`ConfigFile`, `IbQuery` and `Hostlist`.

Next modules, if programs come to use the code: `Ieee4882`, block decoding
against a reference decoder, and learn and restore as a round trip.

Next theorems:
1. `Hostlist`: the calls that `NameListSpec` has beside those of `NamesKept`:
   hostlist_delete by induction over the names it is given, sort and uniq by the
   names' bags.
2. `Vxi11Device`: the safety half of `LinksReclaimed`: a link whose owner is
   closed is on a connection that is down or about to be.
