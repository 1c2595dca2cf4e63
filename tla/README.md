# A TLA+ model of RISCOSProjects

The repository holds four RISC OS programs: **BTTelnet** (a telnet relocatable
module with a command-line front end), **!VNCInput** (a VNC client that only
sends input), **!CDPlay** (a CD player) and **!JPEGView** (a progressive JPEG
viewer over a vendored libjpeg).  The module BTTelnet is the one with the hardest
behaviour: code that runs at interrupt time, in callbacks and in SWIs shares
sessions, buffers and flags.  It is modelled in the most detail; of the other
programs the parts that keep state over many events are modelled.

All paths below are relative to `src/`.

## 1. Inventory

### BTTelnet/Module

| Part | State | Operations | Hard behaviour |
|---|---|---|---|
| buffers, `buffer.c` | memory, read and write positions, used | create, write, read, drain, consume | partial amounts, moving the contents down |
| vectors, `vectors.c` | `callbackReason`, `callbackWaiting`, fd_sets `connected`, `reading`, `writing`, `working`, `maxSocket` | `eventvHandler` (Internet events), `callbackHandler`, `addCallback`, `addCallafter` | events interrupt the handler anywhere; time slices; one registration shared by all sockets |
| sockets, `socket.c` | status bits, socket and SSL handle of a session | resolve, create, connect, SSL, read, write, close | non-blocking calls, connections lost between a test and a use, SSL begun in mid-stream |
| telnet, `telnet.c` | work buffer, `workProcessed`, option bits | `telnetWork` (decode), `telnetWrite` (encode, echo), option and subnegotiation handlers | incomplete commands, full buffers, unsigned counters |
| sessions, `sessions.c` | 32 session slots, IDs | create, destroy, find, initialise, finalise | reuse of slots and socket numbers, events in the middle of a destroy |
| SWIs, `swis.c` | none of its own | Open, Close, Read, Write, Status, Configure | preempted by the callback handler when it is called through OS_CallAfter |
| `main.c` | claims and pollword | initialise, finalise | finalisation with a callback outstanding |

How they interact: the application calls SWIs, which change sessions and
buffers and register a callback.  The Internet module raises events, which mark
sockets and register a callback or close a socket.  RISC OS calls the callback
handler, which moves bytes from the sockets to the work buffers, from the work
buffers to the read buffers and from the write buffers to the sockets, a slice
of two centiseconds at a time, and registers itself again if a reason is left.

What makes each part correct:

- buffers: a bounded first-in first-out queue; nothing outside the memory;
- vectors: no flag that claims a registration that is not there, and never more
  registrations than it stands for but by an event in the middle of one; no reason,
  and no socket with something to do, forgotten; fd_sets of open sockets only; data in
  order and once, whatever interleaves;
- sockets: the assertions of the socket functions; no byte in clear while SSL is
  set up; with FORCE_SSL never a session without SSL; closed sessions stay closed;
- telnet: decoding agrees with the protocol; every request answered once;
  progress on every input;
- sessions: IDs and sockets identify at most one session; all memory returned.

### BTTelnet/FrontEnd

`main.c` polls the status until connected and then passes bytes between the
screen, the keyboard and the module; `process.c` edits lines and sends them.
Correct if every byte of a line is sent once over any partial writes.

### !VNCInput

`VNC.c` (the RFB handshake as a state machine over null events), `Sockets.c` (a
list of received blocks, read across block borders), `Main.c` and `Buttons.c` (the
Wimp poll loop, the windows), and `Module/VNCInputSrc`, a support module in tokenised
BASIC whose ticker, mouse and key handlers set bits of a pollword.  Correct if the
handshake follows the protocol for any split of the server's messages, if it ends, and
if mouse and keyboard are given back however the connection ends.  `d3des.c` is
third-party.

### CDPlay/!CDPlay

`CDBitz.c`, `Buttons.c` and `main.c` keep a notion of the drive's state (playing,
paused, stopped, track) beside what the drive answers at every null event, and decide
what is played next; `Listing.c` and `LinkList.c` keep the track lists.  The drive
plays by itself, has buttons of its own and its disc is changed without notice.
Correct if what is shown follows the drive, if a stopped disc stays stopped, and if
the next track is played when one has ended.

### !JPEGView

`JPEGsrcman.c` (a suspending data source: partial reads, skips, end of file),
`JPEGdecode.c` (decoding by slices, suspended and resumed, over `Libraries/`, the
vendored libjpeg), `heap.c` (a thin layer over the SWIs of a dynamic-area module, MAlloc,
which keeps and joins the blocks and is not in the repository).  Correct if the bytes
given to the decoder are the file's, if a whole file is shown whole, and if
every load ends.

The whole list of parts, the ones left out included, is `components` in
`PROJECT.json`; the places where this code can go wrong are `hazards` there.

## 2. Modules and plan

Done:

| Modules | Subject | For TLC | Proofs |
|---|---|---|---|
| `BoundedFifo`, `Buffer` | the buffers, and the queue they implement | `MCBuffer` | `BufferProofs` |
| `Pipe`, `Vectors` | events, callback handler and SWIs over the sessions, and the pipe a connection is | `MCVectors`, three passing configurations | `VectorsProofs` |
| `Lifecycle`, `Connection` | the stages of `socketUpdate`, and the phases of a connection `Vectors` builds on | `MCConnection` | `ConnectionProofs` |
| `Telnet` | the bytes: `telnetWork`, `telnetWrite`, options and subnegotiations, against a reference decoder | `MCTelnet` | `TelnetProofs` |
| `Sessions` | slots, IDs, socket numbers and memory, with events in the middle of `sessionDestroy` | `MCSessions` | `SessionsProofs` |
| `JPEGSource`, `JPEGDecode` | the source manager for any user, and the decoder that is such a user | `MCJPEG` | `JPEGProofs` |
| `VNCInput` | handshake, list of buffers, windows, pollword | `MCVNCInput` | `VNCInputProofs` |
| `CDPlay` | what is played next, against a drive that is used by others | `MCCDPlay` | `CDPlayProofs` |

How they are composed.  `Lifecycle` stands between `Connection` and `Vectors`: the one
implements it, the other assumes it.  `Telnet` is what `Vectors` does with one item,
byte by byte; its variable `due` is the callback whose registration is the
subject of `Vectors`.  `Sessions` is the storage under both.  `JPEGDecode` EXTENDS
`JPEGSource` and is shown to implement its specification, so that what is proved of
the source for every user holds of the decoder.

To come:

1. `SharedBuffer` — a SWI and the handler called through OS_CallAfter on one
   buffer, split at the memory accesses of `buffer.c`.
2. `FrontEnd` — sending a line over partial writes, against "every byte once".  It is
   known to fail (section 4), so the module is worth having once it is mended.

## 3. How the modules correspond to the code

### Buffer

`data`, `readPos`, `writePos` and `used` are the fields of `BTBuffer_s`; `out` and
`result` what an operation gave its caller.  `DrainBytes`, `Write`, `Read` and
`Consume` are `bufferDrain`, `bufferWrite`, `bufferRead` and `bufferConsume`;
`Receive` and `Send` are the uses of `bufferWritePtr` and `bufferReadPtr` by
`socketRead` and `socketWrite`, in which the socket calls touch the memory directly.
All buffers of the module are linear, so the circular branches are left out.
`IsFifo` maps the held bytes to the queue of `BoundedFifo`.

### Vectors

A session is identified with its socket.  `phase` is what the status bits and the
socket number say of the connection:

| `phase` | in the code |
|---|---|
| free | no session |
| connecting | socket open, CONNECTED clear, not in `connected` |
| connected | CONNECTED set |
| securing | CREATING_SSL or CONNECTING_SSL set by `telnetAuthReply`, CONNECTED clear |
| finished | FINISHED set, socket -1 |
| revived | FINISHED and CONNECTED set, socket -1 |

The other status bits are sets of sessions (`ssl`, `nego`, `lost`, `incoming`,
`outgoing`).  `inq` is what the network holds for a socket; `read`, `work` and
`processed` are the buffers and `workProcessed`, with sequences of items; of the
write buffer only the amount matters.  An item is a data byte or a command:
`ask` needs room in the write buffer for its answer, `lead` needs the byte behind
it, `accept` starts SSL.  The fd_sets are `connected`, `reading`, `writing`,
`working`; `reason` and `waiting` are `callbackReason` and `callbackWaiting`; `armed`
counts the calls of the handler that RISC OS has really registered, by OS_AddCallBack
and by OS_CallAfter; `raising` says that one has just been registered and
`callbackWaiting` is not set yet.

The callback handler is a process with the places of `pc`.  One step is one piece
of code between two points at which an event can matter: reading a reason, copying
an fd_set and selecting, one round of a loop with its test of CONNECTED, a socket
function up to its SWI, the rest of it, one item in `telnetWork`, its tail, the
clearing of `callbackWaiting`, the final registration.  `cur` is `ptr`, `scan` what
is left of `setSockets`, `expired` whether the slice is used up, `got` the bytes
`Socket_Read` has stored behind the work buffer but `bufferConsume` has not yet
counted, `sent` how many `Socket_Write` has taken that `bufferDrain` has not yet given
back.

Interleaving.  `Arrive` and `PeerClose` (`eventvHandler`) may occur between any two
steps.  `Register` is `addCallback` and `addCallafter` up to the SWI that registers;
`RaiseFlag` sets the flag behind it, and an event that comes in between finds it down and
registers once more (`EventCallback`, which is not interrupted).  A callafter that comes
while the handler is active is turned away by `inHandler` (`DropCall`).  `SecureCall` is
`socketUpdate` up to its call of SecureSockets, `SecureDone` what it does behind it,
CONNECTED included, although an event may have closed the session meanwhile.

The application's SWIs are otherwise one step each and occur only while the handler is not
active; that OS_CallAfter may enter the handler in the middle of a SWI is left to
`SharedBuffer`, and so is that the two centiseconds of a new callafter are over before the
handler that asked for it has returned.  A step itself is not interrupted: the
read-modify-write of `callbackReason` and of an fd_set by compiled code is left to
`SharedBuffer` too.  An FD_SET with the socket -1 writes outside the set (`FdSet`).

The network.  A socket read takes all that is there and fits.  A socket write takes
any number of bytes from one on, or none if `WriteBlocks`.  The server sends what it
likes (`PeerMaySend`), except that it is silent between accepting SSL and the
handshake, as the client must speak first.  Errors of the socket SWIs, of
`Socket_Select` and event 3 occur if `Losses`; failing registrations if
`RegisterMayFail`; the clock runs out at any test of it if `Expires`.

### Connection

One session.  `status` and `flags` are the sets of the names of the bits; `socket`
and `ssl` say whether there is a socket and an SSL context, `watched` whether the
socket is in `connected`, `alive` whether the TCP connection stands, `handles` how
many contexts are not given back, `unanswered` how many greetings the server has
not answered.

`socketUpdate` is a process.  Its place `pc` is the stage it is in, before the call to
another module (resolver, Internet, SecureSockets), or a place behind the call:

| `pc` | in socket.c |
|---|---|
| a bit of `Setup` | the stage of that bit, up to its call |
| joined | `socketConnect` after `Socket_Connect` |
| createdSSL, connectedSSL | after `Secure_Connect` and `Secure_PollConnect`, with their `answer` |
| greet | before `telnetSendNegotiation` |
| aborted | an assertion has failed |

Between two places event 3 (`PeerBreaks`) may close the socket; an event for a socket
that is not in `connected` is ignored.  FIOASYNC and the FD_SET behind it are one
step, for events count only from the FD_SET on.  Each call has all its outcomes:
done, not yet, failed, and for `socketCreate` failed with or without a socket.
`JoinFails` and its like follow the code's order of setting bits and returning.
The test for RAW in `socketConnect` is modelled as it stands, on the status
(`Join`), where the bit of that number is CONNECTING.  `Open` is `sessionCreate` and the
first `socketUpdate`, which destroys the session on an error; a failing
`sessionCreate` changes nothing.  What the callback handler does to a connected
session is reduced to `Data`, `Accept` and `HandlerCloses`; the details are in
`Vectors`.  Of the greeting only that it is sent is kept, and LOCAL_ECHO is left out.

`phase` maps a session to the phases of `Lifecycle`, the table above read off the
bits.  CONNECTED is looked at first, because the SWIs that move bytes look at nothing
else (`swis.c:224`, `291`): a session with FINISHED and CONNECTED is "revived", not
finished.  "losing" is one whose socket event 3 closes in the middle of a call of
SecureSockets, and the only one that can be revived.  `HasLife` says that only the steps of
`Lifecycle` occur; this is what entitles `Vectors` to treat the set-up as one step of `phase`
(its `OpenSession` and `Connect`) and an SSL stage as two (`SecureCall`, `SecureDone`).
`Vectors` follows sessions whose set-up does not fail; a session that fails moves no byte.

### Telnet

One session, on bytes.  `net` is what the server has sent and has not arrived, `work`,
`read` and `write` the three buffers, `wp` is `workProcessed`, an unsigned number with
`Word` values.  One step is one round of the loop of `telnetWork`, in which one message
is taken apart: a data byte, a line end, a command, an option, a subnegotiation with
the loops over its pairs.  `LoopEnd` and `WorkTail` are what follows the loop: the drain
and the question whether a callback is needed.  `due` says that one will come.  The
handler works on the session (`Begin`) or passes over it (`PassOver`): its slice is used up by
another socket, or the session is not CONNECTED.  Having cleared its reason before, it does
not come again for what is left, and only the arrival of more bytes calls it.  Between
two steps bytes arrive in pieces of any size, the application reads and writes, the
network takes what is in the write buffer.

`shown` and `answers` are histories of what the application and the server were given.
`sent` is the history of the server's messages, `stream` of their bytes and `dialogue` of
what they mean and what is to be answered, by the protocol and not by the code.  Some messages `telnetWork` gets
wrong in itself (section 4): `slips` records that one of them has come, and the
properties are stated for the runs without.  The server sends its messages whenever it
likes, behind its acceptance of SSL too: they may stand in the work buffer behind it, where
the loop (`telnet.c:76`) and the handler (`vectors.c:209`) have to leave them
(`BehindAccept`), or on the network, where the handshake may take them (`Secured`, the slip
"early").

### Sessions

`slot` is the array `sessions[]`, with ID, socket, status and blocks; `memory` holds the
blocks malloc'ed and not freed, each named for its session and its part; `open` is what
the Internet module has open, `connected` the fd_set, `given` the IDs the application
has been told.  SETUP stands for the bits of the stages.  `OpenFails` lets any of the
allocations of `sessionCreate` fail.

`sessionDestroy` is split at its places: idle, unwatched (the socket taken out of the
fd_set), closed, freed, wiped (`memset` to zero, line 165), and the end where ID and socket
become -1.  Events and the handler may come between any two.  A wiped slot has the ID 0
and the socket 0, which may be those of another session: `misled` records that an event
for number 0 was taken by it, the one case `OwnerFound` and `AllAccounted` except.
`finalise` is one step, as the events are released first.  An `initialise` that fails, and
the callback that may still be registered when the module goes, are left out.

### JPEGSource and JPEGDecode

A file is a sequence of bytes; `memory`, `next` and `bytesInBuffer` are the source's
buffer, `pos` is the place in the file, `skipBytes` and `completed` as in the code, and
`cursor` counts what the decoder has taken.  `SourceSpec` lets a user take any number
of the bytes and skip any of `Skips`, and calls `JPEGsrcmanGetInput` at any time.

`JPEGDecode` puts the decoder in the user's place.  Its files are made of segments: `H` or
`P`, all up to the frame of a picture of one or several scans; `M` and a letter, a marker
with a segment to skip, the start of a scan, or the end; `r` and `s`, a row.
`info` is the record JPEGInfo, `cinfo` the library's object (API state, which scan and
row is read and which is shown), `pc` the call of `JV_DecodeWork` that is being made,
`ret` what it gave, `failed` why the program ended.  The library's marker reader, input
controller, coefficient controller and the guards on its API state are translated as
far as this program reaches them.

Abstractions: a segment to skip has a byte at least (`skip_variable` passes by an empty one
without the source); one line is one iMCU row; what the rows contain is left out, and whether the
library smooths a scan is not determined; restart markers and table segments are left out,
as are USE_HEAP, quantiser passes and a suspension in `jpeg_start_decompress`, which do not
occur with the parameters used.  The file can be opened, and `fread` is short only at the end
of the file.

`Whole` says which files the promises for whole files are about: nothing but a marker
begins with the byte of a marker (`MarkerIn`), a segment or scan is followed by another marker
not before it is over (`Follows`, `WellFormed`), behind the end of the image there is no
marker, and there is a scan, just one where the frame says so.  What stands between two scans
must fit the buffer (`Fits`), because `jpeg_finish_output` is called once and its FALSE is
ignored (section 4).  `Single` and `Several` of `MCJPEG`, with or without bytes behind
them, are such files; nothing is assumed of `Files`, and the source and `ShownToEnd`
are about any.

### VNCInput

A byte is a pair of its message and its place in it.  `memBuffer` is the list of buffers,
`wire` what the socket holds, `server` what the server waits for and has still to say;
`flags`, `networkStatus` and `socket` are the program's.  `socketReadData` is a process of
its own (`reading`, `left`, `got`), for it loops until it has what it needs.  The server may
stop anywhere (`gone`).  `windows`, `config` and `pollword` are the windows and the words
shared with the support module; `pc` is where the handler of one pollword event is: mouse,
press, release, edge, up.

`strayed` records cases the program does not heed: a password entered when none is asked
for, no memory or an empty name at the end of the handshake, INITIALISED set on a closed
connection, input sent before the server serves.  `InStep` and `HandshakeEnds` are about
the runs without; `WatchesWindow` and the types hold of all.  The main window has no close
icon; the close icon of the password window acts as Escape.  The pollword's bits are set
between the events of the desktop only.  A failing malloc in `socketFillBuffers`, quitting,
a change of the screen mode and DES are left out.

### CDPlay

`disc`, `audio`, `head` and `until` are the drive: which disc, what `CD_AudioStatus` says,
the track at the head, and whether it plays to the end of the track or of the disc.  It
goes on by itself (`Advance`) even between two calls of the program, and at its own
buttons (`Panel`, `ChangeDisc`).  The rest are the program's variables: `stopped`, the bits
`driveEmpty`, `newCD`, `playOverride`, `pause`, the disc that is `listed` (`CDDiscID`, `minTrack`,
`maxTrack`), `currentTrack`, the `mode`, the program and `memoryItems`, `memoryPosition`.

`CDUpdateDiscInfo` calls `CDCheckCD`, which may call `CDGenerateTrackList`, `buttonsNext`
or `CDPlayTrack`, and each of these `CDUpdateDiscInfo` or `CDCheckCD` again.  `calls` is
the stack of what is still to be done, the innermost first; one step is the part of a
procedure up to its next call (`Update`, `Redraw`, `Generate`, `Check`, `StatusBusy`,
`StatusEnded`, `Checked`, `Play`, `Played`, `NextTrack`).  A click is the code up to its call.

A position is the track it lies in, times are left out; `startOfNextTrack` is a track, -1,
or 0 for a place on no known track, of which the comparison with the head may have
either result.  `label` is whether the window says "Drive Empty", which
`CDCheckIfEmpty` reads back.  Whether a click on a track number plays it or adds it to
the program is left open (programMode).  `silenced` and `stale` are histories: nobody has
started the disc since it was stopped; the drive has changed since its answer was used.
`DrawAgain` is the loop of `buttonsNext` that draws until it is another track.

## 4. Runs

| Run | What it asks | Result |
|---|---|---|
| buffer | Do all operations, with amounts up to and beyond the size, make the buffer a queue? | holds |
| control | Two sockets, everything can fail: do fd_sets, sockets and left-over work agree, and do ended sessions stay quiet, but for those that an SSL call revives? | holds |
| flow | One echoing connection that may break, buffers that fill, a slice that runs out, SSL accepted with bytes queued, events in the middle of a registration: are the data in order and once, does the flag stand for a call to come, is no reason forgotten, nothing passed before SSL stands, and does an assertion fail only for a session lost just then? | holds |
| share | Are two connections that share the callback both worked on, and is what waits in a write buffer sent? | holds |
| slice | Does unfinished work keep its callback when the slice runs out between two sockets? | violated |
| setup | A session of any flags, everything can fail, block or break: is SSL forced or optional as asked, one greeting, events seen, the end of a connection final but in an SSL call, and does no session stay in a stage? | holds |
| telnet | Any two messages of 17 kinds, cut anywhere, against buffers that fill, telnet and RAW: are they decoded and answered once, left alone behind an acceptance of SSL, and worked on in the end unless the handler passes over the session for good? | holds |
| line | Does a line end that meets a full read buffer become one character? | violated |
| sessions | Opens that fail anywhere, closes and events between any two steps of a destroy, the module going and coming: does each event find its owner, and is everything given back? | holds |
| jpeg | Files of one to four scans, whole or cut anywhere, through a buffer smaller than some segments, the time running out anywhere: are the bytes given in order, whole files shown whole, and does every load end whose decoder can see the end of the file? | holds |
| vnc | Connections whose messages come in any pieces, servers that stop anywhere, with mouse, keys, passwords and disconnections: does the handshake keep in step and end, and are mouse and keyboard given back? | holds |
| cdplay | A user, the drive's own buttons and changed discs: does the window follow the drive, does a stopped disc stay stopped, and is the next track played? | holds |

The two violated ones are disagreements between the code and its own comments;
`findings` in `PROJECT.json` quotes them.

### What goes wrong and has no run

Building the models showed more.  Each of these is in the code as it stands, and in the
models unless it says otherwise; the properties above are stated beside them.

BTTelnet, callbacks and sockets:

- `socketRead` and `socketWrite` assert CONNECTED, which event 3 can clear between the
  handler's test and the call (`vectors.c:147`, `socket.c:746`, `660`); `AbortsNeedLoss` says
  that there is no other way to fail;
- event 3 in the middle of `Secure_Connect` or `Secure_PollConnect` closes the session, which
  is given CONNECTED behind the call (`socket.c:331`, `586`, `616`) and has its buffers read and
  filled by the application, without a socket, until it is closed (`EndedStaysEnded` and
  `HasLife` name this way and exclude any other);
- an event between the SWI that registers the handler and the setting of `callbackWaiting`
  registers it twice (`vectors.c:63`, `90`; `CallbackFlag` excludes any other way); the second
  call finds nothing to do, or is turned away;
- a session passed over by the work callback, for its slice is over or SSL is being set up, is
  not called again until more bytes come (`vectors.c:201`, `207`, `209`);
- nothing arms the write callback for the greeting (`telnet.c:857`);
- a full work buffer takes the socket out of `reading`, and the only FD_SET that would
  bring it back is behind a successful read (`socket.c:755`, `803`);
- EWOULDBLOCK, or a socket found not writable, leaves data without a callback
  (`socket.c:687`, `vectors.c:179`);
- data, or event 3, between `Socket_Connect` and the FD_SET is not noticed
  (`socket.c:513`, `487`);
- FD_SET(-1) after event 3 in the middle of `telnetWork` or of an SSL stage that then
  fails without FORCE_SSL (`telnet.c:231`, `socket.c:586`);
- the SSL context of a handshake that fails, or is closed meanwhile, is not given back
  (`socket.c:368`);
- RAW is looked for in the status word, so a raw session is greeted (`socket.c:501`);
- a failing set-up sets none of the bits `BTT_api.h:50` lists (`socket.c:66`, `266`, `303`);
- `sessionInitialise` reports success when the array could not be allocated
  (`sessions.c:273`); a callback may be outstanding when the module goes (`main.c:146`);
  both are left out of `Sessions`.  `initialise` leaves the sessions allocated if the
  events cannot be claimed (`main.c:124`).

BTTelnet, telnet: a locally echoed byte waits in the read buffer without INCOMING
(`telnet.c:825`); CR NUL is not recognised, as the byte tested is the CR itself (`telnet.c:124`); an unknown subnegotiation is
skipped three bytes at a time (`telnet.c:502`); an unknown AUTH or TERMINAL-TYPE subcommand
is tried again for ever (`telnet.c:479`); odd pairs and replies of another type than SSL run past
their end (`telnet.c:719`, `619`, `752`); a message longer than half the work
buffer may never come in whole (without `RoomToDrain` in `AllWorkedOn`); a typed 255 is not doubled; a second greeting clears
LOCAL_ECHO.

BTTelnet, front end (not modelled): the loop that sends a line adds up what was sent and
subtracts the sum from the rest each time (`process.c:211`), so after two partial writes bytes
are left out; a negative result of reading is an endless loop (`process.c:89`); the
loop that waits for the connection never looks at FINISHED (`main.c:241`).

!JPEGView: the final scan of a picture whose number of scans is not one more than a
multiple of three does not start if the end of the file is not seen with the image, for
which as much as a buffer must follow it: START and SKIP call each other for ever
(`JPEGdecode.c:652`; `Trailing` has such files, and `LoadEnds` excludes them by
`EndInSight`); `jpeg_finish_output`'s FALSE is ignored
(`JPEGdecode.c:771`, `jdapistd.c:248`), so that a file cut off between two scans ends the
program, and so does one with more than a buffer between them (without `Fits` in `Whole`,
and with `Short` 6 for `MaxSize` 10, TLC finds `WholeFilesShown` violated with "bad
state"); a file cut within the header of a scan does the same.

!VNCInput: the password window stays when the connection goes (`Buttons.c:148`), Escape in it
does not close the connection (`Buttons.c:152`, other than `!Help` says); INITIALISED is set
after a close (`VNC.c:362`); edge detection stays on (`VNC.c:371`); an empty name leaves the
client uninitialised (`VNC.c:341`); `VNCSocket` starts as 0, and quitting closes it;
`socketGenerate` keeps the socket if `disableNagle` fails (`Sockets.c:80`); bits of the pollword
are lost and key numbers ORed (`Main.c:54`, not in the model); the loop of `socketReadData`
does not end if the server stops (`Sockets.c:292`).

!CDPlay:

- a place kept in `startOfNextTrack` is compared with a head that is on another track by then,
  which cuts that track short (`CDBitz.c:225`);
- on a disc with a data track, while the window is open, `CDUpdateDiscInfo` sets
  `currentTrack` back to the track that has ended, and the data track behind it is tried at
  each null event for ever: neither played nor stopped (`CDBitz.c:295`, `386`).  `Playable`
  leaves such discs out except in memory mode;
- whether the disc may begin again is decided by `track > minTrack` (`CDBitz.c:323`): with a data
  track in front the disc repeats although autoRepeat is off, and a program that comes to track 1
  stops there; a program that ends leaves `memoryPosition` at 1, and Play goes on at 2;
- random with one track, or none, loops for ever (`Buttons.c:409`);
- `CDCheckIfEmpty` clears the program but not `memoryItems`, and `listingGetProgramTrack` then
  reads through a null pointer (`Listing.c:390`; in the model, any track);
- with autoDetect off a disc that was changed while the window was closed is not noticed; if
  autoRepeat is on and the drive refuses a track that the new disc has not, `CDPlayTrack` and
  `CDCheckCD` call one another without end.  The run has no such choice of options: it has
  autoPlay with autoDetect, autoPlay alone and autoRepeat with autoDetect.

### Bounds

`Sockets` has one or two members in the runs of `Vectors`: sockets interact only through the
shared reasons, registration and scan order, for which two suffice.  Buffers hold
one or two items, so that full, half full and empty all occur; in flow the work
buffer has two, so that a drain may leave something behind.  `InMax` is how much the
network holds.  `MaxSurplus` is how many calls may be registered beside the one
`callbackWaiting` stands for: one in flow, which shows that it comes about and what becomes of
it, none in the others.  `ForceSSL` lets sessions begin with SSL; share has no SSL sessions
and no losses, slices or refusals, as it asks what is scheduled when nothing hinders it.  `Greeting` is one item, or none in share, because the greeting is known
not to arm the callback.  One kind of data byte is enough except in flow, where two show a
byte out of order.  `MaxHandles` is two, a context in use and one that was not given back.
In the buffer run the memory has three bytes, chunks up to four, amounts up to five.

Telnet: the server sends any two messages (`MaxSent`) of 17 kinds; the read buffer holds one
byte, so that it is nearly always full; the write buffer 13, the longest answer, so that any
byte in it keeps an answer out; the work buffer 20, two of the longest message; `Word`
64, more than any of them.  Sessions: two slots, so that all can be in use, three socket
numbers with 0 among them, IDs to three.  JPEG: `MaxSize` is 10 for 96 KB, with one
segment longer (`Long`) and one much shorter; two rows, up to four scans (START, the two that are
skipped, and the next shown), three to fourteen bytes behind the image, less than the buffer
and more, and every prefix of two of the files.  VNC: messages of two or three bytes, so that each can be cut; two connections, so that
one is made behind another.  CDPlay: a disc of two music tracks and one of data, a program
of one track, and three sets of options; the drive moves within an event as long as at
most `MaxCalls` calls are open.  Positions
finer than tracks are not needed, as the code compares them with starts of tracks only.

The properties proved below hold without the bounds.

### Deadlock

In control and setup an assertion that fails with nothing else to come stops the program,
which `abort` does.  In telnet and line the server has sent its messages and all is done.
In these deadlock is not checked; in all others it is.

### Fairness

- *Vectors*: RISC OS calls what is registered with it (weak fairness of `Dispatch`), and the
  handler and the SWIs run to their end (weak fairness of `Handler`, `RaiseFlag` and
  `SecureDone`).  The application reads when it is
  told there is something to read; it is strong fairness because the handler interrupts
  it, and justified because a callback the handler registers for itself is a callafter of
  two centiseconds, in which the application runs.  Nothing is assumed of the network or
  of what the application writes.
- *Connection*: `socketUpdate` runs to its end, the application polls the status of a
  session in a stage, as the front end does, and the resolver, the server and the handshake
  do not answer "not yet" for ever: without this last a set-up cannot be expected to end,
  since the code has no timeout of its own.
- *Telnet*: the handler comes when it is due, be it to pass over the session (weak fairness
  of `Begin \/ PassOver`; `AllWorkedOn` asks only of sessions not passed over for good), the
  parts of `telnetWork` go on and SSL is set up (weak fairness); what was sent
  arrives, the network takes what waits, the application reads, and a round of the loop is
  made: strong, because each of these is interrupted by the others again and again.
- *JPEGDecode*: null events go on, and each, if not always, leaves the time for a line or a round
  of the loop that skips (strong fairness of `ScanLine` and `SkipMore`).
- *VNCInput*: the program is given its events, null events between others; what the server
  has said arrives, unless it is gone.
- *CDPlay*: a program that has the processor goes on, and null events come between the
  clicks (strong fairness of `NullEvent`).  The drive need not do anything.
- *Sessions* and *Buffer*: none.

## 5. What is proved

`BufferProofs`, for any size, byte type, chunks and amounts:

- `BufferTypeCorrect`, `BufferStaysLinear`: both follow from their conjunction, which is
  inductive.  A write is inside the memory because it begins at `used` and is
  clamped to what is free.
- `BufferIsFifo`: the buffer implements `BoundedFifo`.  Linearity turns the contents into
  the cells below `used`; then each operation is a put, a take or a peek.

`VectorsProofs`, for any set of sockets, any sizes and any of the switches, from the
assumptions named in `Vectors`:

- `VectorsCallbackFlag`: `FlagOK` says where the flag stands for what: up, or about to be,
  while no handler is active, only with a call to come; about to be only behind one of the
  registrations; still up at the end of the handler only by an event, whose call is then to
  come.  `Surplus`, the calls to come less the one the flag stands for, grows by an event
  that falls between a registration and its flag and by no other step.
- `VectorsNoForgottenReason`: strengthened to `Noted`, which holds in an SSL call too;
  inductive together with `FlagOK`.
- `VectorsFdSetsOpen`: needs the invariant `CurOK`, that the session a socket function
  or `telnetWork` is busy with was connected and can only have been ended since.
- `VectorsTypeCorrect`: needs besides that what `Socket_Read` stored fits the work
  buffer (`GotOK`), although an event may end the session in between.
- `VectorsEndedStaysEnded`: from the same invariant, step by step; `SecureDone` is the one
  step that leads back from the end, and only in the place `secure` with the session that was
  called for.  A revived session is in no fd_set, so no step of the handler touches it.
- `VectorsWorkMarked`: strengthened by "a free session has nothing left over"; with
  `VectorsFdSetsOpen` it gives `VectorsSetsAgree`.
- `VectorsAbortsNeedLoss`: the assertions of the socket functions fail only for a session that
  was lost after the handler had found it connected.  `LostSince` says that a lost session is
  finished or revived, never connected, and that the session a socket function is called for
  is connected or finished and lost: with the test before the call, the loss is between.
- `VectorsQuietWhileSecuring`: each action that moves a byte of a session needs it connected,
  step by step under the same invariant.
- `VectorsIsPipe`: the module implements `Pipe`, each connection for itself.  `Payload`, the
  data among the items, is defined by recursion; what an item at either end of a sequence
  adds to it is proved by induction through a least counterexample.  `Fresh` (bytes are on
  their way only between the two halves of `socketRead`, a free session has none) makes what is
  unread the rest of the work buffer and what the network holds.  Then each action is one
  step of the pipe or none: an item that arrives is a `Send` or a command, a round of
  `telnetWork` a `Deliver` of one byte or a command taken out, `BTTelnet_Read` a `HandOver`, an
  echo an `EchoByte`, every way to close a `Cut`; reading, draining and all else
  only move the border between network and work buffer.

`ConnectionProofs`, for any bound on the contexts and with or without losses:

- The inductive invariant `IInv` has four parts: `Numbers` (counts, a watched socket
  exists, an SSL context is counted), `Typed`, `Staged` (the bits at each place of
  `socketUpdate`: none is set between the clearing of one stage and the setting of the
  next; before the connection stands the socket is not watched, so no event can end
  it) and `Promised`, the properties themselves.  The promises are not inductive alone:
  what a step behind an SSL call may conclude depends on what `Staged` says of the place.
- `ConnectionTypeCorrect`, `ConnectionSslAsAsked`, `ConnectionOneStage`,
  `ConnectionNegotiationTrue` and `ConnectionEventsSeen` follow from it.
- `ConnectionHasLife`: the set-up implements `Lifecycle`, by one step per action under
  the same invariant.  That a session is revived from "losing" only rests on `Staged`:
  elsewhere no stage that sets CONNECTED meets FINISHED.

`TelnetProofs`, for any kinds and number of messages, sizes and words:

- `IInv` is `TypeOK`, `Position` and `RawClean` (a RAW session meets no slip and stays
  connected).  `Position` says where the counter and the end of
  the work buffer stand in the stream of the messages sent: that the counter stands at
  the start of a message is what keeps the loops over pairs, which test no end, inside it.
- `TelnetTypeCorrect` and `TelnetCounterInBuffer` follow.
- `TelnetBehindAccept`: from `IInv`, step by step; the tail of `telnetWork` may still drain the
  buffer, of which it gives back only what has been worked on (`TailUnworked`).
- `TelnetDecoded`, `TelnetAnswered` need to know which message stands at the
  counter.  `ServerOK` and `Ledger` say that the messages follow one another in the stream, and the
  states of the dialogue from one another.  `Stands(j)` says that the messages up to j are worked
  on, their bytes shown and their answers given, and the rest of the stream is what is
  pending.  Then the next message is the one in front (`Facing`), and a round either does all
  that this message asks (`Worked`) or leaves everything as it is because the message is not
  whole or its answer has no room (`Waits`): one lemma for each kind of message.  Where the
  session is not connected the message worked on last is an acceptance of SSL, and what
  stands behind it waits.  A rubout clears
  NEGOTIATING by itself, hence the two forms of `Greets`.

`SessionsProofs`, for any slots, socket numbers and IDs:

- `IInv` is `VariablesOK` and, until `misled`, `Owned`: five parts that say what the
  table holds while the module is loaded, what the slot being destroyed still holds
  at each place, and that sockets, IDs and memory belong to one slot each
  (`LoadedOK`, `VictimOK`, `SocketsOwned`, `IDsOwned`, `MemoryOwned`).  One lemma per action.
- `SessionsTypeCorrect`, `SessionsOwnerFound` and `SessionsAllAccounted` follow.

`JPEGProofs`, of the source for any files, buffer size and skips, and any user:

- `IInv` is the type, `Balance` (what was taken, what is there and what is to be skipped add
  up to the place in the file), `FromFile` and `FromMarker` (which byte of the buffer is
  which of the file, or of a marker).
- `SourceTypeCorrect`, `SourceInOrder`, `SourceEndMarked` and `SourceGivesFile` follow.

and of the decoder:

- `DecoderUsesSource`: it implements `SourceSpec`.  That it skips only when the last skip is done
  needs `LengthFresh`, that a length was read from bytes of the buffer.
  `DecoderReadsInOrder` then follows from the theorems about the source.
- `DecoderTypeCorrect`, `DecoderShowsToEnd`: `DInv` says of each call of `JV_DecodeWork` what the
  status and the library's state are there (`PlacesOK`, `Staged`, `NotBegun`), that a row is
  read or a line given only while one is missing (`Within`), and that the final scan is begun
  only at the end of the image, behind which no other scan comes, and the picture closed only
  with all its lines out (`AllShown`).  `DecoderShowsToEnd` is what `ShownWhole` says apart from the
  contents of the file.
- `DecoderShowsFiles`, `DecoderShowsWhole`: `WholeFilesShown` and all of `ShownWhole`, for any
  files, any buffer of four bytes or more, any number of rows, and segments of any length above
  0 (`SegmentsAssumption`).  `GInv` speaks of whole files.
  `Placed` says at which byte of the grammar the library is: within which row of which
  scan, between segments with a marker still to come, behind the letter of a marker, or
  behind its length.  That is what makes the byte it reads the one it takes it for: a row
  is never cut short, a letter is never another.  `Counted`: the scans it has counted are the
  ones in front of the cursor, so at the end of the image all of them.  `Stated` gives the
  state of the library's object at each stage, `Answers` what an answer says of the place.
  These are not enough for `jpeg_finish_output`, which must not suspend: `Given` says that while
  a scan is shown nothing of the next has been read but its beginning, `BehindRows` that the
  library then stands directly behind the rows, and `Stocked` that the buffer, filled
  once more before `jpeg_finish_output`, goes as far as the marker it reads up to (from `Fits` and
  `GetInputFills`: after a refill the buffer is full or the file has ended).  One lemma
  per action, for the library's and for `JV_DecodeWork`'s.

`VNCInputProofs`, for messages, names and connections of any length and number:

- `VNCWatchesWindow`: inductive by itself, one step per action.
- `VNCTypeCorrect`: what is read fits the room the caller has, and the offset into the first
  buffer stays within it.
- `VNCInStep`: `SInv` is the type with `Owned` (without a connection nothing is left of
  one, and CONNECTED is the program's own socket) and `Facing`, which puts `InStep` also into the
  middle of `socketReadData`: what has been copied, with what is in the buffers, on the wire
  and still to be said, is what the stage expects, and the stage being read is the one that is
  due.  That the list of buffers is one sequence, whichever way it is cut, is proved by
  induction over the list.

`CDPlayProofs`, for any discs of which one is the longest (`DiscsAssumption`, as the drive names
tracks by numbers), any choices, programs and depth of calls:

- `IInv` adds to the types: `Stack` (only `redraw`, `status`, `checked` and `played` are ever left
  waiting for a call to return), `Overriding` (the override bit is set for one call only, and
  nothing is asked of the drive before it is cleared), `Sounding` (only audio tracks play),
  `Silence` and `Heeded` (the window agrees with the answer used last, or the drive is still
  to be asked in this event).
- `CDPlayTypeCorrect`, `CDPlayStaysStopped` and `CDPlayFollowsDrive` follow.

The strengthened invariants of `CDPlay`, `Telnet`, `VNCInput` and `JPEGDecode` were checked by TLC on the
instances of section 4 before they were proved.  Where a definition runs over a sequence by recursion, what it does is proved by
induction over the length, through the least number of a set of counterexamples (`WFMin`
of the library), since the theorems that take an operator cannot be used with these provers.

Only model-checked is liveness (`HandshakeEnds`, `LoadEnds`, `SetupEnds`, `AllWorkedOn`,
`WorkProceeds`, `OutgoingSent`, `PlayedOn`), as the prover has neither ENABLED nor fairness.
Every invariant and every action property that a passing run checks is stated by a
theorem.

## 6. Not modelled

- **Most of the lines.**  Of some 59 thousand lines of code the larger part is the vendored
  libjpeg, whose transforms, tables and memory manager have no state this program could
  get wrong; a second copy of !JPEGView and !CDPlay under `RISCOS/`; and user interfaces.
  What is modelled is the part of the repository that keeps state over events.
- **libjpeg**: only the control of its suspending input.
- **!JPEGView's heap**: calls of a module outside the repository, one SWI each.
- **!CDPlay**: the track lists and their file, volume, time display, menus, choices; that the
  drive's SWIs fail except in playing a track it has not; discs that do not begin with track 1.
- **BTTelnet**: the circular branches of `buffer.c`, which no caller creates; argument
  checks of the SWIs; `BTTelnet_Configure`, which does nothing; the front end.
- Formatting, debug output and the Wimp user interfaces; DES; MouseKey, WebPages and the CD
  listing data.
