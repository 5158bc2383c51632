# Tipsy in TLA+

The repository holds two programs. Tipsy is an Android app: an account, a community
feed with pictures, likes and comments, a chat, a drinking diary and a map. It is
written in Java against Firebase (Authentication, Firestore, Storage, Realtime
Database). Almost every handler starts an asynchronous call and goes on in a callback,
and almost none of those callbacks is tied to the activity that registered it. What is
hard there is the order in which taps, callbacks, snapshots, activity changes and
process deaths come.

Beside it, under `cpp`, are the Opus tools in C: a decoder, an encoder with its readers
of audio files, a sender and recorder of RTP, a checker of Ogg files, and the resampler
they use. `CMakeLists.txt` names them as the native library of the app; the Java code
loads no library, so that for now they are the command-line tools their `main` functions
make of them. What is hard there is arithmetic over streams that come in pieces: the
boundaries between buffers, blocks, pages, packets and links, reconfiguration in the
middle of a stream, lengths that a header claims, and a network.

Java paths below are relative to `src/app/src/main/java/com/example/tipsy/`, C paths to
`src/app/src/main/cpp/opus/`. Text, layout, toasts and logging are left out everywhere.

## 1. Inventory

### The app

| Component | State it keeps | Operations | Talks to | Hard behaviour | Correct means |
|---|---|---|---|---|---|
| Post editor (`NewPostActivity`) | `postImageUri`, `compressedImageFile`, text, progress bar, `current_user_id` | pick, write, publish | Storage (two uploads), Firestore `Posts`, opens the feed | three chained uploads, unscoped callbacks, button never disabled, exceptions inside callbacks, process death with documents queued on disk | a visible post is complete and shows what the user saw; the progress bar tells the truth; a click comes to an end |
| Community feed (`HomeCommunity`) | `blog_list`, `lastVisible`, `isFirstPageFirstLoad`, registered listeners | first page, load more, start, stop | Firestore queries over `Posts`, its local cache | several live listeners on one list, pages from the cache, bursts of posts, listeners removed in onStop | every post once, none missing, newest first, the newest gets there |
| Session (`LoginActivity`, `Signinactivity`, `FindActivity`, `MainActivity`, `ProfileActivity`, and the user checks of the others) | the current user, the back stack, uids kept in fields | sign in, sign up, reset, log out, delete account, open and leave screens | Firebase Auth, `Users` | the user changes under screens that stay on the back stack; handlers that answer for a screen which is gone | no screen acts for someone who is not signed in; nobody posts without a profile |
| Profile setup (`SetupActivity`) | picture, name, `isChanged`, `user_id` | load, pick, save | Storage `profile_images`, Firestore `Users` | load answers late, two saves, no scoping | the saved profile is what the form showed |
| Likes and feed rows (`BlogRecyclerAdapter`) | row views, counters, heart | like toggle, count, user data | `Posts/<id>/Likes`, `Comments`, `Users` | read-then-write toggle, listeners per binding that are never removed | one like per user and post; the heart tells the truth |
| Comments (`CommentsActivity`, `CommentsRecyclerAdapter`) | the list, the draft | send, list | `Posts/<id>/Comments` | the acknowledgement clears the draft | no comment is lost or sent twice |
| Chat (`StartActivity`, `ChatActivity`, `AChatActivity`) | room list, message list | open a room, send, list | Realtime Database `chat` | local echo of writes that are later refused | the screen ends up with what the database has |
| Drinking record (`DrinkRecordActivity`, `AvgActivity`) | one file a day, one file a month | pick a day, save, sum a month | private files | several files per save, a file name in two places, numbers parsed from text | the month shows the sum of the days |
| Map (`MapActivity`, `PlaceInfo`) | markers | search an address | geocoder, Naver map | geocoder failures | - |
| Calendar decorators, data classes, unused list adapter | - | - | - | none | - |

How they interact: `LoginActivity` is the launcher and hands over to
`MainActivity`, from which all the others are opened. They share three things:
the current Firebase user, the Firestore collections (`NewPostActivity` writes
`Posts`, `HomeCommunity` reads them, `SetupActivity` writes `Users`, on which
`HomeCommunity` decides whether a user may stay), and the back stack.

### The Opus tools

| Component | State it keeps | Operations | Talks to | Hard behaviour | Correct means |
|---|---|---|---|---|---|
| Resampler (`resample.c`) | `SpeexResamplerState`: ratio, quality, filter length, memory of all channels in one array, position, fraction and magic samples of each | init, process (float and int), set rate, set quality, skip zeros, reset | `opusdec` | reconfiguration between any two calls, with what is left of an earlier one; refused allocations; channels treated one by one | an output sample sees the samples it should; one stream of positions; a call ends |
| Decoder (`opusdec.c`, `wav_io.c`) | link, samples read, samples put out, resampler, header of the output | open, read, write, drain, patch the header | libopusfile, the resampler, a file or sound device | chained links of several rates and channels, half a filter of delay, writes that take less | the output has the exact length, one format and a true header |
| Readers (`audio-in.c`, `flac.c`) | `wavfile`, `flacfile`: lengths, bytes read, the block of the FLAC decoder; the down-mixer on top | identify, find chunks, read headers, read samples, close | files, libFLAC | false lengths, chunks in another order, odd lengths, blocks that do not fit frames | what the encoder gets is what the file has |
| Encoder (`opusenc.c`) | options, statistics, range file | choose, mix down, configure, encode, drain, close | the readers, libopusenc with its callback, the packet parser | settings that fit some channels only; a reader replaced by another | the source is encoded once; everything opened is closed |
| Packet parser (`diag_range.c`) | none | parse a packet, print the sizes of its frames | `opusenc`, `opusrtp` | four layouts, padding, self-delimited streams, lengths of one or two bytes | the sizes are those the encoder wrote |
| RTP (`opusrtp.c`) | sender: sequence number, time slot, headers; recorder: port and type chosen, last number, position | send files in time, capture, extract | libogg, libpcap, sockets, clock | loss, repetition, overtaking, wrap of numbers, late wake-ups, being killed | recorded in order, at the right position; sent in time |
| Stream checker (`opusinfo.c`, `info_opus.c`, `opus_header.c`) | the set of streams, for each numbers, flags, positions and sums | read pages, start, check and end streams | libogg | several streams at once and in a row, streams joined late or trimmed, damaged files | what is sound is reported, what is damaged is warned of |
| `picture.c`, `wave_out.c`, macros (`stack_alloc.h`, `arch.h`, `cpusupport.h`), `resample_sse.h` | - | - | - | - | - |

The tools share code and no state: `opusdec` owns its resampler, `opusenc` its reader, and
both ends of `opusrtp` are processes of their own, with a network between them.

The complete list of what can go wrong, line by line, is under "hazards" in
`PROJECT.json`. The tests of the repository are the templates of Android Studio
and say nothing about either program.

## 2. The modules

    PostBoard      what publishing promises          (abstract)
      ^ implemented by
    NewPost        the editor and the chain of uploads     NewPostProof
    Feed           the list and its listeners              FeedProof
    Session        users, screens and calls                SessionProof
    Likes          the heart under a post                  FeedProof
    Diary          what a diary promises             (abstract)
      ^ implemented by
    DrinkRecord    the files of dates and months           DrinkRecordProof

    ResampledStream   what resampling promises       (abstract)
      ^ implemented by
    Resampler      counters, memory and reconfiguration    ResamplerProof
    OpusDec        the decoder, which relies on that promise   OpusDecProof
    AudioIn        the readers
    OpusPacket     the inside of a packet (operators only)
      ^ both extended by
    OpusEnc        the encoder                             OpusEncProof
    OpusRtp        sender, network and recorder            OpusRtpProof
    OpusHeaders    the two header packets (operators only)
      ^ extended by
    OpusInfo       the checker                             OpusEncProof
    MC...          instances for TLC, one for each module with a run

The module on the right of a line extends the one on the left and holds the theorems about it.
`FeedProof` extends both `Feed` and `Likes`, and `OpusEncProof` both `OpusEnc` and `OpusInfo`: the two
share no state, and each has theorems about its own specification.

The components of the app share the current user and the Firestore collections, but no step
of one reads a variable of another: `Session` composes the screens, with what each
of them keeps of the user; the other modules take one screen and go into it. `OpusEnc`
composes the readers, the encoder and the packet parser; `OpusRtp` the sender, the network
and the recorder. `OpusDec` knows the resampler by the promise that `Resampler` is shown to keep.

### NewPost (`NewPostActivity.java`)

`editor[e]` is one activity instance: `hasText` (the text field, of which the
code only asks whether it is empty), `postImageUri`, `compressed`
(`compressedImageFile`), `progress` (`newPostProgress`). `job[n]` is one run of
the publishing chain, under the name `n` that `UUID.randomUUID()` gave to its
pictures; its `phase` is the callback it waits for. `images` and `thumbs` are the
two directories of storage, `posts` the documents the server has committed.

| Action | Code |
|---|---|
| `Click`, `ClickCrashes` | the click handler up to `putBytes`; it crashes if the first compression of the activity fails, since the field is null |
| `StoreImage`, `StoreThumb` | storage receives an upload; the client hears of it later or never |
| `ImageUploaded` | the completion listener of the first upload: compress again, from the field, and start the second upload |
| `ImageFailed` | the same listener after a failure: `getResult` throws before `isSuccessful` is asked, so the process dies |
| `ThumbUploaded`, `ThumbFailed` | the listeners of the second upload; the failure listener is empty |
| `Commit`, `AddSucceeded`, `AddRejected`, `QueuedRejected` | Firestore and the last listener |
| `Kill` | Android ends the process: uploads and callbacks are lost, documents queued by Firestore are not |

`Pick` and `Back` may come at any point of a chain, as may a second `Click`.
The UUIDs are never equal. `picked`, `repicked` and `stale` are history
variables that no guard reads. What happens to an upload after the process has
died is nothing: resumable sessions are not used by this code.

### PostBoard

The abstract specification of publishing: a variable `shown`, and one action, by
which one post appears complete under a fresh name. The refinement mapping takes
`shown` to be the committed documents with the pictures storage has under their
names. It says more than an invariant: what is visible never changes, whatever
uploads go on.

### Feed (`HomeCommunity.java`)

Posts are numbered in the order of their server timestamps. `listener[0]`
follows the newest `PageSize` posts, `listener[l]` the page that the `l`-th call
of `loadMorePost` asked for. `CacheSnapshot` and `ServerSnapshot` call the
handler, with the documents that are added; `FirstPageEvent` and `PageEvent` are
the two handlers. `Scroll` is `onScrolled` at the bottom, and is possible at any time,
also before the previous page is there. `Stop` removes every listener, as
Firestore does for listeners registered with an activity; `Start` registers
nothing, as only `onCreate` does. A listener that fails is called with null
documents and throws (`ListenerFails`).

`Init` has any cache that earlier visits can have left: unions of first pages.

`cause` is a history variable: it records which of four things has happened so
far, and the properties say that each kind of wrong list has a cause.

- `overlap`: a page was asked for while the previous one was under way (line 80);
- `partial`: a page came from a cache that lacked some of its posts (line 214);
- `burst`: one snapshot of the first page brought several new posts (line 114);
- `skipped`: the new posts pushed all the old ones out of the page (line 87).

With any of its causes taken away a property fails: none of the conditions is there for
convenience.

### Session (`LoginActivity`, `Signinactivity`, `FindActivity`, `MainActivity`, `ProfileActivity`, `SetupActivity`, `HomeCommunity.onStart`, `NewPostActivity`, `CommentsActivity`)

`stack` is the back stack, each activity with the uid it keeps in a field, if it
does. `calls` is the bag of Firebase calls under way, each with the place of the
activity that sent it. `Answer` is the server's part, and changes the current
user; `Handle` runs the handler, later. The handlers of sign-in and sign-up are
registered with their activity and are removed when it stops (`Deafened`,
`Unheard`); the others run whatever has become of it, and start their next screen
on top of whatever is there (`Replace`). `Start` is `onStart`: only
`HomeCommunity` has one. `Create` is `onCreate`, which in four activities
dereferences the current user.

`history` records what happened out of order: `late` (an answer changed the user
or the screens when its activity was not in front), `bypassed` (a successful
sign-in whose listener was gone, or a feed opened over the login) and `unchecked`
(a profile check that failed). The properties say how much is true in which order of
events. The acknowledgement of a post is never `late`: whenever it comes, and whoever is
signed in by then, the feed is opened over what is in front (`OnPost`), and the
properties go on to hold. Only when such a feed, over a screen that keeps a uid, finds its
user without a profile and sends him to `SetupActivity` (`OverUids`) can he get from there
to every other screen, and log out above the editor; this counts as `late`.

### Likes (`BlogRecyclerAdapter.java`, the toggle and its listeners)

One post, on devices that may belong to the same user. A tap is a read
(`Tap`), an answer from the server or from the cache (`GetAnswered`, which also tells the
device what the document is), and the write that the answer decides
(`OnGet`). Writes wait in `queue[d]`, which Firestore keeps on disk, and `Sees` overlays
them on what the device knows; the listeners (`HeartEvent`, `CountEvent`) show that
view. `Commit`, `Refuse` and `Sync` are the server. `Die` loses the taps under way and
the row, not the queue; a read that fails dies in `getResult` (`GetFails`).
`before` and `disturbed` are history: the likes at first, and the users of whom a tap was
made while another of theirs was under way or a device of theirs was
behind the server, or of whom a write was refused.

### DrinkRecord (`DrinkRecordActivity.java`, `AvgActivity.java`) and Diary

`dayFile[date]` and `monthFile[month]` are the private files; a month is shared by all
years, as its file name has no year. `step` says how far the handler that is running
has come, because a death or a file that cannot be opened may end it between any two
steps on the files.

| Action | Code |
|---|---|
| `Type` | a field of the form |
| `PickDate` | `onDateSet` up to the loop that creates the files of the month, as many as can be opened |
| `OpenDay`, `OpenMonth` | opening the day file empties it; opening the month file creates it |
| `WriteDay` | empty fields become zeros, and the record is written |
| `ListDay` | the day is looked for and appended |
| `SaveOpen`, `SaveWrite` | the button "save", which writes fields as they are |
| `OpenAvg`, `AvgCrashes`, `CloseAvg` | `AvgActivity`: the lines of the month file are counted and the day files of 2021 summed up; `parseInt` throws on a line that is no number |
| `Die`, `Rotate` | the process ends, or the activity is created anew; the date is forgotten |

`interrupted` holds the dates whose record was not finished when the process died, until
they are picked again; `savedEmpty` the dates that "save" stored with an empty field. Both
are history. `Diary` is the abstract specification: one record a date, of which only that of
the chosen date is written or erased.

### Resampler (`resample.c`) and ResampledStream

`st` is the `SpeexResamplerState`, field by field under its names in C; `st.mem` is the one
array that holds the memories of all channels. A sample is a triple of stream, channel and
number, so that an entry of the memory tells which sample it is, silence, or memory nobody
has written. `call` is the call that runs, with its two loops. `taken`, `lost` and `stream`
are history: what each channel has used of its stream, what was forgotten when the filter
grew, and how many streams there have been.

| Definition | Code |
|---|---|
| `Init` | `speex_resampler_init_frac` with a filter that could be made |
| `UpdateFilter` with `Grown`, `Shrunk`, `Relayout` | `update_filter`: the length and the kind of the filter, the table, the memory and its three ways to be rearranged, the two allocations that may be refused |
| `SetRate`, `SetQuality`, `SkipZeros`, `ResetMem` | the functions of these names, `SetRate` with the conversion of the fraction and its overflow |
| `Process` | a call of `speex_resampler_process_float` or `_int` for all channels |
| `RunMagic` | `speex_resampler_magic` |
| `RunChunk`, `Emit`, `Finish` | `speex_resampler_process_native` and the loop of the `resampler_basic_...` functions, one output sample a step |
| `NextChannel` | the loop over the channels, each with the same buffers |

`ResampledStream` knows of each channel where its next output is centred (`at`), the part
of a sample beyond (`part`), and the ratio. Its one interesting action is `Emit`, which moves
them by the ratio. The refinement mapping takes `at` to be the middle of the window in the
numbers of the stream: what was taken, less the magic samples, plus the position, less half
the filter. After a change of rates that was refused half way (`overflowed`) nothing is
promised any more, here and in the code.

### OpusDec (`opusdec.c`, `wav_io.c`)

| State | Code | Action | Code |
|---|---|---|---|
| `fmt` | rate, channels, `force_stereo` as decided at the start | `Open`, `OpenFails` | `main` from the options to `out_file_open`, `write_wav_header` |
| `link`, `read`, `out` | `old_li`, `link_read`, `link_out` | `ReadFrame`, `ReadEnds`, `Enter` | the loop over `op_read_float` |
| `resampler` | what was fed, what came out | `EnterWithoutMemory` | a resampler that could not be made is used |
| `pending`, `left` | the read at hand, and what `audio_write` has left of it | `WriteResampled`, `WriteDirectly` | a turn of the loop of `audio_write` |
| `zeros`, `after` | the zeros of `drain_resampler`, and where it was called | `Drain` | `drain_resampler` |
| `file` | the output, with its sizes in the header | `Patch` | the end of `main` |

Decoding is external: a read returns some samples of the current link or of the next. The
resampler returns what `ResampledStream` promises: its next output is centred so far along
its input and needs half a filter beyond. How much input it keeps when its output is full is
left open, within what its loop allows. Writes to a file may take fewer samples, those to a
device none.

### OpusPacket (`diag_range.c`, `info_opus.c`) and AudioIn (`audio-in.c`, `flac.c`)

`OpusPacket` works on bytes. `Parse` is `opus_packet_parse_impl`, `SizeAt`, `Padding`,
`SizeMore`, `Sizes` and `Layout` its parts, `SaveRange` with its turns `LineMore` is `save_range`,
and `NbFrames`, `SamplesPerFrame` the duration. `Laid` (a `Lead`, the frames, the padding of
`PadOf`) and `Multistream` say how an encoder lays packets out, and `Allowed` which packets there
are: frames of 0 to 1275 bytes and of 120 ms in all, of one size where no sizes are written. They
are the reference, taken from the format and not from the parser.

`AudioIn` has the file as a sequence of chunks or of FLAC frames, each at its place in bytes, with
the length it has and the length it claims. `FilesAssumption` says what can be relied on (one chunk of
the format and one of the samples, and the fields of these), `CommandsAssumption` what is checked
where the options are parsed. A PCM sample is named by the place of its first
byte, so that a sample read at the wrong place is a wrong sample.

| Action | Code |
|---|---|
| `OpenRaw`, `Identify` | `open_audio_file`, `raw_open` and the `..._id` functions |
| `Find` | a turn of `find_wav_chunk` or `find_aiff_chunk`, with its way back to the beginning |
| `ReadFormat`, `ReadData` | `wav_open`, `aiff_open` |
| `ReadPcm` | `wav_read`, `wav_ieee_read` |
| `FlacAsks`, `FlacOpened` | `read_callback`, `flac_open` |
| `FlacBlock`, `FlacEnds`, `FlacCopies` | `write_callback` and the loop of `flac_read` |

### OpusEnc (`opusenc.c`)

It takes the reader from `AudioIn` and goes on: `Decide` (channels, mixing down, also when the
bitrate is too low), `Configure` (the encoder and its settings), `Encode` (the loop: a frame read, and
the end at the first that is short), `Drain`, `Close`. Every call of libopusenc may be the
occasion for a packet (`Emits`), of which `PacketOut` is the callback with its statistics and
its line in the range file. `stack` is what `inopt.readdata` points to, with the reader
under the down-mixer; `freed` says which close function was given what.

### OpusRtp (`opusrtp.c`)

The sender has the files to come, the pages and packets at hand, `seq` and `target`, the
static beginning of the time slot. The network is a sequence; it loses, repeats and overtakes
(`Fault`), and packets of others join (`PassesBy`). The recorder has the fields of its state under
the names `lastSeq`, `granule`, `dstPort`, `payloadType`.

| Action | Code |
|---|---|
| `OpenFile`, `ReadPage`, `SkipPacket`, `SendPacket` | `rtp_send_file_to_addr` with `is_opus` and `rtp_send` |
| `Wake`, `Tick` | `wait_for_time_slot` and the clock |
| `WritePacket` | `write_packet`, with its filters, the sequence check and `ogg_write` |
| `CaptureEnds` | the end of `sniff` or `extract`: `ogg_flush` and closing |
| `Killed` | the recorder is ended from outside, which is how a live capture ends early |

A packet in the network has its full number and its place in the sending beside the two
bytes that are there in the code; only properties read them.

### OpusHeaders and OpusInfo (`opus_header.c`, `info_opus.c`, `opusinfo.c`)

`OpusHeaders` has `HeadParsed` (`opus_header_parse`), the walk over the comments
(`TagsRefused`, `TagsPass`) and `CommentPasses` (`check_xiph_comment`, with its table of what
is UTF-8). In `OpusInfo` each element of `streams` is a `stream_processor` with its
`misc_opus_info`. A file is a sequence of pages as libogg writes it (`Written`): the pages of a
stream, which `PagesOf` picks out, are numbered from 0, only the first begins the stream and
only the last ends it. What happens to it after that is `Damage`.

| Definition | Code |
|---|---|
| `OpenFile`, `CloseFile` | `process_file` and the loop of `main`; `free_stream_set` ends what is open |
| `SkipHole` | a place where `get_next_page` finds no page |
| `ReadPage` with `NewStream`, `KnownStream`, `TakePage` | a turn of the loop of `process_file`, with `find_stream_processor` |
| `TakeNumber` | the comparison of the page numbers |
| `ProcessOpus` with `TakeHead`, `TakePacket`, `TakeGranule` | `info_opus_process` |
| `EndOpus` | `info_opus_end` |
| `Damage` | not code: what happened to the file before it is read |

## 3. What is checked

| Run | Question | Bounds | Result |
|---|---|---|---|
| `newpost` | the invariants of the chain, the refinement of `PostBoard`, and that a started chain ends | 1 editor, 2 chains, 2 pictures | holds |
| `feed` | duplicates, holes and order, and that the newest post is shown in the end | page of 3 as in the code, 7 posts, 3 further pages | holds |
| `session_safety` | who owns which screen, with a deep back stack and with answers that overtake each other | 2 accounts; 4 screens with 1 call, 3 screens with 2 calls | holds |
| `drink` | the files agree, and implement `Diary` | 2 years, 1 month, 2 days, 1 drink, 2 amounts | holds |
| `likes` | when taps add up; rows end up with the truth | 2 users, 2 devices, 2 taps, 1 death | holds |
| `resample` | memory, tables, channels, the refinement of `ResampledStream`, and that calls end | 2 channels, 3 reconfigurations, 6 samples of input, buffers of 0 and 3 | holds |
| `resample_reset` | "so a new (unrelated) stream can be processed" (`speex_resampler.h:328`) | the same, 2 reconfigurations | violated |
| `opusdec` | length, format and header of the output, and that the program ends | 6 chains of 1 or 2 links, 7 command lines, filters of 6 samples and more, reads of 1 and 3, 6 samples a link | holds |
| `opusenc` | what is encoded, refused, closed and written to the range file | 2 packets; files and packets listed in `MCOpusEnc` | holds |
| `opusrtp` | order, position and pace, and that both ends finish | numbers modulo 8, 4 arguments of 1 or 2 files, 1 fault, 1 packet of others, 1 tick late | holds |
| `rtp_wrap` | "skipping out-of-sequence packet" (`opusrtp.c:1035`) | no faults at all | violated |
| `opusinfo` | sound files are reported, damage is seen | 6 arguments of 1 or 2 files, two damages each; 20 heads, about 950 comments, 108 tag packets | holds |

Why these bounds are enough to be interesting. Two chains of one editor share its
fields, which is what a double click does; chains of several editors share nothing but
the stores, and the proofs of section 5 cover any number of both. Seven posts with a page
of three give room for a full first page, a second and a third page, and a burst
as large as a page that skips posts. Two accounts are what it takes for one
user's screen to be used by another; two calls are what it takes for one answer to overtake
another; a back stack of four is Main, Profile, Home and a screen above it (the constraint
`Deep` in `MCSession` only keeps the deepest stacks and the second call apart). Two years are
what it takes for a month file to be shared, and two days for a list to have an order; a second
month would only repeat the first. Two devices of one user, or one each of two, and two taps are
what it takes for a decision to be out of date when it is carried out.

In the resampler all constants are scaled down together: filters of a few samples, a buffer
of two, rates whose ratio makes the filter longer or not, tables of both kinds, and words small
enough for the checks of overflow to bite. Two channels show what is mixed up between
channels. Three reconfigurations are what it takes to grow, shrink and grow again with magic
samples left of each. In the decoder a full rate of four makes rates below, at and above it,
and none that divides the others alone; a filter of six samples is the shortest for which a link
has its exact length (the code has 80), and six samples are more than half of it; two links are one change, and every property of a
link is about that link and the one before. In the encoder the files are listed in `MCOpusEnc`:
each kind whole, with a chunk of odd length between, chunks in the other order, lengths of 0,
too long, too short, cut ends, FLAC blocks that do not fit the frames. The numbers of RTP wrap
after eight packets, which is fewer than two files have. The files of `MCOpusInfo` are
plain, joined late, multiplexed with another kind or another Opus stream, chained, and missing, and two damages are what it
takes for the second to be hidden by the first; the comments have, in first and second place,
bytes on either side of every limit in `check_xiph_comment`.

For each property `PROJECT.json` names a plausible mistake in the code (the definitions marked
*Fault* next to the right ones) which its run then reports.

### Properties of NewPost

- `PostsComplete`: no committed document names a picture or thumbnail that storage lacks.
- `BarTellsTruth`: the chains of an editor share one progress bar, which the end of each
  hides. On screen it spins exactly while a chain runs, or has ended in the thumbnail's empty
  failure handler; the exception is a refused document, which hides it from the chains that
  go on (an accepted one also finishes the activity).
- `PicturesAgree`: the pictures of a post are the one that was on screen at the
  click; the exceptions are exactly a compression that failed (the handler goes
  on with the previous bitmap) and, for the thumbnail, a picture picked during
  the upload.
- `BoardSpec`, `ClickResolves`: the refinement, and that a chain ends.
- `BitmapHeld`: proved only, see section 5. The second compression never leaves a null to
  dereference.

### Properties of Feed

- `NoDuplicates`, `NoHole`: without their causes, each post once, and none missing: the
  list is exactly the run of posts from the newest seen to the anchor.
- `NewestShown`: a feed that stays on screen shows the newest post in the end.

### Properties of Session

- `ScreensMatchUser`: while every answer reaches an activity in front, an editor, a setup or
  a comment screen on the stack keeps the uid of the current user, and only
  `ProfileActivity` and the deletion of an account dereference a missing user; if in addition
  no login was bypassed, nobody who is signed in sits in front of one. Answers to posts
  are not excused: their feed may open long after the editor was left, for another user, over any
  screen, and still lets nobody post or comment with the uid of somebody else.
- `PosterHasProfile`: whoever writes a post has a profile, or the check is under way.

### Properties of Likes

- `TogglesAddUp`: every tap that is not lost turns the like, whichever device it is made on,
  offline or not, and wherever an app dies, unless it was made while another of the user was
  under way or a device was behind, or a write was refused. Without each of these
  exceptions the property fails.
- `RowsSettle`: when nobody taps any more, each heart and each number shows what the server has.

### Properties of DrinkRecord

- `ListedOnce`: no day is on the list of its month twice.
- `RecordedIsListed`: what is recorded is listed, but for interrupted dates.
- `DiarySpec`: picking a date, which opens the files of its whole month, changes no
  record but that of the date.
- `ListedIsRecorded`, `UnreadableHasCause`: proved only. What is listed is recorded, and
  `AvgActivity` dies only of a text, or of an empty field that "save" stored.

### Properties of Resampler

- `WindowRight`: whenever an output sample is computed, its window holds consecutive samples of
  its channel, each the one that belongs there, and silence only before the stream or where a
  shorter filter let samples go.
- `TableInBounds`: the coefficients it reads are inside the table, in the layout in which
  the table was last filled.
- `ChannelsInStep`: between calls all channels have used as much and stand at the same place.
- `StreamSpec`: buffers, filters and refused allocations do not move the position.
- `CallEnds`: a call ends, also without a filter.

### Properties of OpusDec

- `ExactLength`: each link comes out at the length it has at the rate of the output, rounded
  down, in spite of the delay of the filter and of the links before it.
- `DropsLessThanOne`: input that is thrown away for want of room comes to less than one sample.
- `OneFormat`: what is written has the channels promised, and a seekable chain is
  never given up for its channels.
- `HeaderTrue`: the two sizes are both untouched or both true.
- `Ends`: also when every write fails.

### Properties of OpusEnc, with the readers and the parser

- `EncodesTheSource`: what the encoder was fed is a beginning of the samples of the file, in
  the end all of them; libFLAC gets the file from its first byte on.
- `RefusesOnlyUnreadable`: a file is refused only if one of the conditions in `Readable` fails.
- `ClosesAll`: every reader closed once, by its own function.
- `RangesTrue`: the line of a packet has the sizes of all frames of all its streams.
- `Ends`: also for files whose chunks are out of order or cut.

### Properties of OpusRtp

- `RecordedInOrder`: one port, one type, and no packet before one that was sent earlier, but across
  a wrap.
- `TimelineTrue`: the position of a page is the duration of all that was sent up to it, if
  nothing was lost; also in the file that a kill leaves.
- `Paced`: the slots follow each other without a gap, and nothing is sent before its slot.
- `Ends`: every valid packet of a file with one Opus stream is sent, and the capture ends.

### Properties of OpusInfo

- `SoundIsReported`: an undamaged file is warned of exactly if its headers are improper or its
  comments no text, against definitions of their own (`Proper`, `Filed`, `Characters`, which
  decodes Unicode instead of looking at ranges of bytes); and the length of every stream is told
  once.
- `DamageIsSeen`: if what was read of a stream is not what was written, there was a warning, and
  the status says so, whatever files follow.

### Observations

Behaviour that is odd, or contradicts a text, but has no run of its own:

- `HomeCommunity.java:114`: new posts of one snapshot are put in front one by one and end up
  reversed, against "시간 순서 별로" in line 86; such a burst is one of the causes that the order in `NoHole` excludes.
- A feed that was left and reopened never updates its head (`onCreate` registers, `onStop` removes).
- `ProfileActivity.java:55`: with nobody signed in the code starts the login, as its comment in
  line 45 says, and then dereferences the null user. Line 88: a deletion that failed is announced
  as done.
- A user who is signed in may stand in front of `Signinactivity`. When a post is made before the
  profile check answers, `HomeCommunity` can stay under later screens and survive a logout.
- `AvgActivity.java:133` shows minus one days without a date or a file of the month;
  line 106 reads the records of 2021 whatever the year; it shows sums under the title
  "월 평균" (monthly average). October is padded to "010" in names, consistently. The comment in
  `DrinkRecordActivity.java:175` speaks of reading where the file is overwritten.
- `resample.c:1131`: after a refused change of rates numerator and denominator are new and the
  steps are old, and the same call again returns success. `:1157`: so does `set_quality` after
  a failed allocation. `:1200`: a change of quality after `skip_zeros` keeps the position of
  the old filter.
- `opusdec.c:1133`: a resampler that could not be made is used. `:500`: reads so short that
  nothing is due yet are dropped. `:549`: a failed write counts as minus one. `:971`: the
  map of channels is that of the first link.
- `audio-in.c`: big-endian samples of 24 bits are said to abort and end as an empty file; a data
  chunk of at most four samples is read to the end of the file, with whatever chunks follow.
  `flac.c`: an error in the middle of a file looks like its end; `:59` copies from the beginning
  of the old buffer each time, which is harmless for requests as large as libFLAC's.
- `opusrtp.c:1034`: the last packet, repeated, is recorded twice; the source is not compared;
  losses leave no gap in the positions.
- `opusinfo.c:889`: after a gap the number expected is that of the page itself, so that later gaps
  of the stream are not warned of by number (libogg still tells, for Opus). `opus_header.c:178`: a
  channel mapped one past the last is taken.

## 4. Fairness

`NewPost`: the steps of storage for a chain, and Firestore's for a document whose
process lives, are weakly fair. Firebase Storage answers every upload, at the latest with
a failure when its retry time is over; Firestore works off the queue of a process
that is connected. Nothing is assumed of the user, nor that the app is
started again after a death: a queued document may wait forever.

`Feed`: the server's snapshots to a listener that stays registered are weakly fair: a
connected client hears of every change. `NewestShown` is about a feed that
stays on screen; with the process offline forever it would not hold.

`Likes`: devices are connected again and again, so that reads and writes are answered, the
listeners of a row hear of what the server has, and what they hear is shown. Taps and
deaths have no fairness. A write that is never answered because the device stays offline
keeps the heart of that device ahead of the server, which is what Firestore means it to do.

`Session` and `DrinkRecord` have no fairness: everything said of them is safety. (A handler of
the diary that has begun may always end by a death, so that nothing would follow.)

`Resampler`: a call that has begun goes on (`WF_vars(Step)`); nobody has to call. `OpusDec` and
`OpusEnc` are single threads over files that end and calls that return: `WF_vars(Next)`. The
adversary inside their steps (how much a write takes, how much libFLAC asks for) has no
fairness. `OpusRtp`: the sender is run, time passes, what arrives is looked at and the capture
is closed; nothing is assumed of faults, strangers and kills. `OpusInfo` has none.

Deadlock is not checked where a user may always stop, a program comes to an end, or a bounded
instance does (all names used, all posts written). It is checked in `resample`, where some
call is always possible.

## 5. What is proved

`NewPostProof` proves, for any sets of editors, names and pictures and under
`NewPostAssumption` (the three null values are none of the real ones), with
TLAPS:

| Theorem | Says |
|---|---|
| `TypeCorrect` | `Spec => []TypeOK` |
| `PostsAreComplete` | `Spec => []PostsComplete` |
| `PublishedPicturesAgree` | `Spec => []PicturesAgree` |
| `BitmapIsHeld` | `Spec => []BitmapHeld` |
| `BarsTellTheTruth` | `Spec => []BarTellsTruth` |
| `ImplementsBoard` | `Spec => BoardSpec` |

None of the invariants is inductive as it stands. The strengthening `IInv` says, for
each phase of a chain, what is known of storage and of the database: before the
click nothing is stored; while the picture uploads the bytes are what storage
will have, they come from the picture at the click unless the compression failed,
the thumbnail is not there, and the field of the activity is not null; while the thumbnail
uploads the picture is there; from `add` on both are there; only from `add` on can there be a
document. `PicturesAgree` needs in addition that the field still holds the picture
of the click unless a new one was picked, and `BarTellsTruth` that an activity has no chain
before it is opened. Each action moves one chain from one phase to the next, and the lemmas
`NextChain` and `NextTruthful` go through them one by one. `ImplementsBoard` rests on the same
invariant: `Commit` is `Publish` and finds both pictures there, and no other action
touches the pictures of a committed name.

`DrinkRecordProof` proves, for any years, months, days, drinks and amounts, under
`DrinkRecordAssumption` (an absent, an empty and a written file can be told apart, as can a number,
a text and an empty field; 2021 is one of the years):

| Theorem | Says |
|---|---|
| `FilesTypeCorrect` | `Spec => []FilesOK`, the part of `TypeOK` about files and form |
| `CountedOnce` | `Spec => []ListedOnce` |
| `RecordsCounted` | `Spec => []RecordedIsListed` |
| `CountedRecorded` | `Spec => []ListedIsRecorded` |
| `CrashesHaveCause` | `Spec => []UnreadableHasCause` |
| `ImplementsDiary` | `Spec => DiarySpec` |

The properties are not inductive for two reasons. They excuse the date that a handler is
working on, while what holds is stricter: picking a date touches no record before its own file
is opened (`Writing` begins there). And the last step of a handler relies on the ones before it:
`StepsDone` says that the month file exists before it is read, that the record is
written before its day is listed, and that a date which can be saved is already on the list,
since it was picked. `KeepRecorded` is the argument common to all steps for the existential
property: a step that uncovers no date keeps every listed day covered.

`SessionProof` proves, for any accounts, any depth of the back stack and any number of calls under
way:

| Theorem | Says |
|---|---|
| `ScreensMatch` | `Spec => []ScreensMatchUser` |
| `PostersHaveProfiles` | `Spec => []PosterHasProfile` |

Whatever an activity or a handler does ends in `Start`, most of it in `Create`. The invariant is
therefore a predicate on a stack, a bag of calls, a user, the profiles and the history (`Fits`),
with one for what `Start` needs (`Ready`) and one for what `Create` needs (`Covered`); there is one
lemma on each of the two operators, and one step for each action. What the properties do not say and
the steps rely on: every call has an owner which is a screen that makes such calls (`Owned`); a
listener that belongs to its activity is gone or in front (`Heard`); above a screen that keeps a uid
there is only the feed of a post and what the feed opens, none of which logs anybody in or out
(`Over`); the login is only on top, because it is left by finishing it (`NoLogin`); a login that was
answered and not handled yet has a user (`SignedIn`). The lemma on handlers (`ReplaceInv`) asks what
else is on the stack, and `InOrderInv`, `MissingInv` and `PostedInv` answer it for the activity in
front, the check of a profile and the feed of a post. Of the bag only which calls are in it
matters, never how often, so that the lemmas go through its domain.

`FeedProof` proves, for any size of a page, any number of posts and of pages:

| Theorem | Says |
|---|---|
| `ListedOnce` | `Spec => []NoDuplicates` |
| `NothingMissing` | `Spec => []NoHole` |

As long as no page came from an incomplete cache, every set of documents a listener hears is a
window: as many consecutive posts as a page has, or all there are. The first page ends with `t`, the
newest post of the cache, of which the cache has the whole first page (`CacheOK`); an older page ends
just before the post it starts after, and that one is on the list (`PagesOK`). From there the list is
an interval unless a post was skipped (`Convex`), has each post once and grows at its end unless two
pages were asked for at once (`Orderly`), and counts down from `t` if there was no cause at all
(`Countdown`). Snapshots are turned into sequences with `SetToSortSeq`, which chooses one; that there
is one to choose, and how the rank of a post gives its place, is proved first. Where one would use
induction on numbers the proofs take the least counterexample, from the theorem that `<` on `Nat` is
well-founded.

About `Likes` it proves `TapsTurn`: `RowSpec => []TogglesAddUp`, for any finite set of users, any
devices, taps and deaths. The property speaks of moments when nothing of a user is under way; the invariant
says what leads there. For every user who is not `disturbed`: one tap is under way or one write
waits, not both (`OneAtATime`); what that tap has read is what the server still has
(`ReadIsCurrent`); a write that waits is the one that turns the like (`WriteTurns`); and the likes
are those of the beginning, turned once for every tap that was done, less the write that waits
(`Parity`). The number of taps is a cardinality, and each step changes it by one or not at all
(`FS_AddElement`); users are finite because the number shown under a post is compared with it.

`ResamplerProof` proves, for any number of channels, table of qualities, ratios, sequence of
changes (also refused ones) and length of buffers, under `ResamplerAssumption` (filters have an even
length, and the product of oversampling and denominator is a word, which the types of the C
code ask for):

| Theorem | Says |
|---|---|
| `TypeCorrect` | `Spec => []TypeOK` |
| `WindowsAreRight` | `Spec => []WindowRight` |
| `TablesSuffice` | `Spec => []TableInBounds` |
| `ImplementsStream` | `Spec => StreamSpec` |
| `ChannelsKeepStep` | `Spec => []ChannelsInStep` |

`TypeOK` includes that the memory is as large as it is said to be and that a filter, its magic samples
and the next chunk fit into the share of each channel (`LayoutOK`), which is what keeps every index of
`update_filter` and of the loops inside the array. `StepsOK` says that steps and table are those of
the rates, unless a change was refused half way; `CallOK` what a running call may still use and make,
and that magic samples go first. `WindowRight` follows from what the memory of a channel holds
(`Holds`): place `j` has the sample that belongs there, counted from what the channel has taken, or
silence from before a point that the history `lost` marks. Growing, shrinking and laying out
anew each move the memory by a number of places (`Before`) and keep this. `Remembered` excludes all
channels but the first after a reset, which is finding 1. `ImplementsStream` takes from it where the
middle of the window is.

`ChannelsKeepStep` compares channels that are worked on one after the other. What a call does to a
channel is a sequence of turns (`Turn`), each a function of where the channel stands (`Local`) and
of what all channels are given (`Given`: filter, rates, buffers). `InStep` says of a running call
that the channels still to come stand where this one stood when it was begun, that this one got
from there to its place by turns (`Ahead`), and that the channels done stand at an end that lies
ahead of it. A place that is ahead of another is defined as one in every set that holds the other
and is closed under turns, so that no induction on the number of turns is needed: after an end
comes nothing, and as turns leave no choice two ends ahead of one place are the same. Between
calls all channels stand at the same place (`Even`), which reconfigurations keep because they
convert either all positions or, when refused, none.

`OpusDecProof` proves, for any chain of links, command line, rates and sizes of buffers under
`OpusDecAssumption` (the sizes and rates that are divided by are positive, 48000 is one of the
rates that can be opened, the filter has at least six samples, a chain has a link and a link has
channels):

| Theorem | Says |
|---|---|
| `DecoderTypeCorrect` | `Spec => []TypeOK` |
| `FormatHolds` | `Spec => []OneFormat` |
| `LengthHolds` | `Spec => []ExactLength` |
| `DropsHold` | `Spec => []DropsLessThanOne` |
| `HeaderHolds` | `Spec => []HeaderTrue` |

`OneFormat` is not inductive: a link that does not fit is entered before its channels are
compared, and what is still in the resampler is written after that. `IInv` says why none of it
reaches the output: such a link is the last one (`MisfitOK`), nothing of it was read or put out, so
that nothing is owed of it (`OwedNat`) and a turn of `audio_write` takes no sample (`PutStep`). To
know that nothing of it was read, `PendingOK` says that later links are unread; `DecidedOK`
keeps what was decided at the start, and that a seekable chain which is not forced to stereo
has the same channels in each link; `PlaceOK` says that draining has a resampler and a link. The
arithmetic is in lemmas of its own: what is owed, what the resampler has ready and how far it
reaches are numbers, so that `left` and `zeros` never go below nothing.

The lengths have an invariant of their own, `LInv`. Without a resampler, what was put out and what is
in the buffer are what was read (`DirectOK`). With one, what it was fed stays behind what it is due
(the samples of the link, then the zeros of `drain_resampler`) by less than comes to one sample of
output, and between two calls it has made exactly what it could make of that (`FedOK`). At the end of
the zeros that is what the link owes, although the drops add up to almost one sample: half a filter
of zeros reaches far enough if the filter has at least six samples (`ZerosSuffice`; the code has 80).
A filter of less would lose the last sample of some links, so that the assumption is needed.

`HeaderTrue` needs that the size counted in `main` is that of all the samples in the file (`SizeTrue`),
which sums over the links. That the recursive sum has a value, and what it gains when one link gains
samples, is proved by least counterexample (`AddsExists`, `SumGrows`). The second seek of the end of
`main` leads to the field of the data size for both lengths of the format chunk (`HeaderPatch`).

`OpusRtpProof` proves, for any files, options, packets of others, numbers of faults and delays:

| Theorem | Says |
|---|---|
| `InOrder` | `Spec => []RecordedInOrder` |
| `TrueTimeline` | `Spec => []TimelineTrue` |
| `SlotsAreKept` | `Spec => []Paced` |

`OpusRtpAssumption` gives the constants their types: 16 bits for numbers, ports that are ports,
packets of others that are not the sender's. `Numbers` says what the sender writes into its packets:
within a file the full numbers grow. `Slots` places the time slot at the beginning plus what was
played so far. On the other end, everything recorded, in the file or still in the queue of libogg, is
from the sender or a stranger (`Known`), on one port and of one type and in the order of the two-byte
numbers (`Sorted`), and its positions are sums of the samples (`Positions`, `PagesOK`). From this
`RecordedInOrder` follows by way of the full numbers. `TimelineTrue` needs in addition that without
faults the packets of the sender come one by one, and that all are recorded or none (`Complete`). The
sum of the samples (`Played`) and the joining of pages (`FlattenSeq`) are recursive; `RunExists` and
`RunUnique` say that such a recursion has a result and only one, by least counterexample, and
the lemmas about both follow from these. A kill leaves a prefix of the pages, and all that is
said of what is recorded holds of a prefix.

`OpusEncProof` proves, for any files, command lines, requests of libFLAC and packets:

| Theorem | Says |
|---|---|
| `TypeCorrect` | `Spec => []TypeOK` |
| `SourceEncoded` | `Spec => []EncodesTheSource` |
| `ReadableAccepted` | `Spec => []RefusesOnlyUnreadable` |
| `ReadersClosed` | `Spec => []ClosesAll` |
| `LinesTrue` | `Spec => []RangesTrue` |
| `DamageWarned` | `InfoSpec => []DamageIsSeen` |

It rests on `FilesAssumption` (a file of chunks has one format and one chunk of samples, as RIFF and
AIFF have it: with two there is no agreed source), `CommandsAssumption` (what the parsing of the options
refuses), `AudioInAssumption` (libFLAC asks for at least as many bytes as were read to identify
the file), `OpusEncAssumption` (the encoder puts out packets that the format allows) and
`OpusInfoAssumption` (files are as libogg writes them, before the damage).

- *Reading.* `IInv` says that what was fed or is at hand are the first `Taken` samples of the source
  (`Feeding`), and where the reader stands: of PCM, behind these (`PcmReading`, `Placed`); of
  FLAC, within the block of the last frame or behind it, with libFLAC given the file up to the
  place `pos` (`FlacReading`). The walk
  over the headers of a file that can be read has not gone past the chunk it looks for
  (`NotLost`), also when it begins again; this is what makes `RefusesOnlyUnreadable` follow. The
  stack of readers has what was opened, with the down-mixer on top if there is one (`Stacked`).
- *Packets.* `At` says that a piece stands at a place of a packet. Joining pieces gives each
  its place (`Pieces`), and `Begun` says that a packet begins with what an encoder laid out. Each
  part of the parser reads what was written for it: a length (`SizeAtIs`), several of them
  (`SizesAre`), the padding (`PaddingIs`). For each of the four codes the parser then knows the frames
  and what is left for the last one (`Describes`), and completes this with the length in front or
  with what is left (`ParseLaid`), so that it finds the sizes and the length of the stream. As
  `save_range` goes on at that length, it finds the next one (`SaveRangeIs`).
- *Checking.* `InfoInv` says: while nothing was warned of, each stream in the set is on its course
  (`OnCourse`: the pages read are the first ones of the stream, the number awaited is how many were
  read, it has ended only with the last page), and every serial number that was read is in the set
  (`AllKnown`). When a file is closed without a warning, all its streams have ended, so that all
  pages were read. A warning reaches `ret` before the next file is opened.

Recursive functions (sums, pages of a stream, joined pieces) are unfolded as in `OpusRtpProof`, with
`RunExists` and `RunUnique`.

The theorems about `BitmapHeld`, `ListedIsRecorded` and `UnreadableHasCause` are about definitions that no run checks any more; TLC agreed with them
before they were proved. The invariants used in the proofs were checked with TLC on the runs'
instances first.

Only model-checked:

- `ClickResolves`, `NewestShown`, `RowsSettle`, `CallEnds` and the `Ends` of the tools, which are
  liveness properties under fairness, outside what the prover can do;
- `OpusInfo.SoundIsReported`: it compares the checker with definitions of text and of proper headers
  that go through strings and packets, and lengths that are given with each file. What a recursion
  over data computes for every input would need induction over it; the run has files for each kind of
  header, comment and layout instead.

## 6. Findings

1. `resample.c:1217`: `speex_resampler_reset_mem` clears the beginning of the one array, as if the
   memories of the channels were `filt_len - 1` apart; of the later channels the old stream stays,
   against `speex_resampler.h:328` (`resample_reset`).
2. `opusrtp.c:1034`: sequence numbers are compared as plain numbers of two bytes; after a wrap
   every packet is skipped as out of sequence until the number is reached again
   (`rtp_wrap`).

## 7. What is not modelled, and why

- Contents of posts and comments, form checks on empty fields, toasts, layout.
- In `Feed`: the writer's own pending posts (their timestamp is null until the server
  answers, and the app reopens the feed after a post, so the listener is a new one),
  modified and removed documents (the handlers ignore both; no code changes or
  deletes a post), process death (the list is rebuilt from nothing).
- In `Session`: process death and the re-creation of a back stack by Android;
  screens that ignore the user (map, chat, diary).
- In `Likes`: the rest of a row (pictures, names, the number of comments), the binding of
  rows to posts, and the listeners that outlive a row; see the plan.
- In `DrinkRecord`: amounts so large that a sum overflows an `int`, and the calendar that marks the
  days of a month.
- `MapActivity`: calls of the map SDK, with hardly any state.
- `EventDecorator`, `OneDayDecorator`, `SaturdayDecorator`, the data classes, `community`,
  `ListViewItem`: no behaviour.
- In `Resampler`: the arithmetic of the filter, and `RoundUp` beyond 32 bits at extreme ratios.
- In `OpusDec`: gain, dither, the order of channels in a WAV file, sound devices, what is printed,
  a decoder of its own (`decode_cb`), more channels than `clipmem` has.
- In `OpusEnc` and `AudioIn`: tags and pictures, what is computed in mixing down, the order of
  channels, the settings that only reach libopusenc, what is printed.
- In `OpusRtp`: the fields of Ethernet, IP and UDP headers (a packet is parsed or not), errors of
  sockets and files, padding and extensions of RTP. A live capture is closed by its 300th packet
  or a kill; that it is closed in the end, which the second half of `Ends` rests on, is an
  assumption where fewer packets come.
- In `OpusInfo`: pictures in comments, and what is printed but is no warning. No packet of the model
  lies on more than two pages; of one that does, libogg drops the rest when a page in its middle
  is repeated (the repetition has been warned of by then).
- `picture.c` (sizes of pictures for the tags), `wave_out.c` (one device of Windows),
  `resample_sse.h` (the same sums with vector instructions), and headers that are macros.

## 8. Plan

Done, in this order: publishing (`NewPost`, its abstract specification), the feed, the session,
likes, the diary (with its abstract specification); then the Opus tools: resampler (with its
abstract specification), decoder, readers and encoder, RTP, checker; and the proofs of section 5.

Next:

1. `Chat` (`StartActivity`, `ChatActivity`, `AChatActivity`). The realtime database fires child
   listeners for the client's own writes before the server has them, and takes a refused one back
   with a removal. To be stated: after all answers the list of each client is what the server has.
   Where it bites: `AChatActivity` adds a line with " " (line 69) and removes one with
   " : " (line 74); `StartActivity` ignores removals (lines 76 to 78) in a list of rooms that
   are open; keys of offline clients sort before later ones.
2. `Setup` (`SetupActivity`). A load that answers after a pick overwrites the picture
   (`mainImageURI`, with `isChanged` still set); two saves may mix a name and a picture of
   different moments. To be stated, against an abstract profile: what is saved is what the form
   showed at the click, with its causes otherwise, and a profile has a picture in storage.
3. `Comments` and the rows of both adapters. The acknowledgement clears the draft, whatever was typed
   since (`CommentsActivity.java:120`); a listener may answer a row whose activity is
   destroyed; listeners are added with each binding and never removed.

Runs stay few: one for the promises of a component and one for each disagreement with its texts.
