# Verification of the update system

This directory holds TLA+ models of the firmware in this repository, the TLC
configurations that check them, and theorems that the TLAPS proof system checks.
The firmware is a three-stage system on an STM32F407: a stage-0 boot
(`boot/main.c`), a second-stage loader that runs from RAM (`loader/`), and an
application that exists twice, linked for the slots APP1 and APP2 (`app/`).

The models start from what the product must never get wrong, the update: a board
in the field is updated over the network, power may fail at any moment, and
nobody is there to repair it.

## 1. Inventory

| Component | Source | State | Operations | Interacts with |
|---|---|---|---|---|
| Software A/B update | `loader/User/app/main.c`, `upgrade/iap.c`, `app/User/app/upgrade/upgrade.c`, `flash.sh` | the slots APP1 and APP2, PART_APP1 (SPI), the OTA flag in PART_OTA, the host cookie, the loader's `dwCurrentAppAddr` and `s_host_flash_override` | download, commit, boot decision, copy, verify, switch, host override | upload session (feeds it), partitions (hold it), stage 0 (starts it) |
| Flash partitions | both `flash_manage.c` | a header in a sector of its own per SPI partition (magic, used size), the data behind it | init, erase, write, read, range erase | every writer above |
| Loader images | `boot/main.c`, `loader/.../upg_apply.c`, `app/.../loader_ota.c` | PART_LOADER and its header, the backup sector of the internal flash | update by the loader, update by the application, choice by stage 0 | partitions; serial update; upload session |
| Serial update | `loader/.../upg_apply.c`, `download.c` | package parser, erased and written ranges | begin, feed, finish | YMODEM; partitions |
| HTTP upload session | `app/.../http/httpd.c`, `upgrade/post.c` | connection pool, `gs_hs[2]`, `gs_byUserFile`, the heap flag, suspended tasks, `s_ota_stream` | accept, parse, receive, poll, close, error | A/B update; partitions; tasks |
| YMODEM and XMODEM | `tools/xfer/flash_upg.c`, `loader/.../ymodem.c`, `boot/main.c` | block number, retry count, files | send, acknowledge, retry, cancel | serial update; stage 0 |
| Loader countdown, command line | `loader/.../main.c`, `cmd_src.c` | key seen, mode | wait, enter the CLI, update, go | A/B update |
| Device configuration | `app/.../devConfig/devConfig.c` | parameters in RAM, `bySave`, header and parameters in SPI | set, save task, save now, rebuild | partitions; HTTP, shell |
| Device registry | both `dev_manage.c` | linked list, lock | register, get | drivers |
| Device tree slots | `drivers/hal/dts_f4.c`, `dts_fallback.c` | primary and backup sector, the built-in tree | load, heal | serial update (writes both); partitions (read their table from it) |
| UART receive ring | `usart/rx_data_queue.c` | read and write index, data | put (interrupt), get (task) | shell, YMODEM |
| Shell, telnet, JSON API | `component/shell`, `telnet.c`, `node_tree.c` | line buffers, command tree, sessions | register, parse, dispatch | configuration |
| Network services | `netconf.c`, `sntp.c`, `ping.c`, `mqttclient.c` | DHCP state, time, MQTT session | periodic tasks and callbacks | lwIP |
| Tasks, heap, log | `osHal/*`, `malloc/malloc.c` | block map, task table | allocate, free, suspend, resume | all |
| Buttons | `component/multi_button` | per-button debouncing state | tick | a timer |
| Drivers | `platform/stm32f4/drivers` | registers | read, write | all |
| Packaging, host tools, web page | `tools/`, `web/` | none on the target | build and send packages | serial update, HTTP |
| Third party | FreeRTOS, lwIP, FatFs, cJSON, MQTT packets, CMSIS, ST libraries | | | |

What makes them hard to test, and what makes each correct:

* **A/B update.** Power may fail inside any of the dozen flash operations of an
  update, and the record that says which slot is good is itself rewritten by four
  of them. Correct: an application is started only if all of it is there; the slot
  that runs is never the one that is written; a recorded update is applied in the
  end; what an operator loads by cable is not undone by a pending update.
* **Partitions.** The header is written after the data, so a write is visible,
  truncated or gone. Correct: what is read is what some write wrote.
* **Loader images.** Two copies, two writers in two programs, one reader in a
  third. Correct: one failure never costs both copies; an update that reported
  success is what runs.
* **Upload session.** One thread, many connections, and a handful of globals that
  belong to whichever connection touched them last. Correct: what is committed is
  one package; the heap is given back; a session ends with its connection.
* **Serial update.** Slots are erased when the header arrives and the package is
  judged when it has ended. Correct: what is reported written stands in the flash;
  the boot record is only touched by a package that is right; nothing is programmed
  onto what is not erased.
* **Package streaming.** The same parsing in the application, from TCP segments
  that end anywhere. Correct: what is committed is the whole image for the idle
  slot, wherever the segments end.
* **YMODEM, XMODEM.** Lost and repeated bytes on both sides. Correct: what is
  accepted is what was sent, and both sides agree that it was.
* **Configuration, registry, ring, tree.** A flag cleared after the work it
  announces; a check made before the lock; indices that run modulo twice the size;
  a copy that heals the other. Correct: no change is lost, no device twice, no line
  lost or invented, the tree that was bound is bound again.

`PROJECT.json` lists each hazard at its line with the property that covers it or
the reason none does yet.

## 2. Modules

| Module | What it is |
|---|---|
| `SafeUpdate` | abstract: two slots with an intact image or none, at most one running |
| `AbOta` | loader, application, flag, slots, cookie and power failures, in detail |
| `LoaderMedia` | the two loader copies, their two writers, stage 0 |
| `OtaSession` | the HTTP server's connections and the update session they share |
| `SpiPartition` | sectors, erase, program, both versions of `flash_partition_write` (operators only) |
| `OtaStream` | the parser of a streamed package, over `SpiPartition` |
| `DtsSlots` | the two sectors of the device tree and how the application chooses and heals |
| `SerialUpdate` | the loader's serial update, over `DtsSlots` and `SpiPartition` |
| `Ymodem` | host tool and loader over a lossy line |
| `DevConfig` | settings, the writers that change them, the task that saves them |
| `LineQueue` | abstract: lines, each once and in order |
| `RxRing` | the ring between the UART interrupt and the shell task |
| `MC...` | one per checked module: its instance for TLC |
| `...Proofs` | the theorems about `AbOta`, `LoaderMedia`, `OtaSession`, `OtaStream`, `SerialUpdate`, `Ymodem`, `RxRing`, `DevConfig` |

How they fit together. An update reaches the board in one of three ways. Over HTTP
it is buffered (`OtaSession`) or taken apart as it comes (`OtaStream`); over the
serial line `Ymodem` carries blocks to `SerialUpdate`. What a download leaves
behind, a staged image and a request, is where `AbOta` begins: it sees a download
only as started, abandoned or complete, and `SafeUpdate` is what it promises.
`LoaderMedia` has the other file of a package, the loader itself. The settings and
the ring stand for themselves.

### AbOta

The state on flash is `slot`, `src` (PART_APP1), `flag` and `hdr` (PART_OTA's data
and its header) and `cookie` (PART_RES). The state in RAM is the program counter
`pc`, `cur` (`dwCurrentAppAddr`), `ovr` (`s_host_flash_override`) and `wr`, the
flag write in progress. A content is the image it came from and whether all of it
is there. The CRC32 over a slot or over PART_APP1 identifies an image, so the
comparisons of the code become equality of contents, and `app_image_valid`, which
looks at the first two words, becomes "anything of an image linked for this slot":
half an image passes, which is what makes the update hard.

`flash_partition_write` on PART_OTA is four actions, `FlagErase`, `FlagProgram`,
`HdrErase`, `HdrProgram`, used by the loader (`ota_flag_clear`,
`ota_flag_commit_done`) and by the application (`upgrade_commit_ota_flag`). What a
reader then sees is `Seen`: with a header reset to "used size 0" it reads nothing;
through an erased header (used size 0xFFFFFFFF) it reads the data. The copy is
`CopyErase`, `CopyHead`, `CopyTail`; between the last two the vectors are right
and the image is not. One action per branch of `fw_upgrade_from` follows
(`NoUpgrade`, `BadSource`, `AlreadyThere`, `StartCopy`, `VerifyOk`,
`VerifyFail`). `PowerLoss` is enabled everywhere. `flash.sh app` is three actions,
one per `pyocd load`: `HostLoadApp1`, `HostLoadApp2` and `HostLoadCookie`. Each may
come at any program point, halts the processor there and ends in a reset, so that the
loader runs between them; the operator may stop after any of them and start over.
`host` is the last one that was done. `spoilt` is a history variable, read by no
action: a cookie was loaded beside an APP1 that was not whole.

Two specifications: `Spec` starts from boards whose APP1 is whole and has no
operator; `HostSpec` starts from any board with whole or blank slots and lets an
operator run `flash.sh` at any moment. The constant `Faults` says whether a copy to the
internal flash may come out wrong although no operation reported an error.

### LoaderMedia

`bk` and `spi` hold the two copies and `hdr` PART_LOADER's header. `StartUpdate`
is `upg_write_loader_media` (loader) or `upgrade_write_loader` (application) given
a blob that passed their checks; both write the backup first unless it already
holds the blob, then PART_LOADER. Only the loader compares PART_LOADER first
(`SpiMatches`). Stage 0's three outcomes are actions. `losses` counts the power
failures that hit a write; it saturates at 2, for "several".

### OtaSession

`m` is the memory the callbacks share: the connections (`conn`), the owners of the
web and the firmware update (`gs`), the buffer (`buf`) and the length it was allocated
for (`cap`), the heap flag and the suspended tasks, the stream's context. Packages
differ in length (`Length`), and a copy to the buffer looks only at the length of the
upload that copies, as in the code. The C functions are operators from memory to memory
(`PostFinished`, `CloseAll`, `PrepareHeap`, `Register`, ...), and an action is one
callback of the TCP stack that composes them as the code does. `flashed` is what was
installed last and how. Two history variables, read by no action: `rough`, a client
was reset or stopped inside a header; `over`, a segment was copied behind the end of
the buffer (`Behind`), after which what the program does is undefined.

### SpiPartition and OtaStream

`SpiPartition` has no variables: a partition is a record of cells and `used_size`,
`AppWrite` and `LoaderWrite` are the two versions of `flash_partition_write`, which
differ in what they erase and in `used_size`. A cell that is programmed twice holds
`Garbage`.

`OtaStream`'s `st` is `s_ota_stream`; `seg` is what the current segment still has.
Each action is one turn of the loop in `ota_stream_feed`, one per phase (`Header`,
`Loader`, `Skip`, `Fw`, `Web`, `Drain`), then `Return` and `Finish`. What arrives is
a sequence of units that say which upload, section and place they are from, so that
an image with a unit missing or moved is another sequence, and a checksum is the
sequence it was computed over.

### SerialUpdate and DtsSlots

The same units and the same kind of loop (`upg_apply_feed`), from another program
with other rules: both slots and the web partition are erased when the header
arrives, the loader blob is written before the package is judged. A file is a
package, a device tree or a bare application; `Decide` is the first block. The slots
lie in one internal flash: `Second` units from APP1 to APP2 (`Gap` of them between the
slots) and `Internal` to its end (`Rest` behind APP2's slot), and an application is
erased and written as long as it is, through APP2 if need be (`EraseAppRange`, `Over`);
one that is longer than the flash ends in an endless loop of erases (`hang`). `Abort`
may come in front of every turn and between the two erases and the two writes of a
device tree. `ota` is the transfer that wrote PART_OTA last.

`DtsSlots` has the two sectors of the device tree, shared by two programs: the
loader writes both, the application chooses (`DtsValidate`, `Loaded`) and rewrites
the primary one when it is not valid (`HealErase`, `HealProgram`), interrupted
anywhere. `promise` is the tree that was reported written or was bound last.

### Ymodem

`host` is where `ymodem_send` stands, with its block and its tries; `board` is the
state of `Ymodem_Receive`; the two lines are queues. A damaged packet leaves bytes
on the line that the receiver reads one at a time, and one of them may be taken for
an end of file or a cancel (`Remains`). Timeouts are steps that are possible while a
line is empty, or while the other side has not looked at it for a second (`stalls`).

### DevConfig

`ram` and `bySave` are the settings and the request to write them, `magic` and
`flash` what PART_CONFIG holds. `rebuildCfg` is four steps of `writer`; the shell's
`debugLevel` is a read, a change and a request (`ShellReads`, `ShellSets`,
`ShellSaves`), the web's credentials are a change and a request. `Load` is what the
boot makes of what it finds. `crossed` is a history variable, read by no action: a change or a
request came while a save was under way, or a write failed.

### RxRing and LineQueue

`write`, `writeUsing`, `read` and `readUsing` are the four indices, `node` the data.
The interrupt's actions are those of `cbWrite` and `cbWriteFinish`, the task's those
of `cbRead`, `shell_input` and `cbReadFinish`, and nothing is atomic that the code
does not make so. The code masks indices with `2*size-1`; `RxRing` writes that as
arithmetic and `MCRxRing` has TLC compare the two for the sizes 1 to 8.

## 3. What is checked

| Run | Instance | Shows |
|---|---|---|
| `abota` | five images, `Spec`, no faults | `ActiveSlotHonoured`, `IdleSlotOnly`, `Safely` (refines `SafeUpdate`), `CopyCompletes` (liveness) |
| `abota_host` | the same, `HostSpec` | `BootIntact`, the inductive invariant `IInv`, `HostImageKept` |
| `abota_rollback` | as `abota` | violated: `OldSlotOrNew` |
| `loader` | three blobs | `TypeOK`, `OneLossSurvived`, `SuccessIsBooted` |
| `session` | two connections, two packages, of two and of three segments, the second with a CRC, malloc may fail | `FirmwareWhole`, `WebUploadWhole`, `WebBufferThere`, `HeapOwned`, the inductive invariant `IInv`, `OverrunNeedsTwo`, `HeapGivenBack` (liveness) |
| `session_splice` | the same, both packages with a CRC | violated: `StreamedWhole` |
| `rxring` | two nodes, lines of at most three bytes | the inductive invariant `IInv`, `HeldIsStable`, `DeliversLines` (refines `LineQueue`), `RoomAgain` (liveness) |
| `stream` | five packages, every segmentation, two uploads | `IInv`, `NeverTwice`, `RequestIsImage`, `WebIsImage`, `LoopEnds` (liveness) |
| `serial` | twelve files, every cut into blocks, two transfers | `IInv`, `NeverTwice`, `SuccessIsWhole`, `TreeKept`, `RecordOnlyWhole`, `LoopEnds` (liveness) |
| `serial_web` | as `serial` | violated: `WebSurvives` |
| `ymodem` | three blocks, two faults, two stalls | `TypeOK`, `SuccessIsFile`, `BothEnd` and `CleanSucceeds` (liveness) |
| `devcfg` | two levels, three networks, three changes, two failures | `Sane`, `RestIsSaved`, `IInv`, `FinallySaved` (liveness) |

The violated properties are statements of the code's own comments:

* `OldSlotOrNew` (`upgrade.h:85`: after a power failure the board still starts
  from the old slot). The loader switches a board to APP2; a later download writes
  the flag again; power fails between the erase of the flag's data or header and
  the end of the write. The record of the active slot is gone, and the loader
  falls back to APP1, where the application of two updates ago still is.
* `StreamedWhole` (`upgrade.h:79`: the header's CRC is over all that follows). A
  firmware upload for which there is no buffer is streamed; its connection is
  closed half way, which ends the session but not the stream; the next upload
  continues it. Its first segment, header included, is written behind the old half,
  the length fits, and the flag is committed with the CRC of what was written: the
  CRC of the package is not compared. The loader finds what it was told to find.
* `WebSurvives` (`upg_apply.c:6`: the web image is written, with the checksum in
  front as in the application). The loader's erase takes the exclusive end of a range for an
  inclusive one, so the write of the first sector with the checksum erases the
  second, and `used_size` becomes one sector. The update reports success; of the web
  image only what is in the first sector can be read.

Each property of a passing run has a mutant in `PROJECT.json`: a plausible bug,
written as an operator beside the one it replaces, that the property catches.

### Other divergences met while modelling

They have no run of their own. Those marked with a star are reproduced by an instance
or a property that differs from the ones above in a line or two, the others were read
off the code.

* (*) With `Faults` TRUE `BootIntact` is violated (`loader/User/app/main.c:902`: stay in
  the CLI, do not jump into a damaged image). A copy to APP1 verifies wrong; the
  flag is kept for another attempt and APP2 runs; a new download is started and
  interrupted; at the next reset the CRC of PART_APP1 is wrong, so the loader clears
  the whole flag, `active_app` included; the next choice starts with APP1, whose
  vectors are right.
* (*) `flash.sh:130` writes the cookie so that the loader does not use a pending update
  to overwrite what was just loaded. But the cookie comes last, and each load ends in a
  reset: if an update for APP1 is pending, the loader copies it over the new APP1
  before the cookie is there. The load of the cookie halts that copy; at the next reset
  the cookie names APP1, whose vectors are right, the record is rewritten for it, and a
  torn image is started. TLC finds it as a violation of `BootIntact` without
  `\/ spoilt`, in 22 states. Halted one step earlier, APP1 is blank: the cookie's record
  names it while APP2 runs, which is `ActiveSlotHonoured` violated. If the copy is done
  before the cookie comes, the board runs the update and not what the operator loaded; if
  the update was linked for APP2, its copy fills APP1 and is refused, and the cookie's
  record again names a slot that does not run.
* (*) The update's buffer is as long as the upload it was allocated for (`post.c:977`,
  `:227`), but what is copied to it is only measured against the length of the upload
  that copies (`post.c:1043`; `:255` does not look at all). A buffer survives its upload when
  the connection is reset (`http_err`, `httpd.c:2628`) and when another connection takes
  the update over: the heap flag is set, so `ota_prepare_heap` returns at once
  (`post.c:71`) and the buffer is not allocated anew (`post.c:940`). A longer upload then
  runs over its end. `OverrunNeedsTwo` says that this takes one of the two: one upload
  after another, each ended in an orderly way, is safe. TLC finds the overrun as a
  violation of `~over`.
* (*) `loader_ota.c:12` says the backup boots the board when PART_LOADER was
  interrupted. It does for one interruption (`OneLossSurvived`), not for two with
  different blobs: the second update erases the backup while PART_LOADER is still
  damaged.
* (*) `upg_apply.c:88` calls a skipped write equal to a write. The comparison reads
  through an erased header and finds the data equal; the header, which stage 0
  requires, is not repaired and the update reports success.
* (*) `post.c:212` and `httpd.c:3173` tie the buffer of a web upload to its connection.
  When the upload is reset half way, `http_err` frees the connection and leaves
  `gs_hs[0]` and the buffer; a JSON request whose connection gets the same address
  is taken for the web session, completes at once and is installed (that is why
  `WebUploadWhole` says `~rough`).
* (*) A setting that is changed while a save is under way is lost: the task clears
  `bySave` after the write (`devConfig.c:347`). If power fails after such a save the
  name of one network may stand beside the key of another. That is what `crossed`
  excludes.
* A network without a key is dropped at every boot, because `wifi_nv_str_ok` wants
  both strings; the page that asks for it says an open network may leave the key
  empty (`web/rom/index.html:46`).
* `debugLevel` copies all settings, changes one and puts all of them back
  (`shell_control.c:392`): a network that was set in between is undone.
* `post.c:900` says the length of the header is corrected when the first four bytes
  are there. It is not; a first segment of fewer bytes makes an older, shorter header
  be read as a longer one. The properties of `OtaStream` therefore speak of a header
  that was known (`HeaderKnown`).
* The loader reports a device tree written without having looked at its checksum
  (`ymodem.c:483`); the application then finds neither sector valid and uses the
  built-in table. `promise` is therefore only made for a tree that is good.
* `loader/doc/07-dts-partition-table.md:95` says that the loader's `custom` partition is at
  0xF00000; `loader/User/app/main.c:85` has 0xf04000. `tools/pack/genSpiImage.py:67`
  has the old address, where the device tree is.
* (*) The receiver tells packets apart by their number alone (`ymodem.c:320`). The empty
  name that ends a session has the number 0, and so has the last block of a file of
  256, 512, ... blocks: after enough damaged packets and late answers the sender is
  past that block while the receiver still wants it, takes the 128 bytes of the empty
  name for it and reports success. The proof of `SuccessIsFile` came upon it; TLC
  finds 31 steps to it with `Blocks` 2, `SeqMod` 2, `MaxTries` 6, `MaxErrors` 5,
  `MaxFaults` 7, `MaxQueue` 9 and `SuccessIsFile` without its exception
  (`EmptyNameFits`), and nothing with 4 faults instead of 7. It takes many faults
  in one session: the `ymodem` run, with 2, does not reach it.
* A bare application is accepted up to `YMODEM_MAX_FILE`, 2 MB (`ymodem.c:346`), and
  its range is erased from APP1 on (`:403`), although the loader has a message for an
  image that is too large (`download.c:99`) and a package's sections are compared with
  the slot (`upg_apply.c:234`). From the distance of the slots on, 352 kB, it takes APP2
  with it, from 736 kB on the backup of the loader at 0x080C0000; behind the end, 992 kB,
  `GetNextSectorAddr` returns the same address for ever: the guard against an endless loop
  (`ymodem.c:59`) compares with the start of the range and does not end it. A reported
  success still stands in the flash, in APP1 and behind it (`SuccessIsWhole`).
* In `Ymodem`, a lost acknowledgement ends the transfer, because the repeated block
  is refused (`ymodem.c:281`), but never damages it; an answer that the host reads
  more than a second late leaves one answer too many on the line for the rest of the
  transfer; noise that is read as an end of file can make the host report done while
  the board fails.

### Bounds

* Images `a0`, `b0` for APP1 and `a1`, `b1` for APP2: two per slot are enough to
  tell the old image from the new in either slot; `big` has no room in the
  loader's heap. An image linked for the wrong slot is any download of `a0` while
  APP1 runs. Downloads, resets and power failures are unbounded.
* Blobs `b1`, `b2` and `huge`, which PART_LOADER has no room for. `losses` at most 2.
* Two connections: the owner of the update and one that interferes; a third adds
  no new relation between an address and the globals (tried once with two packages of
  two segments, 132,513 states, the same result). Two packages: the one before and the
  one after, either the longer; three segments: the first, which carries the header, a
  middle and the last; two segments, so that the third is behind the shorter one's buffer.
* `stream` and `serial`: sectors of two units and an area of three sectors, so that
  a write begins in, ends in and crosses a sector; sections of 0 to 6 units, so that
  they are empty, within a sector, at its end and too long for the partition;
  segments and blocks that end in any of them. Two uploads or transfers: one onto
  blank flash and one onto what the other left. Three transfers were tried once
  (192,784 states, the same result, before the applications that are longer than a
  slot). `serial` has `Gap` and `Rest` 2 and such applications of 11 units, which end
  in APP2's slot, and of 17, one more than the flash has.
* `rxring`: two nodes, as the code is compiled, and lines of three bytes, so that a
  line ends by a byte, by its length and by a pause. Nothing is counted: the
  interrupt goes on for ever.
* `ymodem`: `Blocks` 3 with `SeqMod` 3 for 256, so that the sequence number comes
  round; `MaxTries` 4 for 10 and `MaxErrors` 2 for 5, so that both are exhausted by
  the faults there are; `MaxFaults` 2, `MaxStalls` 2, `MaxQueue` 8.
* `devcfg`: three changes, so that two meet in one save and one follows; two
  failures, of power or of a write.

States: 12,292 distinct (`abota`), 221,997 (`abota_host`), 2,748 (`loader`), 216,287
(`session`), 3,207 (`rxring`), 37,493 (`stream`), 24,532 (`serial`), 98,112
(`ymodem`), 41,732 (`devcfg`). `stream`, `ymodem` and `devcfg` do not check deadlock,
because there the bounded uploads, the session and the bounded changes do end.

### Fairness

* `AbOta`: weak fairness of `FlagWrite`, `Loader` and `Reboot`: the loader and a
  flag write are straight-line code with bounded waits, and the application resets
  itself two seconds after a commit (`sys_reboot_delay` blocks the thread that
  serves uploads, so nothing changes in between). Nothing is assumed of downloads or
  of the operator. `CopyCompletes` assumes besides that power eventually stops
  failing: no design could finish otherwise.
* `OtaSession`: per connection "it receives or is closed": `http_poll` closes a
  connection after four polls without data (`HTTPD_MAX_RETRIES`). `HeapGivenBack`
  holds for orderly clients; a reset, or a header that stops half way, leaves the
  background tasks suspended until the next upload.
* `RxRing`: the shell task, which polls in an endless loop, goes on; nothing is
  assumed of the line.
* `OtaStream` and `SerialUpdate`: the loop runs to the end of its segment or block,
  and the answer follows; the next segment or block need not come.
* `Ymodem`: both programs go on. All their waits are limited by timeouts.
* `DevConfig`: the boot and the save task go on, and the shell and the web finish
  what they have begun. Nobody has to change anything.

## 4. What is proved

All theorems are for any set of images, any linking, any blobs; those about
`OtaSession` for any connections and packages of any lengths; those about
`OtaStream` and `SerialUpdate` for any sector size and partition, any packages or
files, any segmentation and any number of uploads, `SerialUpdate` for any gap between
the slots and any rest behind them; those about `RxRing` for any
number of nodes and length of lines; those about `DevConfig` for any levels,
networks, changes and failures; those about `Ymodem` for any number of blocks, any
sequence modulus from 2, any limits and any number of damaged packets and stalls.
They use the modules' named assumptions and the conditions the table shows, nothing
else. Every invariant and every action property of a passing run is stated by one
of them.

| Theorem | States |
|---|---|
| `AbOtaProofs!TypeCorrect` | `HostSpec => []TypeOK`, also with faults |
| `AbOtaProofs!IInvCorrect` | `~Faults => (HostSpec => []IInv)` |
| `AbOtaProofs!BootsIntact` | `~Faults => (HostSpec => []BootIntact)` |
| `AbOtaProofs!HonoursActiveSlot` | `~Faults => (Spec => []ActiveSlotHonoured)` |
| `AbOtaProofs!HonoursActiveSlotHost` | `~Faults => (HostSpec => [](spoilt \/ ActiveSlotHonoured))` |
| `AbOtaProofs!TouchesIdleSlotOnly` | `~Faults => (Spec => IdleSlotOnly)` |
| `AbOtaProofs!ImplementsSafeUpdate` | `~Faults => (Spec => Safely)` |
| `AbOtaProofs!KeepsHostImage` | `~Faults => (HostSpec => HostImageKept)` |
| `LoaderMediaProofs!TypeCorrect` | `Spec => []TypeOK` |
| `LoaderMediaProofs!SurvivesOneLoss` | `Spec => []OneLossSurvived` |
| `LoaderMediaProofs!BootsReportedSuccess` | `Spec => []SuccessIsBooted` |
| `OtaSessionProofs!IInvCorrect` | `Spec => []IInv` |
| `OtaSessionProofs!FirmwareWholeCorrect` | `Spec => []FirmwareWhole` |
| `OtaSessionProofs!WebUploadWholeCorrect` | `Spec => []WebUploadWhole` |
| `OtaSessionProofs!WebBufferThereCorrect` | `Spec => []WebBufferThere` |
| `OtaSessionProofs!HeapOwnedCorrect` | `Spec => []HeapOwned` |
| `OtaSessionProofs!OverrunNeedsTwoCorrect` | `Spec => OverrunNeedsTwo` |
| `RxRingProofs!RingInvariant` | `Spec => []IInv` |
| `RxRingProofs!ShellReadsStableLine` | `Spec => HeldIsStable` |
| `RxRingProofs!RingDeliversLines` | `Spec => DeliversLines`: refinement of `LineQueue` |
| `OtaStreamProofs!TypeCorrect`, `IInvCorrect` | `Spec => []TypeOK`, `Spec => []IInv` |
| `OtaStreamProofs!NeverTwiceCorrect` | `Spec => []NeverTwice` |
| `OtaStreamProofs!RequestIsImageCorrect` | `Spec => RequestIsImage` |
| `OtaStreamProofs!WebIsImageCorrect` | `Spec => WebIsImage` |
| `SerialUpdateProofs!TypeCorrect` | `Spec => []TypeOK` |
| `SerialUpdateProofs!TreeKeptCorrect` | `Spec => []TreeKept` |
| `SerialUpdateProofs!RecordOnlyWholeCorrect` | `Spec => RecordOnlyWhole` |
| `SerialUpdateProofs!NeverTwiceCorrect` | `Spec => []NeverTwice` |
| `SerialUpdateProofs!IInvCorrect` | `Spec => []IInv` |
| `SerialUpdateProofs!SuccessIsWholeCorrect` | `Spec => []SuccessIsWhole` |
| `YmodemProofs!TypeCorrect`, `SessionInvariant` | `Spec => []TypeOK`, `Spec => []IInv` |
| `YmodemProofs!SuccessIsFileCorrect` | `Spec => []SuccessIsFile` |
| `YmodemProofs!SuccessIsWhole` | if `Blocks % SeqMod # 0`: a success is the file, block for block |
| `DevConfigProofs!ConfigInvariant` | `Spec => []IInv` |
| `DevConfigProofs!BootIsSane` | `Spec => []Sane` |
| `DevConfigProofs!SavedAtRest` | `Spec => []RestIsSaved` |

`~Faults` cannot be dropped: setting `Faults` to TRUE gives a counterexample. Nor can
`spoilt`, which `BootIntact` and `HostImageKept` name themselves, and `over`, which the
properties of `OtaSession` name: they stand for what the code does wrong (section 3), and
say that nothing else leads there. `Blocks % SeqMod # 0` is what the sequence number leaves
(section 3); `SuccessIsFile` itself needs no condition, it names the exception.

**The argument for AbOta.** `BootIntact` is not inductive: that an application is
whole when it is started depends on the record the loader read, which depends on
what stood in flash when power last failed. `IInv` adds

* `FlagsGood`: a readable record, one about to be written, or the cookie names a
  slot that holds a whole image;
* `Loaded`: between the loads of `flash.sh` APP1 is whole unless an update is being
  copied over it;
* `HalfWrittenHidden`: half an image in APP2 implies a whole APP1, and half an
  image in APP1, the slot the loader tries when there is no record, exists only
  while a readable pending record makes APP2 active and will make the loader
  redo the copy at the next boot. This is the heart of the matter: the loader keeps the flag until
  the copy verified, and nothing but the loader writes the flag meanwhile;
* `Copying`, `Chosen`, `Writing`: what the loader's local variables mean at each
  program point (what the idle slot holds at each step of the copy; that a choice
  of APP2 is backed by the record; that a record is being written for the slot the
  choice names).

The step proof is one case per action. The two action properties and the refinement
use `IInv` at the current state: only `CopyErase`, `CopyHead` and `CopyTail` write a slot, and there
`Copying` and `FlagsGood` make the other slot whole (`IdleGood`). The refinement
maps `have[s]` to the image of slot `s` if it is whole, `running` to the slot that
runs, and each step to at most one of `GiveUp`, `Install`, `Start` and `Stop`.

With an operator, `IInv` is `TypeOK /\ (spoilt \/ Sound)`: all of the above holds until
a cookie calls for a damaged APP1, and says nothing from then on. `Spec` has no operator,
so `spoilt` stays FALSE and the properties hold without it.

`HostImageKept` has two halves. The cookie is loaded beside an APP1 that is not whole only while
an update for APP1 is pending: that is `Loaded`. From a cookie beside a good APP1 to the
end of the boot, APP1 is valid and chosen and the cookie is there or was honoured
(`HostKept`), and the cookie is looked at before PART_OTA.

**The argument for LoaderMedia.** `Survival` says which copy is whole while the
other is being written, `Success` that from the comparison on the backup is the
new blob and that PART_LOADER, once touched, loads only as the new blob.

**The argument for OtaSession.** A firmware without a CRC is accepted on its magic
alone, so that it is whole must come from the session: `Filled` says that what the
owner has received stands in the buffer, in order; `Registered` that a registered
firmware update belongs to a firmware upload or to a JSON request on a reused
address (which has no magic to offer); `Counted` and `Balanced` that no segment of
a firmware body is skipped. `MInv` is about one memory, so the lemmas follow the
call graph: one per C function, from the memory it is given to the memory it
leaves (`PostFinishedInv`, `CloseAllInv`, `PrepareHeapInv`, `RegisterInv`, ...), and
the steps compose them as the callbacks compose the functions. A closing
connection empties the buffer of everybody; the proof goes through because it also
takes the ownership away (`PostFinished`), which is the mutant
`PostFinishedOwned`. A web image has not even a magic: for it, and for the heap, a
second layer (`Orderly`) says what holds while no client has ended behind the
server's back: an update's owner is an upload of that kind in its body, with all it
received in the buffer or nothing received at all, and a heap flag belongs to a body
that goes on. All of this is up to the first overrun. That an orderly upload does not
overrun (`OverrunNeedsTwo`) is in the same layer: a buffer was allocated for an upload
that goes on, so that it is too short only for another one.

**The argument for RxRing.** `Hands` says how far each side may be ahead of its
finished index, `Contents` what every node holds, counted from the read index:
finished lines, then at most one that is being filled, then empty ones. That is why
the two sides, which look at each other's index without a lock, never meet in a
node, and it is what makes appending to a node that is taken up anew start an empty
line. The refinement counts the lines of the abstract queue from the same index.

**The argument for OtaStream.** Two layers. The first (`Counted`, `Placed`) is about
the flash alone: each partition holds the sequence written so far and is erased from
there to the end of the sector (`Holds`, `ClearBehind`), so that the next write meets only
erased cells whether or not it begins a sector; that gives `NeverTwice`. The second
(`InStep`) ties the context to the stream: if the header was taken for as long as it
is, then in each phase the number of units taken is the length of the sections in
front and of what the phase has counted (`Sectioned`, `Position`), hence what is
counted is the section itself; that gives `RequestIsImage`, and, through the sector
that is read and rewritten, `WebIsImage`.

**The argument for SerialUpdate.** For the device tree, `TreeInv`: while a tree
comes, both sectors hold the beginning of what is sent and erased cells behind it,
one of them perhaps one block further; nothing is promised until all of it is there; a torn
slot is as good as an empty one (`TornInvalid`: the header asks for more than there
is); while one slot is healed, what is bound is the tree that is written into it.
For the boot record, `Typed` bounds the context's counters and keeps `st.crc` a
sequence of what was sent, which a wrong checksum is not.

What stands in the flash takes two more layers, as in `OtaStream`; `Whole` is all of
them. `Progress` is about the context: `InOrder` says that the sections before the
phase are complete and those behind it not begun, `Taken` is the sum of what is
counted, and the units taken are the header and that sum, hence the checksum ran over
the beginning of the body and each piece is the piece it should be. `Standing` is
about the flash: behind each counter stands what was sent (`Behind`), in front of it
everything is erased (`Ahead`); the first unit of the web partition is a placeholder
until `Finish` rewrites its sector (`WebPlaced`, `WebWhole`). `NeverTwice` is part of the
invariant: a step keeps `Standing` because nothing was programmed twice, and nothing
is because of `Ahead`. `Kinds` ties the phases to the kinds of files and to the program
counter. Proving it changed the model in two places: the sizes of the header are
compared with the slots (`SizesOk`), which is what keeps fw1 out of APP2, and
`Advance` was a CASE whose guards overlap, which means any of the alternatives.

**The argument for Ymodem.** Every packet has a place: the name, the blocks, the empty
name. What is on the line is in the order of the places and the sender's is the latest (`Ordered`),
so what the receiver still sees is never before what it has seen (`Past`). What it
has written it does not write again, because the place is past or the number is not
the one wanted (`Written`), so the places in its log grow (`Growing`); and the numbers
of the blocks written since the last name count from 1 (`Numbered`). As many
growing places as there are blocks are the blocks themselves, unless the last is the
empty name, and then the numbers must agree. The answers to the sender play no part:
whatever is lost or invented on that line, the sender only goes forward.

**The argument for DevConfig.** `RamOk`, `CopyOk` and `FlashOk` say that RAM, the
shell's copy and flash each hold settings somebody entered, `SaveOk` what a save has
written at each of its steps. Once a change has met a save (`crossed`) the
last says nothing any more and the others speak of each string by itself, no longer
of pairs.

**Only model-checked**: the liveness properties `CopyCompletes`, `HeapGivenBack`,
`RoomAgain`, `LoopEnds` (twice), `BothEnd`, `CleanSucceeds` and `FinallySaved`, which
are out of the proof system's reach, and the three violations.

## 5. Abstractions

* A torn page reads as an erased one: the models interrupt between flash
  operations; the exceptions are the copy of `AbOta` and the healing of a device
  tree, which may stop after any number of units. An erase is one step. The CRC
  identifies what it was computed over.
* A single `pyocd load` is one step and runs to its end; the target is halted while it
  is written. `flash.sh web`, `loader` and the others do not touch the slots.
* SPI writes of the flag succeed unless power fails. Their error returns only log.
* An image for APP2 may be downloaded while APP2 runs and the other way round: the
  code does not look at the linking before the copy (it refuses after it).
* The factory puts a loader in PART_LOADER before stage 0 runs for the first time.
* `OtaSession`: an upload is whole segments; the header of the package, or of the
  multipart body, is in the first one; a JSON body is shorter than any package; firmware comes
  as the raw body that `main.js` sends. A body that comes with its header is a
  separate receive. malloc fails for a whole package, never for a segment. GET
  connections hold nothing of the session and are left out. A connection whose
  POST is finished is closed in the same step: it has nothing left to give back. An
  installed firmware restarts the board in the same step (`os_reboot_delay_sec`
  blocks the thread). A segment that runs over the end of the buffer is kept in the
  model where the code would damage its heap; no property claims anything from then on.
* `OtaStream`: an upload arrives whole or power fails; cuts and takeovers are
  `OtaSession`'s. Writing a section's piece and what follows it in the same turn of
  the loop are one step.
* `SerialUpdate`: a transfer delivers every block once and in order, or ends;
  damaged blocks are `Ymodem`'s. The internal flash has sectors of the size of the
  SPI flash's; it has larger ones. What lies between and behind the slots (`Gap`, `Rest`)
  has a length and no contents: that an application of that length erases the loader's
  backup is not in `LoaderMedia`. "cli" also stands for the running application.
  `dts_write_slot`'s comparison finds a difference in every slot that is not valid.
  The rewrite of the web image's first sector and that of PART_OTA are one step,
  `Finish`: power does not fail between them.
* `Ymodem`: a packet is read whole or damaged; blocks are counted and not looked
  into.
* `DevConfig`: a setting is a level, a name and a key; a failed write writes nothing.
  `Load` puts the settings right in the step that reads them. The code says that they are
  ready before it has put them right (`devConfig.c:418`), but does so in a task of
  priority 4 (`main.c:701`), and the save task, which waits for that, has 3 (`:377`).
* Not in `AbOta`: the MAIN_APP build, the CLI's `go`, the serial update.

## 6. Not modelled

* **Third-party code** is most of the repository: FreeRTOS, lwIP, FatFs, cJSON, the
  MQTT packet library, CMSIS, the ST peripheral and USB libraries and their device
  headers, each of them once for the loader and once for the application, code pages
  and fonts included. Of some 440,000 lines of C the program's own logic is a few
  thousand, and the part of it that keeps state across calls is smaller still. The
  models map that part; a larger share of all lines could only be had by modelling
  libraries that are not this program's work.
* **Stage 0's XMODEM receiver**: YMODEM's acknowledgements without a name block.
* **The loader's countdown and command line, shell, telnet, the JSON tree**: parsing
  and dispatch, sequential, with next to no state. `AbOta` has what the loader's CLI
  means for the boot.
* **Device registry**: filled while the board starts, by one task.
* **Lookups in the device tree and the partition table it fills**: pure functions of
  a bound tree. The models have one layout for both programs; the application takes
  its own from the tree (`flash_manage.c:407`).
* **Tasks, heap, log**: wrappers of FreeRTOS. `OtaSession` has the suspended tasks
  and the heap flag.
* **Network services, buttons, drivers**: callbacks of libraries and register-level
  input and output.
* **Packaging, host tools, the browser page**: offline; the sender of `flash_upg.c`
  is in `Ymodem`.

## 7. What is left

1. The serial update as another writer of `AbOta`'s slots: what the loader starts
   after a package that was refused half way.
2. Stage 0's XMODEM as a second instance of `Ymodem`'s receiver.
3. The buffered package's section parser, and a refinement "one package, whole or
   not at all" that covers both the buffered and the streamed way.
4. The internal flash as a whole in `LoaderMedia`: an application long enough to erase
   the loader's backup.
