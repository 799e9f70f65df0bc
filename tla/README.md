# RGBuildPP in TLA+

RGBuildPP reads, takes apart and builds the flash images of Xbox 360 consoles. This directory holds
TLA+ modules that model its core, TLC configurations that check them on small instances, and proofs
about them that TLAPS checks for every value of the constants.

`FS` stands for `src/RGBuildPP/CXeFlashFileSystem.cpp`, `DRV` for `CXeFlashBlockDriver.cpp`, `IMG` for
`CXeFlashImage.cpp`, `BL` for `CXeBootloaders.cpp`, `KV` for `CXeKeyVault.cpp`, `SF` for `SFCX.cpp` and
`MAIN` for `RGBuildPP.cpp` in the same directory.

- [The system](#the-system)
- [The modules](#the-modules)
- [The runs](#the-runs)
- [What disagrees with the code's own words](#what-disagrees-with-the-codes-own-words)
- [The proofs](#the-proofs)
- [What is only model-checked, and what is not modelled](#what-is-only-model-checked-and-what-is-not-modelled)
- [Plan](#plan)

## The system

One process and one thread: the command line (`RGBuildPP.cpp`) either loads an image and dumps it, or
reads an ini file that describes an image and saves the image. Everything works on one buffer in
memory, `pbImageData`. Nothing runs concurrently but the flash chip of a console, whose commands the
program waits for. What is hard is the state: five layers keep state
about the same bytes, calls report failures that are none and hide failures that are some, and every
layer computes positions in the image by its own rule.

| component | state | operations | correct when |
|---|---|---|---|
| File system, `CXeFlashFileSystemRoot` (FS) | block map, directory, number of files; data and root in the image | `FileAdd`, `FileSetData`, `FileGetData`, `Save`, `Load`, and the chain routines under them | no block is in two chains; no chain runs into a free or reserved block; no block is lost; a call replaces a file whole or not at all and disturbs no other; a load from an older root finds each file's first block still its own |
| Block driver, `CXeFlashBlockDriver` (DRV) | the buffer, geometry, layout of the spare bytes | `Read`, `Write`, spare access, `CreateDefaults`, `OpenImage`, `SaveImage`, `DetectSpareType`, flash configuration, device access | seen through `Read` and `Write` the pages are one flat array of data; spare bytes change only through the spare routines; no access leaves the buffer; every saved page has its error code; the layout is recognised again |
| Flash image, `CXeFlashImage` (IMG) | lists of file systems, mobile files, payloads; the loaders | `SaveContinue`, `LoadContinue`, `CreateFileSystem`, `SaveFileSystems`, `LoadFileSystems`, `MobileAddFile`, `PayloadAddFile`, `ReadImageIni` | what is saved is what a load finds; no part is written over another; the latest version of each thing is chosen |
| Bootloaders (BL, IMG) | header, data, key and "is decrypted" of each loader | `Load`, `Save`, `Crypt`; the chain of keys and addresses | each loader is saved where and with the key with which it is looked for; data is never encrypted or decrypted twice |
| SMC and keyvault (KV, BL) | data, "is decrypted" | `Load`, `Save`, `Crypt`, `Munge` | the flag says what the data is |
| Command line (MAIN) | the options | one load and dump, or one ini read and one save | the options say what is done, and to which files |
| NAND controller (SF) | registers, the chip | pages and blocks read, written, erased | a device save interrupted anywhere loses no more than it must |

**How they meet.** `CXeFlashImage` owns the driver, the loaders and the list of file systems. Files go
straight to the image when `FileSetData` is called, at block number + `dwFSOffset`; the block map and
the directory go there on `Save`, without the offset, together with the version and the type in the
spare bytes. `LoadFileSystems` finds roots by scanning spare bytes and takes the highest version.
`SaveBootloaders` puts the tail of a 7BL into a file of the file system, so loaders and files share
the map. `SaveImageFile` calls `SaveContinue`, then `LoadContinue` on the same buffer, then
`SaveImage`, and looks only at the result of the last.

**What is hard here.** Growths that stop half way and are called again; the same block numbers used
with and without an offset; hidden files that come back after a load; loads from a root older than the
map in memory; positions in pages with and without spare bytes; fields of the spare bytes that share a
byte with the error code; limits (a full map, a full directory, a chain at the walk's limit, an empty
payload, an image shorter than its configuration). `PROJECT.json` lists these hazards line by line.
The repository has no tests.

## The modules

| module | models | state | actions |
|---|---|---|---|
| `FlashFileSystem` | FS without `Save` and `Load` | `blockMap` (`pwBlockMap`), `entries` (`pfsEntries`), `count` (`cfsEntries`), `disk` (one cell per lil block), `reply` (the code of the last call, and whether an allocation was logged as failed), `fault` | `FileAdd`, `FileSetData` with every branch of `ChainSetChainData`: `Rewrite`, `Extend`, `Exhaust`, `Shrink`, `ClearLength`, `Derail` |
| `FileStore` | what callers of FS rely on | number of files, content of each | `Create`, `Replace` |
| `FlashFileSystemRoot` | extends it by `Save` and `Load` | what the root block holds | `AddFile`, `SetFile`, `Save`, `Load` |
| `FlashBlockDriver` | `Read`, `Write`, spare writes, creating, opening and saving an image, DRV | `image` (`pbImageData`, byte by byte), `phase`, `reply`, `fault` | `CreateDefaults`, `OpenImage`, `Write`, `WriteSpare`, `SaveImage` |
| `FlatStore` | what the other layers take the driver for | an array of bytes | `Put`, and `CreateDefaults`' reset |
| `SpareArea` | layouts of the spare bytes, `DetectSpareType`, the saves that write them | the spare bytes of three pages | `SaveRoot`, `SaveMobile`, `SaveImage` |
| `SpareRecord` | what users of the spare bytes rely on | a record of fields | `Update` |
| `FlashConfiguration` | extends `SpareArea` by the geometry: `OpenContinue`, `LoadFlashConfig`, and `sfcx_init`'s reading of the same word | length, page length, configuration word | the initial states `Created`, `Dumped`, `Attached`; `Reopen` |
| `FlashDevice` | `OpenDevice` and `SaveDevice` (DRV) on the routines of SF, and the chip (external) | `flash`, `image`, loop variables, `issued`, `busy`, `writable`, `power` | `OpenDevice`, `SaveDevice`, the steps of a routine (`ReadCommand`, `ReadDone`, `WriteCommand`, `EraseDone`, `WriteDone`), `Edit`, `Finish`, `PowerCut` |
| `FlashImage` | extends `FlashFileSystemRoot` by the lists of IMG: mobile files, payloads, update files, several file systems | `waiting`, `payloads`, `jobs`, `tags` (versions in the spare bytes), `mobiles`, `latest`, `latestMobile`, `phase` | `MobileAddFile`, `PayloadAddFile`, `AddIniFile`, `SetIniFile`, `SavePayloads`, `SaveUpdate6BL`, `SaveUpdate7BL`, `SaveFileSystems`, `LoadFileSystems` |
| `Bootloaders` | the loaders of BL: what `Load`, `Save` and `Crypt` of each class make of data, key and flag | none (operators) | |
| `Keyvault` | key vault (KV) and SMC (BL): the cipher, its check, munging | none (operators) | |
| `CommandLine` | the loop over the arguments in MAIN | none (operators) | |
| `ImageLoaders` | `SaveBootloaders` and `LoadBootloaders`: the chain of keys and addresses, digests, update slots | none (operators) | |
| `ImageParts` | runs of the program, one after the other over one directory: composes the four modules above | options, memory, image, directory, ini files, saved images | `Start`, `NothingToDo`, `LoadImageFile`, `Dump`, `Finish`, `MendIni`, `ReadImageIni`, `ReadCut`, `SaveContinue`, `ReadBack`, `SaveImage` |
| `MC...` | instances for TLC | | |
| `..._proofs` | theorems and their proofs | | |

The modules compose along the layers. `FlashFileSystemRoot` and `FlashImage` are the core file system
with the root and the lists of the image beside it; `FlashConfiguration` decides the layout in which the
actions of `SpareArea` then write; `ImageParts` puts loaders, vaults, SMC and options together. The file
system sees the driver as an array of cells: that the driver is one (for whole blocks, which never cross
a page end) is what `DataFlat` shows. `ImageLoaders` sees the file of an update slot as a number of blocks
and a content, by the rules of `FileSetData`; `FlashImage` has the same two calls on the map itself.

**Correspondence.** One action is one call, with everything it changes. A call that recurses
(`ChainSetChainData` calls itself after allocating or freeing) is one action: `Shrink` frees and then
writes; the recursion after an allocation is never reached, because the first success of
`ChainAllocBlock` is taken for a failure (`Extend`), except with a full map, where it never ends
(`Exhaust`). Undefined behaviour ends a run of the model: `fault` names the way out ("wild": a walk
off the map; "underflow": `chain[-1]`; "recursion"; "overflow": past the directory or, in the driver,
the name of the routine that left the buffer), and no action is enabled afterwards. So nothing is
claimed about a program past that point, and `FaultsExplained` and `DataNeverOverruns` say when the
point can be reached at all.

**Abstractions.** A payload is a model value with a number of blocks; block k of payload d is the cell
`<<d, k>>`, and lengths are counted in blocks. Names are model values, and `Stored` says what `FileAdd`
keeps of each (a name of 23 characters loses all of them). `Chain` is the least set closed under the
map, not a walk, so that it needs no recursion; `Place` recovers the order from the sizes of the tails.
Time stamps, the byte order and the 0x05 of deleted files are left out. The block map of one root block
is modelled, not the chain of several that `Load` could follow: `CreateFileSystem` never makes one.
In the driver bytes are numbers from a small set and the error code is any function of a page.
In `SpareArea` bytes are 0..255 and positions are the code's; in `FlashConfiguration` so are words and lengths.

In `FlashImage` a payload is a range of blocks and the length of its name, and a mobile file its type, sequence and number of
pages; `SavePayloads` stands for the first part of `SaveContinue`, payloads, header and SMC, whose writes go to no block of the map. Whether header and
SMC fit the image is left open. Marks on words of the map's buffer behind the last block touch nothing else and are not kept.
`LoadFileSystems` starts from files found whole: how pages that carry the tag of a mobile file are grouped
(`IMG:501-539`) is left out. An image with its header overwritten is not read back.

A part (a loader, a vault) is the text it holds and the set `under` of the keys it is encrypted with.
Encrypting with a key is adding it, or taking it away when it is there, as RC4 does: so data decrypted
twice, or with the wrong key, is not plain and stays traceable. A key is the sequence of names it is
derived from. Addresses keep the code's rule (sums of lengths, one side rounded up to a line), in units
of 4 bytes.

In `FlashDevice` pages hold "old", "new", "blank" or "noise". A routine is two steps, the command and the
end of its wait. The chip is external: it programs blank cells only, a worn block may end a command with
noise, and power may fail at any step. `overrun` marks a page read past `pbImageData`.

## The runs

No run is cut off by a state constraint: directories, maps, images and the files to choose from are
finite by themselves. `CHECK_DEADLOCK FALSE` is set where the program may really stop: after a fault,
and after `SaveImage`, with which the program ends.

| run | instance | shows |
|---|---|---|
| `session` | 6 blocks, 1 reserved, root in the middle, 2 slots, payloads of 1 to 3 blocks, a name that is kept and one that is lost | the structure of the map in all orders of additions, growths and shrinkings up to a full map and directory (`NoCrossLink`, `LinksLive`, `NoLeak`, `SystemBlocksKept`), no name twice but a lost one, faults only at a limit, and that the files implement `FileStore` (`FilesIntact`) |
| `limits` | `ChainLimit` 3, payloads of 0 to 3 blocks, `FSOffset` 2 and an image that lacks the last block's cell | `LimitsExplained`: a chain grows up to the limit of the walk and no further; a file whose chain is at the limit is lost for good, and only such a file can be emptied, or, besides one with a block behind the image, be unreadable |
| `reload` | 5 blocks, 3 of them free, 2 slots, 2 names | saves and loads in any order among the calls: `NoCrossLink` and `LinksLive` again, `RootSurvives`, `SavedHeadsKept`, and that a block is lost only with the slot of a hidden file (`LostOnlyByReuse`) |
| `paging` | 2 pages of 4 bytes and 1 spare byte, strings of 3, 4 and 6 bytes | the driver implements `FlatStore` (`DataFlat`); `SpareKept`, `ReadsBack`, `DataNeverOverruns`, `CodesRight` |
| `short_image` | the same with a buffer of 8 bytes instead of 10 | `DataFlat` until a routine that checks nothing leaves the buffer |
| `spare` | seven images an ini may ask for, seven dumps and seven controllers, with the code's lengths and words; versions of one to four bytes, codes of zeros and of ones | `ReopensAlike`: a saved image is opened with the geometry and layout it was saved with, unless its bytes tell none; `ControllerAgrees`: driver and controller read a word alike; `FieldsApartWhileOpen`: the spare bytes implement `SpareRecord` |
| `device` | 2 or 3 blocks of 2 pages, a buffer of 2 blocks, any blocks worn | `AtMostOneTorn`: wherever a save ends, one sound block at most has neither its old nor its new content; `OpenedWhole`; `CallsEnd` (liveness) |
| `image` | 7 blocks, 1 reserved, 3 slots, up to 2 payloads of 1 or 2 blocks anywhere, some past the map, some with long names, 2 mobile types, rests of a 7BL of 1 to 3 blocks; consoles with up to 3 file systems and 2 mobile files of up to 4 pages, room for 2 file systems and 3 pages | `PayloadsApart`, `LossExplained`, `NewestChosen`, `VisibleWhole` (below) |
| `parts` | 10 consoles (retail, devkit, beta kit, build 1838, two 2BL, a 4BL sealed with the CPU key, big blocks), 12 kits of plain parts, 7 command lines, one after another | `FoundWhereSaved`, `Extracted`, `CalledDecrypted`, `OwnFilesRead` (below) |
| `allocation_report`, `corona`, `big_blocks` | | the three disagreements of the next section |

**What `image` shows.** A payload is laid over whatever the ini says, and only the order of the ini
(payloads before files) keeps it off the files' chains; that order is enough, also for the update files
that grow while the loaders are saved (`PayloadsApart`). An image with a mobile file is read back without
its file system: `SaveFileSystems` takes the block it just got for a failure and returns before the roots.
On a full map it goes on and writes the file over the header. An image too short for its header or its SMC
ends `SaveContinue` before loaders and file systems, and `SaveImageFile` goes on as if it had not (phase "cut").
These are the only ways to lose file system or header here. The modelled calls leave defined behaviour only
for a payload on the root's block or marked past the buffer of the map (`PastMap`), for descriptors that
overrun the header's buffer (`Descriptors`), for a full map or directory, for more file systems or mobile pages than
`LoadFileSystems` has places for (`TooMany`), and for files that are empty or too long for `ChainGetChain`
(`LossExplained`). Files of the ini never get their data, because `FileAdd` returns 2 for a file it added; after the reload they are hidden.
What is visible is an update file, whole, or one block of memory nothing was written to (`VisibleWhole`).

**What `parts` shows.** `FoundWhereSaved` and `Extracted` name every case in which a loader is *not* found
plain: all of a chain that runs into the update slots (`Fits`); one whose predecessor's length is no multiple
of 16, as the two sides then count differently (`Placed`); a 3BL, which is never flagged as decrypted, and what
follows it (`Keyed`); update slots whose system file the ini does not list, or with a 6BL as long as the slot
(`SlotReached`); a 7BL that needs more than two blocks of its file or comes after one that was stored, and every
7BL once any slot's system file had to be added, as `SaveBootloaders` has returned by then (`SevenWhole`; the
proof found this last case, and a kit was added in which TLC meets it); on consoles, a 4BL sealed with the CPU key, and the 7BL of a
big block image. In all other cases they come back. `Extracted` goes by the keys a run really has (`Cpu`, `Key`): of a
header build below 1839 both are overwritten with zeros (`IMG:143`), and only of one below 1838, a beta kit, taken
away (`IMG:187`). So build 1838 is read as retail images are but with zeros, and `RightKeys` asks for a console that was
sealed with them; `parts` has one that was and one that was not. A 6BL that stays encrypted has a
number of blocks that is noise, and `CXeBootloader6BL::Load` turns as many words past its array (`BL:666`): the run may end there
(`Garbled`, the fault), or, when the noise happens to be small, go on as modelled. The count of a console's plain 6BL is taken to fit
its file (`Listed`). `CalledDecrypted` has two parts. `DumpTrue`: a file
called decrypted is; a vault the key did not open is dumped as it was. `FlagsTrue`: with whatever keys, a vault or a 4BL flagged as decrypted is,
though the second try on a 4BL starts from what the first has changed.

**Why the bounds are enough.** Two files are the least that can be cross-linked, and one of them must be
able to grow by more than one block, be cut, and have its blocks taken by the other: payloads of 1 to 3
blocks on 4 free ones do this with the root in the way of first-fit allocation, and fill the map.
Hiding needs a slot behind an empty one: two. Transfers of 3, 4 and 6 bytes on pages of 4 are
shorter than a page, as long, and longer, at every offset, so every case of the loop's first piece and
of its last occurs; transfers of three and more pieces need more pages than TLC can carry byte by byte
and are covered by the theorem `StoresFlat`. In all these places the theorems below lift the bounds.

Two update slots, two payloads, two mobile files of a type and one file system more than there are places are
the least on which "latest", "overwritten" and "after a stored one" mean something. `image` needs rests of
1, 2 and 3 blocks, since a file has one block when it is added and grows by one in each of the two
passes. `parts` has each kind of console the code distinguishes, alone and followed by runs on its own dump.

**Named limits.** `ChainLimit` stands for 0x600, `PayloadLimit` for `MAX_RGB_PAYLOADS`, `RootPlaces` for 0x77,
`PagePlaces` for the 4096 of `IMG:484`, `HeaderRoom` for the 0x17C bytes behind 0x84 of the header, `MapWords` for the
buffer of the map, `MaxEntries` for the directory's buffer, `Limit` for the blocks in 69206016 bytes: these are the code's, made
small. `PayloadRoom`, `Sizes` and the sets of consoles, kits and command lines bound the inputs.

**Fairness.** `FlashDevice` alone assumes any: weak fairness of the program's own steps within a routine
(`Step`), since the routines only loop and nothing else runs on that processor, and of the chip ending a
command (`Finish`), which the code relies on in its unbounded waits and which lies outside it. No
fairness is assumed of the calls: nothing makes anyone open or save. Under it `CallsEnd` says
that both calls return unless power fails. Elsewhere the next call is decided by the command line and the
files given, and no liveness is claimed. The other places where the program may not come back are a full
map (`Exhaust`, the fault "recursion") and reads from outside the image (`ReadLilBlockChain`, which
`Readable` rules out).

## What disagrees with the code's own words

Three runs end in a counterexample, each against a sentence of the repository.

- `allocation_report`: `FS:125` logs "failed to allocate block!" with free blocks left. `ChainAllocBlock`
  returns 0 for success and its three callers in FS test it with `!`. A growth of n blocks therefore
  takes n calls that return 2 before the call that stores the data; `FileAdd` returns 2 for a file it
  added. `session` shows that nothing is lost by this, only that no call says the truth.
- `corona`: `DRV:343` announces a recalculation of the error codes; on an image without spare bytes the
  codes overwrite four bytes of data every 0x210 bytes.
- `big_blocks`: a big block image made by `CreateDefaults` is not what `DetectSpareType` takes for
  "big block" (`DRV:458`).

## The proofs

Eight modules hold them: `FlashFileSystem_proofs` (the map and the files), `FlashFileSystemRoot_proofs` (saves
and loads), `FlashImage_proofs` (the lists of the image, and what is found in one), `ImageParts_proofs` and
`ImageFound_proofs` (loaders, SMC and vaults), `FlashBlockDriver_proofs`, `FlashConfiguration_proofs` and
`FlashDevice_proofs`. All are checked without a gap. Their assumptions are those of the models, which TLC
evaluates on every run: block 0 is reserved and the root is not among the reserved blocks; marks are above
every block number; pages have 512 bytes of data (any positive number) and spare bytes or not; a version is
a DWORD, the page length an ini file gives is not 0, and block 0 of an image has no tag; loaders of a console do
not overlap, its SMC and vault are sealed and a 6BL lists no more blocks than its file has, files made by hand are what their names say, and the word null
is no CPU key. What a theorem
needs beyond them is a hypothesis of it and named below.

**The map.** `TypeCorrect`, `NeverCrossLinked`, `LinksStayLive`, `SystemBlocksStay`. The three
structural invariants are not inductive one by one: that a freed block is linked from nowhere needs that
links are disjoint, that links are disjoint after an allocation needs that no link leads to a free
block, and both need that heads are live and unlinked. `IInv` is `TypeOK /\ Structure`, and `Structure`
says that the map is `Tidy` for the heads of the directory (links disjoint, none to a head, links and
heads allocated), that heads are distinct, and that reserved blocks stay reserved, block 0 among them, so
that 0 can go on meaning "no block". What an operation does to a map is shown without the state, in
three lemmas: `TakenTidy` (a free block becomes a head), `LinkedTidy` (an end gets a link to a free
block) and `CutTidy` (everything behind a block is freed). The last rests on the facts about `Chain`, a
least closed set: it contains its head, is closed, and each member but the head is the successor of
another (`ChainClosed`, `ChainLeast`, `ChainPredecessor`).

**The files.** `NothingLeaks`, `FaultsOnlyAtLimits`, `NamesStayUnique`, `FilesStayWhole`. They speak of chains
as walks: how long one is, which block comes third. The prover has no induction along a chain, and none is
needed: what holds at the head and passes from a block to the next holds in the chain, because the chain is the
least closed set. So a chain of a tidy map has no cycle, `Place` numbers its blocks from 1 to its length, and
cutting or extending it keeps the numbers before. `NothingLeaks` has `FInv`: `IInv`, nothing `Lost`, and no
block in a slot behind the last (`Fresh`, as `FileAdd` forgets what its slot held). `FilesStayWhole` is
the refinement of `FileStore`, with `SInv`: a file is no longer than its chain, and its chain can be walked
(`FitsAt`). The step shows for each outcome of a call which files are `Kept` and that the one `Replaced` holds
the whole payload. It assumes `Roomy`: the image holds every block of the map where files are written, and
every payload has at least one block and fewer than the chain limit. These are the cases beyond which the
code keeps no promise; `limits` and `FaultsOnlyAtLimits` say what it does there.

**Reload.** `RootTypeCorrect`, `ReloadsNeverCrossLink`, `ReloadsKeepLinksLive`, `SavedFilesKeepTheirHeads`,
`RootStays`, `LossOnlyByReuse`.
After a load the map in memory is the saved one, so the saved one must satisfy the structure too, and
the calls since must not have made the two incompatible. `RInv` is `IInv`, the same structure of the saved
map and directory (`SavedStructure`), and `Claims`: the map in memory is tidy for the heads of the saved
directory as well as for its own, and a block that is a head in both is one of the same slot. Every
call of the core is an `Edit` of the map (nothing, a link, a cut, a new head), `EditClaims` shows once
that an edit keeps the claims, a save makes them trivial and a load turns them round. `RootStays` needs
that `FSOffset` is 0 or more than the root's block number, and the theorem says so. `LossOnlyByReuse` is an
action property: what each call does to the lost blocks is shown of any tidy map and any set of
heads, and then of the heads in use.

**Image.** `PayloadsKeepApart`, `LossOnlyAsExplained`, `TheNewestIsChosen`, `ImageTypeCorrect`, `VisibleFilesWhole`.
The invariant of the file system does not hold here, since a payload may be laid over the root, whose word is then "reserved". `ImageInv`
asks less: the map is tidy for the heads of files and for the root while it can be saved (`SoundMap`), and
the blocks under payloads are reserved, and no file has a block while payloads are still being added
(`SoundPayloads`). A reserved block is a member of no chain, which is `PayloadsApart`.
`LossInv` adds the two parts of `LossExplained` (`Outcome` and `FaultCauses`) and that no chain is too long to be walked if no file
asks for one (`Short`), without which a fault "underflow" could not be laid to a payload; it assumes a chain limit
above 1. What `LoadFileSystems` finds are scans over blocks and mobile files, written as recursive functions. That there
are functions that satisfy their equations is shown with the least number at which one would be missing
(`ScanExists`), and what they return follows from place to place (`LatestRootIs`, `LatestMobileIs`). `TheNewestIsChosen`
needs that block 0, the header, has no tag, so that 0 can mean "none found".
`VisibleFilesWhole` is about content. What the calls do to files is shown in `FlashFileSystem_proofs` for any set of heads
the map is tidy for (`Filed`), so that it holds under `ImageInv` too; `AddResult` and `SetResult` sum up
a call: which files are `Lasting`, and what the one it is about then holds. `VisibleInv` follows the files through
the image's life. While it is built no file has data; while the loaders are saved `Progress` ties the files to
the list of jobs: the list is `InTurn` (every 6BL before any 7BL, and behind each 6BL the 7BL of its slot), a file
with data has one block and waits for its 7BL (`Awaiting`) until the list is empty, and a file whose 6BL is still
to come has no data and at most one block. When the saving is over each file with data is `Complete`, and it stays so through
`Save`, which erases the root's cell alone, and through `Load`, which shows used slots only. The theorem
assumes `Roomy` and that `FSOffset` is 0 or past the root, as above, and `UpdateNamesKept`: `FileAdd`
keeps the names of the update files whole and makes no other name one of them. It keeps `strlen % 23`
characters, so all 15 of theirs, and another name would have to have 38, or 61, ... characters and begin
with one of them.

**Driver.** `DriverTypeCorrect`, `StoresFlat`, `WritesSpareSpare`, `ReadsBackWhatWasWritten`,
`DataWritesStayInside`, `SavedCodesRight`. `Place(a)` is where byte a of the flat array lies; `Target` is
where the loop puts byte k of a transfer. The heart is `TargetLies`: unless a short transfer crosses the
end of its page, byte k of a transfer at `off` goes to `Place(off + k)`; with `PlaceInjective`
everything else follows. It rests on the uniqueness of quotient and remainder, stated once
(`EuclidUnique`). `ReadsBack` needs only that `Target` is injective, which holds for the short transfer
over the end of a page too. `StoresFlat` assumes pages with spare bytes; without them `corona` refutes it.

**Parts.** `PartsTypeCorrect`, `LoadersReadFromOwnFiles`, `DecryptedMeansDecrypted` (from `DumpsTellTheTruth` and `FlagsTellTheTruth`). `PartsInv` says of memory, the image
and the directory what the assumptions say of consoles and kits: loaders are what their place is for, and do not
overlap (`SoundMemory`, `SoundImage`); files and ini files name what they hold, and a vault called decrypted is
(`SoundShelves`). `UnderWay` ties the parts in memory to the phase of the run: a decrypted SMC, a vault that is plain or
as it is in the image. That no loader of the chain lies on another is the hard part of the type invariant: `Put` takes away
what a loader is written over, and a 7BL in its slot ends with the slot however long it is. A first and a second 2BL have
the same magic and different files; they are told apart by their place, as only a first one is looked for at the entry
point. `FlagsTellTheTruth` follows the 4BL through `LoadBootloaders`: one step of the chain sets its flag, by a try that
opened it, and no other step and no slot touches it (`LoadBootloadersFlag`). It needs that a run starts with new objects
and that "null", which is how beta kits are marked, is no key on a command line. `ImageLoaders` goes through chain and
slots step by step, so no fold and no recursion is met.

**Found where saved.** `SavedIsFound` is `FoundWhereSaved`: `Load` undoes `Save` with the same key, and the
work is in showing that it is the same key, at the same place. The chain is laid loader by loader (`ChainLaid`): each
cell keeps what it got while later ones are put behind it, and the key for the next comes from the same fields on
both sides, as they are not touched by the digest. Following it back (`ChainBack`) meets each at its place as long as
`Placed` holds. The slots are laid beside the chain and beside each other (`SixLaid`, `SevenLaid`), with the number of
blocks the first pass put into the 6BL, and `SlotsBack` reads them. `FoundInv` keeps the image from before the loaders were
written, from which `SaveContinue` starts.

**Configuration.** `ConfigurationTypeCorrect`, `FieldsStayApart`, `StaysReadable`, `DecodersAgree`. `Owner` names the field each spare
byte belongs to in each layout; `PlacesOwned` shows that every setter stores into bytes of its own field.
So a setter changes no other field's number (`NumberElsewhere`), its own number comes back as far as its
bytes go (`NumberStored`), and an error code, which shares a byte with the type, keeps to the bits
above it (`CodeKeeps`). From these `FieldsStayApart` is the refinement of `SpareRecord`, call by call.
`StaysReadable` shows that `ReopensAlike` is inductive: the guess of the spare type reads four bytes of two pages, which no
save and no code changes (`CallsKeepGuess`), and opening an image twice decides the same. That it holds at first is
shown for each way an image comes to be. A dump was opened by its length and its guess already. A created image and
a chip are not: their word was given, and the next run picks another by the length (`RereadAs`), from a guess
that is right of pages numbered as these are (`GuessedRight`), and the two words mean the same layout
(`FittingReopens`, `ChipReopens`). The theorem assumes `Consistent`, which `MCFlashConfiguration` has TLC evaluate: an ini gives
a length that its word allows (`Fitting`), both decoders know the chips' words, big blocks come in chips of 32MB and
more, and the device is read up to 69206016 bytes. Beyond it the program makes no promise: a 64MB ini with the word of
a 16MB chip is reopened as what its length says.
`DecodersAgree` is about words: in which layout each decoder reads the bits (`DriverDecodes`, `ChipDecodes`) is computed
case by case, and `DecodedType` is the invariant that the spare type in use is that of the word. It holds for every
word `BothDecode` names and every chip, with `DeviceLimit` the code's 69206016.

**Device.** `DeviceTypeCorrect`, `OneBlockAtRisk`, `OpeningReadsAll`, `SavingWritesAll`. `AtMostOneTorn` says nothing of
the pages inside the block at work, so it is not inductive. `DeviceInv` adds how far a save has come (`Progress`): the
sound blocks behind it are the image's (`Behind`), those before it untouched (`Ahead`), and in its own block the pages
behind are the image's and those before blank (`Within`), so that programming never meets cells that are
not blank. `OpeningReadsAll` has the same for reading (`Fetched`), with the lemma that a chip that is read changes
nothing. `SavingWritesAll` is the safety half of `CallsEnd`: a save that ends with power on has written every
sound block the image has. Assumed are a flash of at least one block, a block of at least one page, a buffer of at least one block.

## What is only model-checked, and what is not modelled

Only model-checked:

- `CallsEnd`, which is liveness and depends on fairness: no prover here shows that a step is enabled. Its safety
  half is the theorem `SavingWritesAll`;
- `Extracted`: it holds because the loaders of a console were sealed by its maker with the keys the program derives,
  which would have to be an assumption as long as the property. `parts` checks it on every kind of console the
  code distinguishes.

Parts of modelled components that are left out:

- the image: grouping of mobile pages (`IMG:501-539`), the two file system tables of a 4GB Corona, the
  search for a big block `FSOffset` (`IMG:198-226`), config blocks, the payloads
  `LoadContinue` reads back (`IMG:148-169`), what header, SMC and loaders write over a payload that is laid over them;
- ini files: `.rglp` patchsets and with them `PatchBootloader` and `Resize`; time stamps; the image's
  numbers; a length that `readData` (`util.h:105`) reads before it is set is modelled as a file cut short (`ReadCut`);
- loaders: an image that ends inside a loader, the codes 1 and 3 of `LoadBootloader` (`IMG:1317-1336`);
  `SaveBootloaders` for a beta kit, which the program creates no image of. A 7BL is taken to be longer than
  the room in its slot, as the subtraction in `IMG:1436` assumes;
- vault: `RandomizeKeys`, `RepairDesKeys`; SMC: the board name;
- driver: the loop of `ReadLilBlockChain` is an operator; `CreateImage`, `InitSpare` and `IsSpareBadBlock`
  are never called;
- controller: register access itself. `SaveFlashDevice`, the only caller of `SaveDevice`, has no caller;
- command line: what `/rc4` and `/s` do to single files, logging, the Xbox build.

Known to be outside the properties: driver and controller place the reserve of a 64MB new small block
flash differently (0x3E0 and 0xF80), and `ControllerAgrees` leaves that word out; the 48MB image of
a 4GB Corona and dumps longer than `OpenImage`'s 0xb000000 bytes tell no layout, and `ReopensAlike` leaves them out.

Not meant to be modelled: formats and declarations (`rgbp.h`, `xekernelp.h`), the vendored ini parser and
`dirent.h`, build files.

## Plan

1. `FlashFileSystem` with `FileStore`, then its proofs. *Done.*
2. `FlashFileSystemRoot`: `Save`, `Load`, loads from an older root, then its proofs. *Done.*
3. `FlashBlockDriver` with `FlatStore` and proofs; `SpareArea` with `SpareRecord`. *Done.*
4. `FlashConfiguration`: the geometry, for the driver and for the controller. *Done.*
5. `FlashDevice`: the controller, interruption, liveness, with proofs. *Done.*
6. `Bootloaders`, `Keyvault`, `CommandLine`, `ImageLoaders`, composed in `ImageParts`. *Done.*
7. `FlashImage`: mobile files, payloads, update files, several file systems. *Done, but for the parts above.*
8. Proofs: the files of `FlashFileSystem` and their refinement of `FileStore`, what reloads lose,
   `FlashImage` with what is visible after a load, reading from a device, `FlashConfiguration` with what both decoders
   know, `ImageParts` with what is found where it was saved. *Done.*
9. The grouping of mobile pages and the tables of a 4GB Corona in `FlashImage`.
