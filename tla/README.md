# A TLA+ model of xtrack

xtrack finds printed fiducial markers in camera images and reports their positions over TUIO/OSC.
This directory holds TLA+ modules translated from its C and C++ sources, the TLC configurations that
check them on small instances, and TLAPS proofs that hold for every instance. `PROJECT.json` maps
every definition to the lines it stands for.

    tlc -workers 2 -config MCTracking.cfg MCTracking
    tlapm SegmenterProofs.tla

## 1. The system

A frame travels through one thread: `process` (xtrack.cpp) captures it, thresholds it with OpenCV,
and calls `FiducialFinder.findFiducials`, which calls `step_segmenter` (segment.c) and
`find_fiducialsX` (fidtrackX.c); the tracked fiducials go to `TuioServer.sendMessage`, to the windows
and to the recorder. All calls are synchronous; state that outlives a frame is in FiducialFinder, the
recorder, the TUIO sequence number and the main loop's mode. The repository also holds the rest of
libfidtrack (thresholders, the tracker for six-symbol fiducials) and the OSC library wosclib, of
which xtrack uses the messages. The only threads are in wosclib's TCP transport.

| Component | State | Operations | Hard part | What makes it correct | Section |
|---|---|---|---|---|---|
| Region segmenter (`segment.c/h`) | regions with bounded adjacency lists, region references (union-find), free list, two rows of references | `step_segmenter`: new, join, merge, link, saturate | lazy redirects, lists edited while iterated, merging and reusing regions, full lists | partition = connected components; adjacency bidirectional; no overflow; what a full list drops is flagged; border and box exact | 2 |
| Fiducial tracker (`fidtrackX.c`), tree id map (`treeidmap.cpp`) | per region: level, depth, descendent and visit counts; candidate list; depth-string buffers; known trees | `find_fiducialsX`: walk up from the leaves, link candidates, walk down for depth, leaves and string, look up | counting over lists with duplicates, saturation and fragments; buffers with a commented-out assertion | every region entered at most once; candidates exact; strings canonical and within their buffer | 3 |
| Topology search, 120-fiducial tracker (`topologysearch.c`, `fidtrack120.c`) | level of every region, three intrusive lists; points, lines and codes of a fiducial | label leaves, containers and roots; read six symbols | regions met several times; symbols in any order | every region listed once; roots exact; codes read the same way round | 4 |
| Thresholders (`threshold.c`, `tiled_bernsen_threshold.c`) | statistics of tiles; buffers that outlive a frame | threshold a frame | nine copies of a loop; what is left of the last frame | every pixel judged by what lies around it | 4 |
| Main loop (`xtrack.cpp`), recorder (`record.cpp`) | record mode, quit flag, camera window; writer, reader, last file number, frame progress, last frame | frame, key, signal; start, stop, record, play | failing start or stop, keys in every mode, files that cannot be read, cyclic file search | mode agrees with what is open; no file overwritten; quitting ends the program | 5 |
| Fiducial finder (`fiducials.cpp`), TUIO server (`tuio.cpp`) | per id: tracked flag, timestamp, position, speeds; sequence number | one frame: transfer, send a bundle | gaps, equal timestamps, two candidates of one id; UDP loses, reorders and repeats | speeds relate the last sightings; a receiver holds one frame | 6 |
| OSC TCP transport (`WOscTcpServer`, `WOscTcpHandler`, `WOscTcpClient`) | connections, threads, sockets, the vector of handlers; the stream in pieces | bind, accept, register, unregister, stop; connect, send, receive, close | threads that register, unregister and delete themselves; partial sends | one owner per handler; Stop returns; packets whole and in order | 7 |
| OSC receiver, queue, return address (`WOscReceiver`, `WOscPriorityQueue`, `WOscNetReturn`) | priority queue, reference counts | receive, process, queue, manage, destroy | nested bundles, exceptions midway | each return address released once; the earliest first | 8 |
| OSC address space (`WOscContainer`, `WOscMethod`, `WOscPatternMatch`) | tree with aliases | add, remove, dispatch, destroy; match | removal with aliases; backtracking | one parent each; every way reached once | 8 |
| OSC packets (`WOscString`, `WOscBlob`, `WOscMessage`, `WOscBundle`, `WOscTimeTag`) | buffers, arrays, type tag, elements, a time | construct, add, copy, parse, take out, destroy | lengths computed apart from contents; ownership | what is sent parses to what was put in | 8 |

The hazards this code is exposed to, each at its line, are listed in `PROJECT.json` ("hazards") with the
properties that would show them going wrong. Section 10 lists statements of the repository that the models
refute, section 11 what is not modelled.

### How the modules are put together

| Modules | Content |
|---|---|
| `Regions`, `Segmenter`, `Components`, `MCSegmenter` | the segmenter and the partition it implements |
| `TreeIdMap`, `Fidtracker`, `Tracking`, `MCTracking` | the tracker, alone and composed with the segmenter on shared regions |
| `TopologySearch`, `Fidtrack120`, `SymbolOrders`, `Thresholds`, `BernsenThreshold`, `MCLibfidtrack` | the rest of libfidtrack |
| `Recorder`, `XtrackLoop`, `MCXtrackLoop` | the recorder's methods, and the loop that calls them |
| `FiducialFinder`, `TuioTracking`, `MCTuioTracking` | from the fiducials of a frame to a receiver behind UDP |
| `TcpServer`, `TcpStream`, `TcpClient`, `PacketChannel`, `MCOscTcp` | the two ends of the TCP transport, the stream between them, and the channel they implement |
| `PriorityQueue`, `OscReceiver`, `DelayQueue`, `MCOscReceiver` | the receiver with its queue, and the queue it implements |
| `OscContainer`, `PatternMatch`, `MCOscAddressSpace` | the address space, and the matcher with patterns whose meaning is known |
| `OscString`, `OscStrings`, `OscMessage`, `OscBundle`, `TimeTag`, `MCOscPackets` | encodings as operators, and the classes as state machines |
| `SegmenterProofs`, `FidtrackerProofs`, `XtrackLoopProofs`, `OscTcpProofs`, `TopologySearchProofs`, `TuioTrackingProofs`, `OscReceiverProofs` | theorems |
| `FoldProofs` | lemmas on loops, folds and minima that several of them need |

Where components share nothing (`MCLibfidtrack`, `MCOscTcp`, `MCOscAddressSpace`, `MCOscPackets`), one run checks them
together: a variable chosen at the start (`part`, `end`, `class`) says which of them a behaviour is about, and the
others keep their initial state. The states of such a run are the sum of those of its components, not the product, and
its properties are those of the components, each under the condition that it is the one at work.

### Runs

| Run | Instance | Shows |
|---|---|---|
| `segmenter` | all 4 x 4 images, lists of 3 | `TypeOK`, `OneOwner`, `BidirectionalAdjacency`, `ListsMatchImage`, `SaturationExact`, `FlagsAndBoxesExact` |
| `segmenter_steps` | all 3 x 4 images, lists of 2, fairness | `PartsAreComponents`, `ImplementsComponents`, `FlagsKept`, `FrameFinishes` |
| `segmenter_duplicates` | 4 x 4 images, lists of 8 | refutes `NoDuplicateAdjacency` |
| `tracking` | four families of 11 x 7 images, four trees, lists of 6 | `HandsOverGraph`, `Assertions`, `StringsFit`, `CandidatesExact`, `IdsExact` |
| `tracking_incomplete` | the same | refutes `NeverTraversesIncomplete` |
| `libfidtrack` | all nestings of up to 7 regions and two larger; 8 drawings of a fiducial, all orders of its symbols; 3 x 3 tiles; two frames of 8 x 6 | `ListedOnce`, `RootsExact`, `FiducialsAreRead`, `PixelsAreJudged` |
| `xtrack_loop` | three directories of up to 4 files, recordings of up to 6 calls, five ratios, fairness | `ModeAgrees`, `RateKept`, `NeverOverwrites`, `PlaysInOrder`, `QuitHonoured` |
| `tuio_tracking` | three fiducials, six kinds of frames, three frames sent | `FinderInv`, `SpeedsOfLastSightings`, `ViewIsOneFrame` |
| `osc_tcp` | three connections; two threads that send, buffers of two bytes, two packets; a polling client; fairness | `OneOwner`, `NothingLeft`, `NothingHangs`, `IsChannel` |
| `osc_receiver` | three packets out of eleven, five instants, fairness | `AddressesInv`, `HandledInOrder`, `TakesEarliestFirst`, `DueIsTaken` |
| `osc_address_space` | four containers, two methods, an alias; patterns of three tokens, names of three out of seven characters | `TreeIsSound`, `MessagesReachMethods`, `PatternsMatchNames` |
| `osc_packets` | two strings of up to 8 characters, two messages with 3 arguments, 3 bundles with 3 messages, words of two bits | `RepresentationsParse`, `ContentsKept` |

## 2. What is modelled: the region segmenter

| Module | Content |
|---|---|
| `Regions` | a region: its flags, and the `adjacent_regions` array as a sequence with the loops that search and change it |
| `Segmenter` | `build_regions` and everything it calls, as a state machine; its properties |
| `Components` | the abstract segmenter: the partition of the pixels read so far into connected parts |
| `MCSegmenter` | what the finished graph is compared with, the refinement mapping, the symmetry set |
| `SegmenterProofs` | lemmas on the list operators, the invariants of `Segmenter`, the refinement, the comparison with the image and the graph handed to the tracker, for every size of image and list |

**State.** The arrays `regions` and `region_refs` are functions from `Regions` and `Refs`, one function
per field (`colour`, `box`, `flags`, `adjacent`; `regionOf`, `redirect`). Indices start at 1 and 0 is the
null pointer. The freed regions, linked through `next` in C, are the sequence `freed`. `currentRow`
and `previousRow` are the two halves of `regions_under_construction`; the cells of `currentRow` that
still hold the row before last are not represented because they are never read. The image is not a
constant: every pixel's colour is chosen when it is read (`source`), so one run covers every image.
`label` is a history variable: the reference each pixel was given.

**Steps.** Reading a pixel is one action per way of handling it (`FirstPixel`, `TopLine`, `LeftEdge`,
`ExtendWest`, `ExtendNorth`, `CentreNew`, `MergeRegions`). Loops are unrolled into steps:
`FollowRedirect` (`RESOLVE_REGIONREF_REDIRECTS`), `RemoveCommon`, `CheckCapacity`, `TransferNeighbour`,
`FreeMerged` (`merge_regions` and the five assignments after it), `DetachNeighbour`, `MarkSaturated`
(`make_saturated`, called for the regions queued in `saturating`), and `NeighbourSaturated`, `ListFull`,
`MakeAdjacent` (the branches of `make_adjacent`, called for the regions queued in `neighbours`; the early
return for regions already adjacent is a stutter inside `MakeAdjacent`). `NextColumn`, `NextRow`,
`LastPixel`, `BottomRow` and `StepSegmenter` are the loops around them and the next frame. The code is
sequential, so the atomicity of a step matters only for what is observed between steps; the steps are
small so that the invariants are checked in the middle of a merge, too.

**Simplified.** `make_saturated` empties its list entry by entry here, and at the end in C; nothing reads
it in between. `TransferNeighbour` likewise takes entries from the front. At the start of a frame the
model clears the arrays, while C overwrites an entry when it allocates it; no step reads an entry that was
not allocated in this frame (`OneOwner`, `BidirectionalAdjacency`: only live regions are referred to).
Fields the tracker uses are left to its module. Integers stay below the number of pixels, so no width matters.

### Properties and what could break them

- `OneOwner`: references and regions in use correspond one to one; nothing reaches a freed region.
- `BidirectionalAdjacency`: the assertions of `make_adjacent`, `merge_regions`, `remove_adjacent_from` and
  `replace_adjacent`, strengthened to multiplicities, which is what their `found` assertions need since an
  entry can be duplicated.
- `SaturationExact` (`SaturatedDetached` and `FragmentedBySaturation`) and `ListsMatchImage`: a full list drops links,
  and what it drops is flagged on the other side; nothing else is ever missing or invented.
- `FlagsAndBoxesExact` (`RootFlagsExact` and `BoxesExact`) and `FlagsKept`: what the tracker relies on besides the lists.
  Boxes are exact only for regions away from the border; the code does not maintain the right side of others, and the
  tracker starts no walk at a region on the border.
- `PartsAreComponents`, `ImplementsComponents`: at the end, and pixel by pixel, the references partition the image
  into connected components.
- `FrameFinishes`: no circular redirects and no endless loop.
- `WestUpToDate`, the comment at segment.c:414, is proved only (section 9). It needs that a merge redirects only the
  reference of the west cell, which is then replaced.

### Runs

| Run | Instance | Shows |
|---|---|---|
| `segmenter` | all 4 x 4 images, lists of 3 | the invariants and the comparison with the image; 348,171 states |
| `segmenter_steps` | all 3 x 4 images, lists of 2, fairness | refinement of `Components`, `FlagsKept`, `FrameFinishes`; 38,875 states |
| `segmenter_duplicates` | 4 x 4 images, lists of 8 | violated: a region listed twice (below) |

*Bounds.* A 4 x 4 image is the smallest with a centre: regions that do not touch the border, merges in the middle
of a row of regions that were themselves the result of merges, and rows of reused regions. With three list
entries some regions saturate while others do not, and saturated regions still merge; with eight no list
fills. Both runs fire every action. The colours are interchangeable (no operator compares them with a
constant), so the symmetry of `segmenter` is sound for invariants; the run with temporal properties uses none.

*Fairness.* `FairSpec` adds weak fairness of `Next`: the segmenter is one sequential computation that nothing
blocks, and frames keep coming.

### Finding: a region can be listed twice

segment.c:271 says that `merge_regions` merges "by first removing all common adjacencies from r2". The loop
moves the last entry into the slot it removes and then steps past it, so a common neighbour in the last
slot can survive and be transferred: the surviving region lists it twice, and it lists the survivor twice. Nothing
breaks in the segmenter (`BidirectionalAdjacency` holds with multiplicities, the capacity check counts the
duplicate), but the tracker counts list entries and each neighbour reports once, so a fiducial whose region has a
duplicate is missed.

## 3. What is modelled: the fiducial tracker

| Module | Content |
|---|---|
| `TreeIdMap` | the trees of `treeidmap.cpp` as a constant: a root colour and the depths of the nodes in left-heavy order |
| `Fidtracker` | one call of `find_fiducialsX` on a given region graph; its properties |
| `Tracking` | `FiducialFinder::findFiducials`: `Segmenter`, then `Fidtracker` on the same regions, then the next frame |
| `MCTracking` | families of images, and what candidates and ids are compared with |
| `FidtrackerProofs` | the inductive invariant of the walk, for one call and for frame after frame |

**State.** The tracker shares `regionCount`, `colour`, `flags` and `adjacent` with the segmenter and adds the fields
`level` (`traversed`: the regions whose level is TRAVERSED; TRAVERSING is never seen between two steps),
`children_visited_count`, `descendent_count` and `depth`. `candidates` is the list through `next`, appended at its
tail by `link_region`. `reportedTo` is a history variable: the region whose visit count a region raised.

**Steps.** `SkipRegion` and `StartAtLeaf` are the loop of `find_roots`. The upward walk calls itself last, so it is one
step per region entered: `FindCandidate` (a tree of exactly the largest size ends the walk), `EndAtTop` (no parent, or
a region on the border) and `ReportToParent`, which raises the parent's count and climbs if that was the last one
missing. Counting the entries, linking the region, marking it as lost and raising the parent's count are one step, as
the whole body is in C. `IdentifyCandidate` and `PassOverLost` are `compute_fiducial_statistics`: `set_depth` and, unless
the region is marked as lost, `build_left_heavy_depth_string` with the sort it does in place, and the lookup.
`Return` is the end of the list or `max_count`.

**Left out.** Centres, angles and sizes (floating point). With the lens map that xtrack passes, which maps every
pixel to itself, the statistics do not mark a region as lost, except one whose only leaf has its centre at the
image's corner, which is on the border and has no id anyway. `find_regionsX` is not called.
The trees come from the table compiled in; the constant `Trees` stands for it.

**What the tracker relies on.** `RegionGraph` says it: lists are symmetric, between regions in use of different colours;
saturated regions have empty lists; and no set of regions is cut off from the rest of the image without one of
them being on the border or marked as incomplete. `Fidtracker` starts from every such graph. That the segmenter
leaves one is checked on the composition (`HandsOverGraph`) and proved for every size (section 9).

### Properties and what could break them

- `Assertions`: the assertions of `find_roots` and of the walk, which release builds drop. They depend on how the
  segmenter flags incomplete lists: a parent that is flagged waits for all of its entries, another for all but one.
- `CandidatesExact`: after the scan the candidates are exactly the regions below which a tree of about the right size
  and depth hangs, each once, and those that are not of the right size are marked as lost. The reference is stated
  on the graph (reachability without the parent, number of links, flags) and knows no order, no visit counts.
- `IdsExact`: the id is that of the known tree with the same shape, compared over all orders of all children.
- `StringsFit`: the commented-out assertion of fidtrackX.c:180. Candidates may have more descendents than the largest
  tree (`FUZZY_NODE_RANGE`); those are all marked as lost and need no string.
- `HandsOverGraph`: above.

### Runs

| Run | Instance | Shows |
|---|---|---|
| `tracking` | four families of 11 x 7 images, four trees of 5 and 6 regions, lists of 6 | all properties above; 136,988 states |
| `tracking_incomplete` | the same | violated: a fragmented region is traversed (below) |

*Bounds.* An image of the families has fixed pixels and up to ten free ones. `Plates` gives the border region several
children and can join two plates; `Ring` gives a plate with holes and a ring around a dot, from too small over
matching to saturated, and with a plate that touches the border; `Cycle` has regions that touch corner to corner, so
that the region graph has a cycle; `Dots` saturates the border region and leaves a plate with two holes incomplete.
Every known tree is found in some image, as are trees of nearly the right size, larger and smaller, candidates inside
candidates, candidates that are incomplete, and trees of the right size and the wrong shape. The sizes are
smaller than in the program (trees of 19 nodes), the relations are the same: lists hold as many entries as the largest
tree has nodes, and `FUZZY_NODE_RANGE` is 2. The trees differ in size and depth, which a table from a file may.

### Finding: fragmented regions are traversed

fidtrackX.c:420 says "we also never traverse nodes which are saturated or fragmented". The condition at 493-497
traverses a fragmented parent once all of its listed neighbours have reported. It has no parent in its list then
(`Assertions`), so nothing is counted twice; but its descendents may be too few, since the lost link may have been to
a child, and it may become a candidate.

## 4. The rest of libfidtrack

### Topology search (`TopologySearch`)

`initialize_segment_topology` walks over the regions and then over the lists it fills: `FindBlackLeaf` is one
iteration over the regions, `FindContainer` one over the leaves, `FindRoot` one neighbour of a container.
`ComputeFiducial` is one iteration of the loop of `find_fiducials120` over the roots. The three lists, which run
through the `next` and `previous` of the regions, are sequences; `level` is the region's level. `Pictures` are the
region graphs it may get; a pair of regions may be listed twice, and a neighbour then counts twice.

- `ListedOnce`: the same candidate comes up once for every one of its leaves or containers; a region linked a second
  time would tear the list apart under the loop that follows it.
- `RootsExact`: the roots, said of the picture alone.

*Bounds.* All nestings of up to seven regions, in both colours and with the surrounding region first or last in a list, hold
fiducials of two symbols with too few, enough and too many leaves and symbols; the two nestings of eleven and
twelve regions hold two fiducials side by side, one more than the caller has room for.

### Fiducials of six symbols (`Fidtrack120`, `SymbolOrders`)

The variables are those of `compute_location_angle_and_id_for_6_symbol_fiducial`: the symbols collected from the root's list
(`Collect`), the straightest line among them (`FindFirstLine`) and among the rest (`FindSecondLine`), their order
(`OrderLines`), and codes, id and direction (`ReadFiducial`). Points are integer pairs and quotients are
compared as products; the angle itself (`atan2`) is left out, the vector it is taken from is not.
`SymbolOrders` lets the symbols of a drawn fiducial come in every order.

- `FiducialsAreRead`: the codes are read once around from the corner with the single leaf and the id is their rank
  among the 120, whatever the order of the list and the rotation (`ReadsCodes`); the direction is that of the first line
  (`PointsAlongFirstLine`).

*Bounds.* Four designs (the first symbol at two corners, one with a symbol twice, one with the first symbol at no corner) in
two placements, one of them turned and with an error of a twelfth; all 720 orders of each.

### Thresholders (`Thresholds`, `BernsenThreshold`)

A step handles one cell, or one row of cells; the pointers that walk along with the loops are coordinates. The nine loops of
`overlapped_adaptive_threshold2` for inner cells, borders and corners are nine actions. `BernsenThreshold` calls its
thresholder for two frames in a row, with buffers that hold anything at first and memory of any content behind them.

- `PixelsAreJudged`: every pixel of the result is written (`AllWritten`), by the tiles within half a tile of it
  (`JudgedByNearTiles`), by its own (`JudgedByOwnTile`) or by a window that reaches beyond it (`JudgedFromMiddle`); the
  extremes of a block are those of the present frame (`ExtremesOfBlocks`), a pixel is judged by the blocks around its tile
  and by nothing behind a buffer (`JudgedBySurroundings`), and a missed maximum never blackens a bright pixel
  (`BrightStaysWhite`). The sides are multiples of an even tile size, as in the camera formats; section 10 has
  what happens for others.

*Bounds.* Nine tiles are the fewest with a tile in the middle, on each border and in each corner. The images have one or two
pixels that differ from a background, wherever they are, and ramps, on which every pixel changes the running extreme.

## 5. Main loop and recorder

**State and steps** (`XtrackLoop` extends `Recorder`). `Prepare`, `PreparationFails` and `CameraFails` are the beginning
of `process`. A round of its loop is a frame (`NormalFrame`, `RecordingFrame`, `RecordingThrows`, `PlaybackFrame`, and
`PlaybackSearch` for each file that `playbackFrame` tries; `NoImage` when the camera has none) and a key (`NoKey`,
`KeyQuit`, `KeyRecord`, `KeyStop`, `KeyPlay`); `Quit` is what follows the loop. `Signal` sets the flag at any moment;
`UserDeletes` takes a video away that is not open. The methods of `CameraRecorder` are operators that change disjoint parts of
the state, so that an action can conjoin two of them where a key calls two. Opening a file may fail whenever the
system or the codec may refuse. A video is the number of its frames. `getFileName` matters only in that a file whose number is written otherwise is
found by the search and not by opening (`Foreign`). `offered` is a history variable.

The program adds up doubles; `frameProgress` is the exact sum beside theirs, in units of one over the ratio's denominator. The two
agree on whether a frame is due, unless the exact sum is a whole frame. Then rounding decides: with 2/3 the third sum is
0.99999999999999989, and the frame that is full is written one call late. The model leaves both outcomes open (`FrameDue`
and `FrameNotDue` overlap), except at the full rate and its halvings (`IsHalving`), which doubles add up exactly. Other ratios whose
denominator is a power of two are exact, too; for them the model allows more than the program does. One call adds an error of at most
2^-51, so that this holds for 2^51/denominator calls; what happens after more is not modelled.

- `ModeAgrees`: `recordMode` is the only record of what is open. It takes a failing start, a key in the wrong mode and a stop in
  some order to break it.
- `RateKept`: the files hold the share of the frames that the parameter asks for, up to one frame; a frame that is late does not
  make the next one later. Halvings of the rate owe less than a frame.
- `NeverOverwrites`, `PlaysInOrder`: what the two searches through a directory, in any order, have to find.
- `QuitHonoured`: a request to quit ends the program, unless no file yields a frame. Without that exception it is false
  (section 10).

*Bounds.* The directories are empty, hold a file without frames, or have a gap between two files; another file has a name of the
user's. A recording adds files up to number 4 and passes up to 6 frames: enough for the search to wrap around over
deleted, empty and foreign files, and for the ratio 2/3 to come twice to a sum that is a whole frame. 2/4 is a halving that
accumulates; two more ratios are refused.

*Fairness.* Weak fairness of the program's own steps (`Start`, `Frame`, `Search`, `NoKey`, `Quit`): `waitKey` returns after its
timeout and nothing else in the loop blocks. Nothing is assumed of the user, of signals or of the files.

## 6. Fiducial finder and TUIO server

**State and steps** (`TuioTracking` extends `FiducialFinder`). A `Frame` is one call of `findFiducials` and one of
`sendMessage`: what the tracker found is an input, `Transfer` handles one raw fiducial, `MarkLost` is the last loop. One
coordinate stands for x and y; a quotient is the pair of its operands, and a tuple without elements is NaN, so that a
division by zero or a speed taken from nothing would show. The clock may stand still between frames.
The bundle has the messages that `sendMessage` puts in, in their order. The network keeps every datagram until it is lost and
delivers it any number of times in any order; the receiver, which is not in the repository, takes a bundle when
its sequence number is the highest so far, which is what TUIO asks of it.

- `FinderInv`: no quotient is by zero (`TimePasses`), rotations are taken the short way round (`ShortWayRound`), and
  what is marked as tracked was seen at the time of the last frame (`TrackedNow`).
- `SpeedsOfLastSightings`: speeds and accelerations are those of the last two and three sightings, whatever lay between.
- `ViewIsOneFrame`: a receiver holds exactly what was tracked in one frame, although bundles are lost and overtake each other.

*Bounds.* Three frames are the fewest for an acceleration; frames have none, one, two candidates of one id, two ids, and ids
that are not known; time passes by 0, 1 or 3.

## 7. OSC over TCP

**The server** (`TcpServer`). Three kinds of threads: the accepting thread (`AcceptConnection`, `AcceptFails`, `SetupHandler`,
`SetupFails`, `Register`), a thread per connection (`ReceiveEnds`, `Cancelled`, `UnRegister`, `DeleteSelf`), and the application's
(`Bind`, `StopBegins`, `JoinServer`, `Collect`, `CancelClient`, `JoinClient`, `StopEnds`). What happens under the mutex is
one step, and so is what no other thread can see. `pthread_cancel` takes effect where the code blocks, in `accept` and
`recv`. The vector is its array and its size: what is erased stays behind the last element, where `UnRegister` begins
its search. An access to it that is undefined and has an effect sets `undefined`; what follows is not explored.

**The stream** (`TcpStream`, `TcpClient`). Two digits of base four stand for the length word, so that a length can be cut in
two. `send` and `recv` take any number of bytes; the connection may break and lose what was under way. A threaded client sends from its
main thread and, in OSC methods, from its reception thread, under `m_mutexTx`; a polling client has a non blocking
socket, and its send fails when the buffer is full.

- `OneOwner`: a live handler has exactly one owner that will delete it; one with none leaks, one with two is
  deleted twice. Conditional on no undefined access having happened, which section 10 shows can happen.
- `NothingLeft`: after Stop no handler lives but those that are about to delete themselves.
- `NothingHangs`: Stop returns although the threads it joins may be anywhere; a packet whose sending began arrives unless
  the connection is lost or closed.
- `IsChannel`: handlers, mutex, framing and stream implement `PacketChannel`, which delivers packets whole and in order.
  For the polling client that needs buffers that never fill, which is why it has `LargeWireSize`.

*Bounds.* Three connections let one be registered, one be on its way in and one on its way out while Stop runs, with the
array of the vector doubled in between. Buffers of two bytes are smaller than every packet with its length. One of the packets
contains bytes that look like a length.

*Fairness.* Weak fairness for each thread on its own: Stop, the steps of the accepting thread after `accept`, every handler; for the
threaded client each sender's steps, the mutex and the receiving side. The scheduler runs every thread; peers and
applications need not do anything. The lock is granted by weak fairness because a sender keeps it only while it sends and
the number of packets is bounded.

## 8. OSC packets, address space and receiver

**Receiver** (`OscReceiver`). `NetworkReceive` and `ManagePriorityQueue` both run `ProcessBundle`, which nests; `work` is the stack of
its calls with the items left in each, and a step handles one item (`VoidItem`, `NestedBundle`, `ProcessMessage`), returns
(`CallReturns`), or takes a bundle from the queue (`ManageTakes`). `Throw` is an exception with the handler that catches it. The
clock ticks between any two steps. `PriorityQueue` is the array with its doubling and closing up. `Cloned` is what
`Clone` makes of a bundle (section 10).

- `AddressesInv`: a return address that has deleted itself is never used again, and between two calls the queue items are
  the users of the addresses, however packets end; the array keeps the order of arrival.
- `HandledInOrder`: messages of a packet are handled in order, and none after the first error.
- `TakesEarliestFirst`: the receiver implements `DelayQueue`. `DueIsTaken`: nothing that is due stays in the queue.

*Bounds.* Packets of every kind: empty, corrupt, single messages, bundles due at once with every sort of item between two good ones, and
bundles due later, two of them possibly at once. A capacity of one makes the array double twice.
*Fairness.* Weak fairness of the steps of a call that has begun. `ManagePriorityQueue` is to be called "perodically"
(WOscReceiver.cpp:276), which is strong fairness of `ManageBegins`: it is enabled again and again, between other calls.

**Address space** (`OscContainer`). The tree is one record, and an operation is an operator from tree to tree: the recursive
destructor with its removal of aliases, the removal by name with its index that may be out of date, the dispatch. A name is a model value
and a pattern the set of names it matches. `broken` is set by the first access to what is deleted, an index out
of range or a search that does not end; what follows is not explored.

- `TreeIsSound`: every container and method has one parent that exists, whatever is removed and destroyed
  (`OneParent`), and what is erased at an index is what was found there before the destructor ran (`ErasesWhatItFound`).
- `MessagesReachMethods`: a message calls a method once for every way that matches; every listed address reaches a method, and
  every method's own address is listed. What lies behind the alias of a container is reached but not listed (WOscContainer.cpp:510).

**Pattern matcher** (`PatternMatch`). The matcher character by character with its backtracking; patterns are put together from
tokens whose meaning is known.

- `PatternsMatchNames`: every name that the tokens stand for is matched, no other one is by a pattern without ranges and lists,
  and names with wildcards match, too. Excepted are an exclamation mark where `[!a]` stands for it, and an opening bracket
  where a set of characters meets it: the search begins at the character that opens the bracket (WOscPatternMatch.cpp:178;
  section 10).

**Packets** (`OscString`, `OscMessage`, `OscBundle`, `TimeTag`). Each class is a state machine whose steps are the operations of the class
on a few objects; what should be in an object is kept aside.

- `RepresentationsParse`: the canonical padding, a message that the receiver parses to an equal one, lengths computed before
  that agree with what is then written, and a parser that reads what was added.
- `ContentsKept`: arguments in the order in which they were added, after any copying and parsing; every element of a bundle with
  one owner; carries between fractions and seconds. A string and a message can be assigned to themselves (`AssignSelf`), which
  loses what they hold (section 10), and a blob can be written behind its array; nothing is said of them then, and their behaviours
  end there.

*Bounds.* Strings grow past two words; a message with three arguments has a type tag of two words; three bundles nest twice and
can share nothing; words of two bits overflow like those of 32. Four containers and one alias allow an alias below, beside and
above what is removed. The tree's nodes and names are interchangeable, and so are messages and bundles, which makes
the symmetry of these two runs sound for their invariants.

## 9. What is proved

Each proof has the shape of an inductive invariant: it holds initially, every step preserves it, and it implies the
property. A lemma per action, under it one step per conjunct that the action can disturb, and a theorem that combines
them. Three refinements are proved in the same way (`SegmenterImplementsComponents`, `ReceiverImplementsDelayQueue`,
`ClientImplementsChannel`): initial states map to initial states, and under the invariant every step maps to a step
or to a stutter. The invariants were checked with TLC before they were proved, where TLC can evaluate them: it cannot
where they quantify over an infinite set (`FramingInv`, the sums of cells in `DescendentsInv`).

Not within the prover's reach are liveness and what a recursive definition computes by an induction over its
argument. A recursive function can be reasoned about where the invariant supplies its values, or where only the
size of what it computes matters: `RootIn`, which follows redirects, the strings of the trees and the folds over
messages are handled that way, with the general lemmas of `FoldProofs` (a loop that is run for n turns has a sequence
of states; the least turn at which something fails exists). What stays model-checked only: `CandidatesExact`,
`IdsExact`, `FiducialsAreRead`, `PixelsAreJudged`, all of `OscContainer`, `PatternMatch` and the packets, and the
liveness properties.

### 9.1 The segmenter

`SegmenterProofs` proves, for every width, height, list capacity and pair of colours (assumptions:
`SizeAssumption`, the three sizes are positive; `ColoursAssumption`, there are exactly two colours), all properties of the
two passing runs of the segmenter but `FrameFinishes`:

| Theorem | Statement |
|---|---|
| `TypeCorrect` | `Spec => []TypeOK`: no array is overrun |
| `WestAlwaysUpToDate` | `Spec => []WestUpToDate` |
| `RegionsHaveOneOwner` | `Spec => []OneOwner` |
| `AdjacencyIsBidirectional` | `Spec => []BidirectionalAdjacency` |
| `SaturatedStaysDetached` | `Spec => []SaturatedDetached` |
| `SegmenterImplementsComponents` | `Spec => ImplementsComponents` |
| `PartsAreAlwaysComponents` | `Spec => []PartsAreComponents` |
| `FlagsAreKept` | `Spec => FlagsKept` |
| `FlagsAndBoxesAreExact` | `Spec => []FlagsAndBoxesExact` |
| `ListsAlwaysMatchImage` | `Spec => []ListsMatchImage` |
| `SaturationIsExact` | `Spec => []SaturationExact` |
| `TrackerGetsItsGraph` | `TrackingSpec => []HandsOverGraph`, of `Tracking` |

The first five follow from `InductiveInvariant`, `Spec => []IInv`. None of the properties is inductive alone. `IInv` adds:

- `CountInv`, `RowsInv`, `CursorInv`: how many pixels were read, how long the rows are, and that the cells hold
  references already allocated. A reference is allocated only with its pixel, which bounds both arrays.
- `RedirectInv`: a redirected reference points to an allocated one, so the resolving loop stays within the array.
- `FreedInv`, `OneOwner`: the free list has no repetition and is disjoint from the regions that roots own. Together
  they make `new_region` hand out a region nobody refers to.
- `CursorInv` also: a cell whose reference is a root is resolved at once; the cursor leaves only references that redirect.
- `RootsInv`: the cells beside the cursor hold roots, and a merge is between two of them.
- `LinkInv`, `MergeInv`: what holds between the read of a pixel and its end: the regions still to be linked are
  live and of the other colour; the two regions of a merge are live, of one colour,
  not saturated while their lists are edited, and the lists fit.
- `BidirectionalAdjacency` with multiplicities. Counting is what makes edits of duplicated entries go
  through: the lemmas `CountWithout`, `CountReplaced`, `CountTail`, `CountAppend` and `CountDropEntry` say what the loops do to
  the number of occurrences, with induction over lists replaced by the least index.

*The partition* (`PartsInvariant`). `PartsInv` says that every reference leads to a root. A walk along redirects is bounded by a rank
that falls at every redirect (`Walks`): with root and rank given as functions, that `RootOf` computes the root is a
statement about the least reference for which it does not (`WalkEnds`), and no induction is needed. Path compression (`CompressedWalks`),
a new reference (`NewRootWalks`) and a merge (`MergedWalks`) each come with the new functions. Further, the label of a pixel leads to a region of its
colour, and the cells of the two rows lead where the labels of their pixels lead. Then a step either leaves every root, or
unites the roots of the equal pixels beside the new one (`JoinClasses`), which is `AddPixel`. That the parts of `Components` are the connected
components is shown on `Components` (`OneMorePixel`): a half that is cut off in the united part would be cut off in one of the parts.

*Flags and boxes* (`BorderInvariant`, `BoxesInvariant`). A region has the root flag exactly if one of its pixels has been marked: those of
the top row and left column at once, of the right column at the end of the row, of the bottom row in the last loop
(`Marked`). The box of a region away from the border covers its pixels exactly, but for the right side: it is only set when
a run of the row ends, so it need not cover the run that the last pixel belongs to (`OpenRun`). A run that reaches
the right column is never closed, but its region is then marked.

*Lists* (`LinksInvariant`). During a merge the two regions count as one (`Rep`), so that entries on their way from one to the other are never
between regions. `LinksInv` says: regions that list each other, or are still to be linked, touch in the image; two that touch list each
other or are still to be linked, or one of them is full (saturated, or about to be) and the other is marked; and a marked region touches a full
one. No list step changes what touches, and each replaces one of the reasons by another (`LinksKept`). The first loop of
`merge_regions` drops a link only if the survivor has it, too. A pixel that joins a region touches nothing
new: the pixel at the corner has the colour of one of the two beside it, and the region of that one touches the other
already (`CornerTouches`); this is where the code relies on there being two colours.

*The graph for the tracker* (`TrackerGetsItsGraph`). `GraphInv` joins the invariants above and adds `FreeInv`: the regions that are not
flagged as free are those that roots own. The hard part of `RegionGraph` is that nothing is cut off without a mark (`NoneCutOff`). Take a set of
regions closed under adjacency, none of them marked. By `LinksInv` every region that touches one of them is listed by it
(`NeighboursListed`), so the pixels of the set are closed under neighbours; then the first pixel is among them (`ClosedPixels`), and
its region has the root flag. The theorem is about `Tracking`, whose segmenter is an instance: its initial states are those of
`Segmenter`, its steps are steps of `Segmenter` (`SameNext`), and the tracker leaves the graph alone until the next frame. Of
`CapacityAssumption` it needs that there are as many regions as pixels; an instance brings no assumptions along, so it is a
hypothesis.

Only model-checked: liveness. `NoDuplicateAdjacency` is false.

### 9.2 The tracker

`FidtrackerProofs` proves for every graph that is as `RegionGraph` says, of any size (`TrackerAssumption`: there is room
for a region and for a fiducial, `FuzzyRange` is a natural), and for every set of trees (`TreesAssumption`):

| Theorem | Statement |
|---|---|
| `WalkSound` | `Spec => []Assertions` |
| `LinkedOnce` | `Spec => []CandidatesOnce`: no region is linked into the list of candidates twice |
| `FramesSound` | `TrackingSpec /\ []HandsOverGraph => [](Assertions /\ CandidatesOnce)` |
| `BuffersSuffice` | `MaxTarget <= Unvisited => (Spec => []StringsFit)` |
| `FramesFit` | `MaxTarget <= Unvisited => (TrackingSpec /\ []HandsOverGraph => []StringsFit)` |

The invariant `IInv` says, while the scan runs: the visit counts are the numbers of regions that reported
(`CountInv`); a region that reported was complete, and all of its neighbours but the one it reported to had
reported to it (`ReportInv`); leaves are entered by the scan only (`StartInv`); and what the guard of the climb
established about the region to be entered (`EnterInv`). The hard case is a leaf the scan comes to: if a
neighbour had already reported to it, then the leaf, the regions that reported to it, those that reported to these
and so on would be closed under adjacency (`ReportInv`) and all complete, which `RegionGraph` excludes
(`NoneToldLeaf`). That a region has at most one open entry follows by counting (`ReadyRegion`).

`FramesSound` takes this to the composition: what a search left behind is reset before the next one starts, and the graph it starts on is
a region graph. The hypothesis `[]HandsOverGraph` is `TrackerGetsItsGraph` of 9.1; the two together say that segmenter and tracker
never break the assertions, whatever the images.

`BuffersSuffice` is about the assertion that fidtrackX.c:180 has commented out. The string of a candidate is built from
the regions below it, those with fewer descendents, which need not be the ones that reported to it. The invariant
`FitInv` says that every region entered counts at least as many descendents as the regions below it count, and those
regions (`DescendentsInv`), and that a candidate with more descendents than the largest known tree is marked as lost,
which keeps it from having a string. A sum is a number of cells (`CellsOf`, a column for every summand), so that a
bound on it is an injection. `SubtreeSize` builds one for the tree of a candidate: the cells of every region go into
those of the region above it, layer by layer, so there are at most as many regions as the candidate has descendents,
and itself. `StringsExist` shows that the recursion defines the strings, and `StringsShort` that none is longer than
its region has descendents, and itself; the sort by qsort only rearranges a list (`LeftHeavyArranges`), which leaves
the sums as they are. The hypothesis `MaxTarget <= Unvisited` says that no known tree has more nodes than the 0x7FFF
descendents which a region not yet entered counts: below a smaller candidate there are then only regions that were
entered. The trees of `default_trees.h` have some twenty nodes.

Only model-checked: `CandidatesExact` and `IdsExact`, which compare with the tree itself and need induction over it.

### 9.3 The main loop

`XtrackLoopProofs`, for every directory, every set of ratios and every bound (`RecorderAssumption`: files have natural
numbers of frames, ratios positive denominators):

| Theorem | Statement |
|---|---|
| `LoopModeAgrees` | `Spec => []ModeAgrees` |
| `LoopRateKept` | `Spec => []RateKept` |
| `LoopNeverOverwrites` | `Windows => (Spec => NeverOverwrites)` |
| `LoopPlaysInOrder` | `Windows => (Spec => PlaysInOrder)` |

The invariant `LoopInv` says what is open in which phase and mode, and that between rounds `frameProgress` is at most a frame, with
a halving less than a frame (`UpToFrame`), and one frame more during the search for the next file. A frame written takes one
from it, which keeps `files * denominator + progress = offered * numerator`. The equation is about the exact sum; which frames are
written depends on rounding, and `LoopRateKept` holds for every way it may turn out.

The two action properties are about the searches through the directory. `PlaceInv` (`LoopPlaceInvariant`) adds that the directory is a
finite set of natural numbers, and that while a frame of a video can be shown its file is in the directory, the position in it is not past the end,
and the frame shown is the one before the position. The rest are facts about the search: `Successor`, the next
number in the cyclic order, is what the loop of the Windows port finds (`NextIsSuccessor`). The hypothesis `Windows` is the branch of the conditional
compilation that is followed; with the other one files do get overwritten (section 10).

### 9.4 The TCP server and client

`OscTcpProofs`, for every finite set of connections (`ConnectionsAssumption`), and for every set of packets, size of the buffers
and bound on packets and connections (`ClientAssumptions`: packets are sequences of digits whose length two digits can express):

| Theorem | Statement |
|---|---|
| `ServerThreadsHaveHandlers` | `Spec => []ThreadsHaveHandlers`: no thread runs in a deleted handler |
| `ServerOneOwner` | `Spec => []OneOwner` |
| `ServerNothingLeft` | `Spec => []NothingLeft` |
| `ClientImplementsChannel` | `Threaded!Spec => IsChannel`: a refinement of `PacketChannel` |

The invariant `ServerInv` says that a live handler is in one of four places (with the accepting thread, in the vector, in Stop's
copy of it, on its way to delete itself), that the places exclude each other, and how far Stop has come. A step moves a handler
from one place to another. `Collect` copies the vector only when no older copy is left; after it, the accepting thread is gone, so
the vector stays empty. Undefined accesses are excluded by the condition `undefined = "no"`.

`ClientImplementsChannel` is about the threaded client and the server it sends to. The invariant `ClientInv` says that what the
receiver holds of the frame it is in, the bytes on the wire and what the thread that holds the mutex has still to send are together
the frames of the packets accepted and not yet delivered (`FramingInv`); after the connection is lost, other bytes may be missing
at the end. A step moves bytes from one of the three to the next and leaves the frames alone; `Lock` adds a frame (`FrameAppended`)
and the end of a packet takes off the first, which is what the receiver has put together because a frame can be split in
only one way (`NextFrame`, `SameParts`). That nobody sends between length and data is `SenderInv`. The frames are given as a
function whose values follow from each other, so no induction is needed. The polling client does not satisfy this for every size of the buffers: a
send that finds them full is given up in the middle of a packet (section 10). For buffers that never fill it is checked by TLC.

### 9.5 The topology search

`TopologySearchProofs`, for every set of pictures (`PicturesAssumption`: lists name regions of the picture), number of symbols and room
(`CountsAssumption`):

| Theorem | Statement |
|---|---|
| `SearchTypeOK` | `Spec => []TypeOK`: the passes stay inside the lists |
| `SearchListedOnce` | `Spec => []ListedOnce` |
| `SearchRootsExact` | `Spec => []RootsExact`: the roots are those of the picture, wherever they stand in the lists |
| `SearchFiducialsFit` | `Spec => []FiducialsFit`: no more fiducials than the caller has room for |

A region is linked in the step that takes it from the unknown level to that of the list, and keeps that level. That a pass finds the
neighbours it asks for needs that a leaf has one neighbour and a container at least two.

`SearchRootsExact` needs that the picture is one a segmenter leaves (`SegmentedAssumption`: neighbours list each other, perhaps
several times, and have different colours). `ExactInv` says which regions the passes have labelled: exactly the black leaves met
(`LeafInv`); as containers symbols only, as discarded a region only if it is none, and every symbol once the pass for containers is over
(`SymbolInv`); as roots fiducial roots only, and all of those met (`RootInv`). The passes count entries, and so does the statement.

### 9.6 Fiducial finder and TUIO server

`TuioTrackingProofs`, for every set of fiducials, frames and instants (`FinderAssumption`, `TuioAssumption`):

| Theorem | Statement |
|---|---|
| `FinderIsSound` | `Spec => []FinderInv` |
| `SpeedsAreOfSightings` | `Spec => []SpeedsOfLastSightings` |
| `ViewIsAlwaysOneFrame` | `Spec => []ViewIsOneFrame` |

`TrackingInv` says that what the finder remembers of a fiducial is a function of its last three sightings (`RecordOf`), which `Transfer`
extends by one; that the sightings are in the order of their times, later than the last frame where the clock did not stand still;
and that every datagram on its way is the bundle of one frame, whose sequence number no other has. The receiver folds the messages of a bundle
into its view; that this gives what was tracked in the frame is a lemma about the fold (`FoldProofs`).

### 9.7 The OSC receiver

`OscReceiverProofs`, for every set of packets, address spaces and bound on the clock (`ReceiverAssumption`, among others that the queue's first array
has room for an entry, and `PacketsAssumption`):

| Theorem | Statement |
|---|---|
| `AddressesAreKept` | `Spec => []AddressesInv` |
| `PacketsInOrder` | `Spec => []HandledInOrder` |
| `ReceiverImplementsDelayQueue` | `Spec => TakesEarliestFirst` |

`ReceiverInv` rests on an observation about the code: neither the bundles inside a bundle nor the copies in the queue parse (section
10), so at most one call of `ProcessBundle` is under way, and a packet is in one of four conditions: not received, being processed, waiting
in the queue, done with. To each belong the users of its address, the entries of the array and what has been handled of it. The array is
closed up after a removal and doubled when full, so its entries stay in the order of their arrival, and what `GetMin` takes is the
first of the least time (`LeastElement`), as in `DelayQueue`.

## 10. Statements of the repository that the models refute

Two are runs of their own (`segmenter_duplicates`, `tracking_incomplete`, sections 2 and 3). The others are definitions of the
modules: to see one refuted, replace the properties of the run's configuration by it, qualified by its instance where the
MC module has one (in a module that extends the MC module), with the change of constants given.

| Property | In the run | The statement | What TLC shows |
|---|---|---|---|
| `RecordsInRecordMode` | `xtrack_loop` | record.h:26 "Record the next frame." | 'p' while recording stops the recording; when playback cannot start, the mode stays RECORDING and frames are dropped (xtrack.cpp:261) |
| `ShowsFramesOfFiles` | `xtrack_loop` | record.h:32 "Play back the next frame." | with a ratio below 1 the first frame shown is memory that was never filled (record.cpp:90) |
| `FailsOnlyWithoutFile` | `xtrack_loop` | record.cpp:92 "No video file found for playback." | one number is tried, although other videos could be played (record.cpp:80) |
| `QuitAlwaysHonoured` | `xtrack_loop` | xtrack.cpp:108 "until the application is quit" | when no file yields a frame, `playbackFrame` never returns (record.cpp:104) |
| `NeverOverwrites` | `xtrack_loop`, `Windows = FALSE` | xtrack-mac/record.h:23 "Start recording a new video" | the Mac port records into file 1 every time (xtrack-mac/record.cpp:156) |
| `TrackedIffInFrame` | `tuio_tracking` | fiducials.h:21 "Has the fiducial been tracked?" | in a frame within the same tick as the one before, a lost fiducial stays tracked (fiducials.cpp:113) |
| `ReturnsNumberFound` | `tuio_tracking` | fiducials.h:51 "the number of actually found fiducials" | the counter is never increased (fiducials.cpp:117) |
| `TimestampsInSeconds` | `tuio_tracking`, `ClocksPerSec = 1000000` | fiducials.h:23 "(in seconds)" | the Mac's clock is multiplied where it should be divided (xtrack-mac/xtrack.cpp:21) |
| `EndedAreUnregistered` | `osc_tcp` | WOscTcpServer.cpp:22 "we cleanup and delete ourselves" | a connection that closes before its handler is registered leaves a handler until Stop (:163) |
| `TerminatedJustExit` | `osc_tcp` | WOscTcpServer.cpp:23 "we just exit as he will wait for us" | `UnRegister` starts one behind the last element, finds what Stop has cleared, and deletes the handler a second time (WOscTcpServer.h:102) |
| `StopClosesSockets` | `osc_tcp` | WOscTcpServer.cpp:210 "by closing the client connection sockets" | the descriptor is forgotten before it is closed (:213) |
| `Polling!WholePackets`, `Polling!LostMeansLost` | `osc_tcp`, `LargeWireSize = 2` | WOscTcpHandler.cpp:107, WOscTcpHandler.h:76 "Socket connection lost." | a full buffer ends a send in the middle of a packet and is reported as a lost connection |
| `Threaded!CloseCloses`, `Polling!CloseCloses` | `osc_tcp` | WOscTcpClient.cpp:70 "Close the receiving socket and shutdown the receiving thread" | a threaded client refuses to close while its thread runs (:77); a polling one forgets the descriptor (:86) |
| `ReadyIsProcessed` | `osc_receiver`, `Packets <- MCGoodPackets` | WOscReceiver.cpp:284 "removed from the priority-queue and processed" | the copy of a bundle in the queue does not begin with its tag and is rejected (WOscBundle.h:120) |
| `InnerBundlesProcessed` | `osc_receiver`, `Packets <- MCNestedPackets` | WOscReceiver.cpp:189 "(recursion)" | inner bundles are looked for at the wrong byte (:215) |
| `AddressesDeleted` | `osc_receiver` | WOscNetReturn.h:50 "will be managed and deleted internally" | the address of an empty packet is never released (WOscReceiver.cpp:149) |
| `ItemsDeleted` | `osc_receiver` | WOscPriorityQueue.cpp:180 "has to care about the deletion" | a second variable named `bundle` hides the one that is deleted (WOscReceiver.cpp:304) |
| `NoAddressSpaceAllowed` | `osc_receiver`, `Roots = {"root", "child", "null"}` | WOscReceiver.cpp:99 "pass NULL" | NULL is used (:105) |
| `DestructionIsDefined` | `osc_address_space` | WOscContainer.cpp:163 "starts a recursive deletion" | the search for aliases enters children that are deleted already (:142) |
| `SearchesEnd` | `osc_address_space` | WOscContainer.cpp:184 | an alias of a container below itself makes the search for aliases of methods endless (:583) |
| `AliasesAreAlive` | `osc_address_space` | WOscContainer.cpp:304 | removal by name leaves aliases of what it deletes (:314) |
| `FindsByAddress` | `osc_address_space` | WOscContainer.cpp:257 | inner segments never compare equal (:291) |
| `Patterns!ListsMatchAlternatives` | `osc_address_space` | WOscPatternMatch.cpp:65 | `{a,ab}a` matches `a` (:276) |
| `Patterns!RangesMatchCharacters` | `osc_address_space` | WOscPatternMatch.cpp:154 | `[a-b]` matches `-` (:196) |
| `Patterns!SetsMatchCharacters` | `osc_address_space` | WOscPatternMatch.cpp:65 | `[ab]` matches `[` (:178) |
| `Patterns!OthersMatchCharacters` | `osc_address_space` | WOscPatternMatch.cpp:65 | `[!a]` does not match `!` (:175) |
| `StringObjects!AssignmentCopies` | `osc_packets` | WOscString.cpp:125 | `s = s` copies from the new buffer (:136) |
| `MessageObjects!AssignmentCopies` | `osc_packets` | WOscMessage.cpp:240 "copying data from another, allready existing object" | `m = m` frees what it copies from, and copies new arrays onto themselves (:249, :322) |
| `MessageObjects!BlobsStayInArray` | `osc_packets` | WOscMessage.h:50 | a blob is written behind an array of as many elements as there are strings (WOscMessage.cpp:622) |
| `MessageObjects!IndexIsSafe` | `osc_packets` | WOscMessage.cpp:691 "an safe interface" | the index one behind the last is let through (:709) |
| `MessageObjects!MergesArguments` | `osc_packets` | WOscMessage.cpp:254 "Merges the arguments of two messages" | the operator does nothing (:269) |
| `TimeTagObject!CurrentTimeIsInSeconds` | `osc_packets` | WOscTimeTag.cpp:64 "The first 32 bits specify the number of seconds" | they are in the last 32 bits (:80) |
| `TimeTagObject!LargestIsLargest` | `osc_packets`, `LongMax = 3` | WOscTimeTag.cpp:164 "all bits set to one" | where long has 32 bits, only half of them are (:174) |
| `TimeTagObject!AddAssignAdds` | `osc_packets` | WOscTimeTag.cpp:277 | `=+` assigns (:290) |
| `TimeTagObject!DefaultSystemTime` | `osc_packets` | WOscTimeTag.cpp:195 | the default NULL is used (:205) |
| `Bernsen!MeanOfSurroundings` | `libfidtrack` | tiled_bernsen_threshold.c:30 "the mean of the min and max" | a pixel that lowers the minimum is not seen as a maximum (:86) |
| `Bernsen!MeanForPartialTiles` | `libfidtrack`, `BernsenWidth = 9` | the same | the last threshold of a row is computed from the next row (:236) |
| `RootsLieInARegion` | `libfidtrack` | fidtrack120.c:222 "assert( r->adjacent_region_count == 7 )" | a plate that fills the image to its border is accepted as a root |
| `Orders!ShortSidesAgree` | `libfidtrack` | fidtrack120.c:323 "rotated 90 degrees" | they are rotated the wrong way round and shorten the sum |

Some of these would touch properties that are checked. Where an access is undefined, the model says so (`undefined`, `broken`,
"misused", "crashed") and does not explore further, and a property that holds only until then says that, too.

## 11. Not modelled

- Display, parameters and the graph dump: drawing, lookup of command-line values and debug output, without control of their own.
  OpenCV, the camera and the codecs are modelled by how they are used: a frame or none, a file that opens or not.
- Floating point: centres, sizes and the angle of a fiducial; the finder's arithmetic is exact here, with NaN. Of the recorder's
  doubles, what rounding does to the sums (section 5) but not the sums themselves.
- `find_regionsX`, reading trees from a file, bytes per pixel other than one in the thresholders, the textual dumps of OSC
  messages, socket options, a second call of Start or Stop while one runs.
- The Mac port is the constant `Windows`, `FALSE`, of `Recorder` and `TuioTracking`; no listed run has it, section 10 has
  what it shows.
- Hazards that no property covers have a note in `PROJECT.json`.
