# CGameEngine: a verification project

TLA+ modules of the parts of the engine whose correctness depends on the order in
which things happen, model-checked with TLC on small instances, and theorems about
them proved with TLAPS for every value of the constants. Paths like
`net/Connection.cpp:103` are relative to `src/`. `PROJECT.json` maps every
definition to the lines it models and lists the runs, the mutations that show each
property can fail, the hazards and the theorems.

1. [The system](#1-the-system): inventory of the components
2. [What is modelled](#2-what-is-modelled): module by module, with the correspondence to the code
3. [The runs](#3-the-runs): what each shows, bounds, fairness
4. [What the code does that its comments deny](#4-what-the-code-does-that-its-comments-deny)
5. [The proofs](#5-the-proofs)
6. [What is not modelled](#6-what-is-not-modelled), [the plan](#7-the-plan), [running it](#8-running-it)

## 1. The system

CGameEngine is a library for games: a main loop with screens, rendering over OpenGL,
a GUI, physics bodies over Box2D, services (processes, timers, input, logging,
databases, memory-mapped files), and a network layer over UDP and Unix sockets. It has
three kinds of logic of its own, as opposed to calls of libraries. In `net/`, messages
are cut into packets, lost packets are requested again, connections are created, kept
alive and given up, by three or four threads that share queues. In `gui/` and
`IMainGame`, one thread keeps pointers, requests and drawn state from one event to the
next. In `draw/`, the program and the graphics card share buffers.

| Component | State | Operations | Talks to | Hard about it | Correct when |
|---|---|---|---|---|---|
| Connection (`net/Connection.cpp`) | `m_packets`, `m_sequences`, `m_expiredSequences`, `m_retryRequests`, latency estimators, closing and lagging flags | `addPacket`, `update`, `calculateLatency`, `doesExist`, `setClosed` | update thread calls it; it fills the application's buffer and sends requests and acknowledgements through Network | loss, duplication and reordering; 32-bit times; retries | what reaches the application is part of no other message; requests end with their sequence; a silent peer is given up |
| PacketSequence (`net/PacketSequence.cpp`) | `m_packets`, `m_missingPackets`, `m_hardExpiration` | constructor, `addPacket`, `update` | owned by Connection | float arithmetic on times, index arithmetic of the search for gaps | a complete sequence is recognised, an incomplete one asks for what is missing |
| Network (`net/Network.cpp`) | `m_sendQueue`, `m_storedSequences`, `m_seqID`, `m_isActive`, `m_netListening`, sockets, three threads | `send`, `sendBuiltin`, `broadcast`, `sendRetryResponse`, `listenLoop`, `sendLoop`, `stop`, `setAccepting`, destructor | application, update thread, sockets | lost wakeups, pointers shared by threads, destruction under running threads | what is queued is sent once, in order, intact, to its receiver; the destructor returns |
| NetworkServer (`net/NetworkServer.cpp`) | `m_packetBuffer`, `m_netConnections`, `m_closedConnections`, `m_datagramBuffer` | `updateLoop`, `shutdownSockets`, `isPacketValid` | listen thread feeds it, it owns the Connections | batching against arrival, removal against late packets, stopping at any time | one connection per peer, removed once, nothing heard of it afterwards |
| NetworkClient (`net/NetworkClient.cpp`) | `m_serverConnection`, `m_isConnectionAccepted`, `m_dstAddress`, `m_packetBuffer` | `updateLoop`, `send`, `shutdownSockets` | as above, for one peer | same threads, handshake, a wait that can miss its notification | it is connected only when the server accepted; it hears in order |
| NetworkIPC, UnixSocket | a pair of sockets, the queue of packets, `m_isConnected`, a thread | `completePair`, `mainLoop`, `addDatagram`, `send`, `stop`, `setDisconnected` | two processes | handshake, processes that die and come again | what is sent is read, keep-alives die out, the thread has a socket |
| Packet, RawPacket, Datagram | one buffer each | `serializeOut`, `serializeIn`, `isDamaged` | everything in `net/` | who frees what, 16- and 32-bit lengths | what is put in comes out |
| SafeQueue, SafeMap, SafeUnorderedMap | a container and a mutex | one lock per call | the threads of `net/` | two calls are not one step | |
| ProcessManager (`srv/ProcessManager.cpp`) | `m_processList`, `m_signalsCaught` | `start`, `pKill`, `pKillAll`, `update`, SIGCHLD handler | forks children, signals | signals coalesce, children end before they are listed | the list is the set of running children |
| IMainGame, ScreenList, IGameScreen | current screen, screen states, `m_isRunning` | `run`, `init`, `update`, `exitGame`, `moveNext`, `movePrevious` | screens call back into it | an exit from within the frame that runs, a list without a current screen | entries and exits of a screen alternate; requests are honoured |
| InputManager | key maps of this and the last frame | `pressKey`, `releaseKey`, `update` | main loop | the copy of the last map against the events | a press is seen in its frame and in no other |
| Timer | start, life, end | `setup`, `restart`, `addTime`, `isExpired` | everything | added time against remaining time | its functions agree about its end |
| GUI, Frame, ToolTip, ContextMenu (`gui/`) | frames, `m_lastFrame`, `m_lastTouchedObject`, `e_hover`, popout, menu, tip, typed text | `onSDLEvent`, `update`, `buildUI`, `dispose` | InputManager, screens, elements | pointers that outlive frames, focus | keys go to what was touched; what comes up goes again |
| GUI elements (`gui/ScrollBox.cpp`, `Slider.cpp`, `DropDown.cpp`, `TickBox.cpp`, `PushButton.cpp`, `RadioButton.cpp`) | value, range, selection, texture, `m_needsUpdate` | clicks, hovers, setters, `update` | GUI | what is drawn follows a value only in an update that was asked for | what is drawn is the value; values stay in range |
| GUIRenderer (`gui/GUIRenderer.cpp`) | the glyph of each element, a draw path | `renderPrep`, `dispose` | Renderer2D | glyphs kept for things that go | what is visible is drawn where it is |
| Renderer2D, BufferLock (`draw/`) | draw paths, three-part ring buffers, fences | `begin`, `end`, `renderPrep`, `render`, `wait`, `lock` | OpenGL, the card | the card reads while the program writes; offsets | the card reads what was written for it |
| FontManager, ActiveFont | rectangles of characters, slices | constructor, `draw`, `measure` | TextureManager | packing into the largest texture, slices that run out | each character in its slice, apart and inside, drawn as measured |
| TextureManager, TextureContainer, Texture2D, DDSHelper | map of textures, containers, free slices | `getTexture`, `newTexture2D`, `newTextureContainer`, `dispose` | renderer, fonts | slices that never return, caches that outlive containers | two textures never share a slice |
| DebugRenderer, GLSLProgram, Camera2D, FPSLimiter | vertices and indices; program names; matrix; ring of times | draw calls, `compileShaders`, `use`, `dispose`, `zoom`, `update`, `end` | OpenGL, SDL | order of calls, names shared by copies and given out again | lines within their shape; programs of their owners; current matrix |
| MemoryMappedFile, MemoryMutex | mapping, lock file | `zeroFill`, `sync`, `lock`, `unlock` | other processes | locks across processes | mutual exclusion |
| Logger, Database, ConfigReader, AudioEngine, ResourceManager, SystemStats, physics bodies | file handles, caches, library objects | wrappers | libraries | | |

How the network parts interact, for a server and one message of a client:

    client application --send--> slices, m_storedSequences, m_sendQueue --sendLoop--> UDP
    UDP --> listenLoop --m_packetBuffer--> updateLoop --addPacket--> Connection
             |                                 |                        |
             | retransmission requests         | every 500 ms           | update: sequences, CRC,
             v answered at once                v                        v expiry, requests, acks
          m_sendQueue                     m_netConnections         m_datagramBuffer --> application

The listen thread handles requests for retransmission itself; everything else waits
for the update thread, which works in batches every 250 ms (`HEARTBEAT_INTERVAL`) and
updates the connections every 500 ms.

How the others do, within one frame of a game:

    IMainGame::run -> update() of the screen -> SDL events -> InputManager, GUI::onSDLEvent
                                                                |-> element under the mouse
                   -> GUI::update -> elements that asked for it: text, textures
                   -> draw() of the screen -> Renderer2D, DebugRenderer, GUIRenderer: glyphs
                        -> end() : commands, vertices, transforms into a part of the rings
                        -> render() : the card reads them, later

## 2. What is modelled

### 2.1 The network

**Connection.** One `NetConnection` and its `PacketSequence`s, as the server's update
thread drives them. `AddPacket` is `Connection::addPacket`, with one disjunct per group
of op codes; `Update` is the whole of `Connection::update`: the reasons to give up
(`CloseConnection`), or else (`UpdateSequences`) sorting packets into sequences
(`Ingested`), `PacketSequence::update` of each (`HardExpired`, `Complete`, `Intact`,
`Searched`), pushing what was assembled, expiring, requesting and acknowledging. All
of that is one step, since all of it happens on one thread and touches nothing the
other threads write, except the wire. The abstractions, and why nothing the properties
tell apart is lost:

- A payload is the message it is a slice of and the number of the slice. Two
  payloads are equal when these are; a CRC tells different byte strings apart.
- Assembling copies `m_packets` in order into a buffer of `totalLength` bytes. With
  duplicates the copy would run past it; what is then compared is not the message,
  so it is a CRC mismatch in the model.
- The CRC is asked of the whole, but the datagram is made with the length of one packet
  (`net/PacketSequence.cpp:89`) and its constructor copies that much
  (`net/Datagram.h:27-28`). `Copied` takes the first bytes of the slices laid end to end;
  a byte is its message and its place in it. `DeliveredAsSent` says that they begin one
  message, `TotalLengthDelivered` (section 4) that they are all of it.
- The latency samples are replaced by what they may become: any of `Latencies` and
  `RetryTimeouts`. `m_prevLatency` is never assigned, so it is 0. A latency of -1 ms,
  which the code uses as "not measured", is among the values.
- `m_hardExpiration` is a `uint32_t` that the constructor fills from a `float` sum of
  the time in ms since 1970 (`net/PacketSequence.cpp:18`). That float cannot be
  represented, and the conversion is undefined; `FloatToUint32` gives the two outcomes
  real processors produce, chosen by the constant `Saturates`: x86-64 keeps the low 32
  bits, ARM clamps to 2^32-1, which the code reads as "never".
- `m_expiredSequences` holds 32 bits of a time and is compared with 64 (`ToUint32`).
- `m_retryThreshold` holds 32 bits too; the test on it always passes and is left out.
- The branch for `OP_RetransmissionImpossible` in `update`
  (`net/Connection.cpp:66-71`) cannot be reached: `addPacket` handles that op code.
- `retryRequests` is a set; `m_packets` of a sequence is a bag plus the packet in
  front, which is all the code's order is used for.

**Transfer** EXTENDS Connection with a client that sends messages (`Send`:
`Network::send` with `getSequenceID` and the store), answers retransmission requests
(`Retransmit`), and with the network: `wire` is a set of packets, `Receive` takes any
of them or, with `Duplicates`, leaves it there; loss is a packet that is never
received; `ReceiveDamaged` delivers one whose lengths disagree, which
`Packet::isDamaged` notices. `ReceiveBuiltin` are the op codes a peer may send by
itself. `RacingSenders` lets two threads of the client come out of `getSequenceID`,
which increments without a lock and returns a reference, with the same number.
`m_seqID` starts at 0 here and at 1 there, and does not wrap.

**SendQueue.** The threads around `m_sendQueue`, each with a program counter: the
application in `send()` and `setAccepting()`, `listenLoop`, `sendLoop`, and the owner
in `stop()`, `shutdownSockets()` and `~Network()`. A step is one call of the queue,
which has a lock of its own, or one access to `m_isActive`; what happens between two
such calls is exactly what other threads can come between. `m_sendCV` is waited on
without a predicate and under a mutex nobody else locks (`net/Network.cpp:313`), so
checking the queue (`SendLoop`) and beginning to wait (`Block`) are separate steps and
`Notify` reaches only a thread that waits already. Spurious wakeups and polls
interrupted by a signal, which both loops take for the end (`net/Network.cpp:244`,
`:318`), are actions of their own. `front()` of an empty queue is undefined: the
thread's counter becomes "undefined" and it is followed no further. Sequence of the
destructor: `Shutdown`, then `Join`; it notifies nobody. Not in it: the memory of the
packets (a retransmission frees and reallocates the buffer of a packet that may still
be queued, `net/Packet.cpp:156`), the ageing of stored sequences, and the packets other
threads send through `sendBuiltin`, which do not pass the queue.

**NetworkServer.** `updateLoop` as `BeginWait`, `WaitTimesOut` (only a timeout lets the
loop work: any notification just starts the wait anew), `ProcessPacket` for each packet
of the batch, `UpdatePass`; the listen thread as `Arrive` and `ListenEnds`, since a round
that was in `poll()` at the stop still delivers what it read; the owner as `Stop` and
`Shutdown`. A connection is a number. What it does with a packet is reduced to whether
the application gets a datagram and whether an arrival is noted, which is what
`AddPacket` of module Connection does to `buffer` and `lastArrival`; whether `update()`
gives it up is any of `Verdicts`, which are the cases of `GivesUp` there. Times are in
ticks of 250 ms; `m_closedConnections` is in seconds, as in the code, and that is the
point.

**NetworkClient.** The same threads for the one connection of a client. `LoopHead`,
`CheckEmpty`, `WakeUp`, `BeginBatch`, `ProcessPacket`, `EndBatch` are the update
thread; between `CheckEmpty` and the wait anything may come, as in SendQueue.
`Arrive(op)` is the listen thread for any packet a server may send, in any order and
number. `Shutdown` empties the buffers and deletes the connection while the update
thread still runs, as `~NetworkClient` does; what the thread then does with the
connection is undefined. The client never calls `update()` on its connection, so parts
of longer messages gather in `held` and are never assembled, and a goodbye marks the
connection and does no more.

**Slicing.** The loop of `Network::send` that cuts a message into packets, line by
line, with the check in `listenLoop` that abandons packets that are too small. Lengths
are below 2^31; the wrap of `dataLength + PACKET_HEADER_SIZE` near 2^32 is left out.

**NetworkIPC.** Two processes, `primary` and `secondary`, each with a NetworkIPC
object, its two UnixSockets and its reading thread. `CreatePrimary` and
`CreateSecondary` are the constructors, `CompletePrimary` and `CompleteSecondary` the
two halves of `completePair`; `LoopIpc`, `Receive` and `PollTimesOut` the thread;
`SetDisconnected`, `StopIpc`, `DestroyIpc`, `ClearPackets` and `JoinIpc` the
application. `Kill` ends a process and leaves its name in `/tmp`; a new object binds
it anew. A datagram is its op code. `sendto` to a name nobody is bound to is refused,
and so is one to a full socket.

### 2.2 The game

**MainGame.** `run()`, `init()`, `update()`, `draw()` and `exitGame()` of IMainGame, one
action for each stretch between two calls of a screen; the screens set their own state
at any moment they have control. SDL's events come within the screen's `update()`
(`PressKey`, `ReleaseKey`, `Quit`), after the key map of the last frame was copied. `asked`
remembers what a screen asked for, and where: what the first screen asks for in its first
`onEntry()` is overwritten by `setRunning()` (`IMainGame.cpp:114-115`) and lost, which
`RequestsHonoured` names.

**ProcessManager.** The children of the operating system with the rule that one pending
SIGCHLD absorbs the next, the handler that increments `m_signalsCaught`
(`ProcessChildSignal`), and `update()` whose decrement is a `Load` and a `Store`
between which the handler may run. `Fork` and `Insert` are the two halves of `start()`;
`KillFind`, `KillSend` and `KillErase` the three locked calls of `pKill()`, between which
`update()` may take the process from the list.

**Timer.** `setup`, `addTime`, `isExpired`, and `getTimeLeft`, which cuts what is left to
whole units (`Whole`) and wraps it to an unsigned number (`Width`).

### 2.3 The GUI

**Focus** is the abstract specification: one object at most has the focus, keys are
taken only while it is edited, and what is typed is drafted for that object.

**Gui.** `GUI::onSDLEvent`, `update`, `dispose`, `buildUI`'s effect on what lives, the
tool tip and the context menu. Which frames lie under the mouse is any set, since
frames are dragged and moved between events. A pointer to something deleted stays a
value; `undefined` says that it was used, and the behaviour stops. `Keyboard ==
INSTANCE Focus WITH focus <- lastTouched, typing <- textInput` is the refinement
mapping, checked as `KeysGoToFocus`.

**ScrollBox, Slider, Dropdown, TickBox, PushButton, RadioGroup.** Each element by
itself: what the game and the mouse may do to it, in any order, and `update()`, which
runs only when something asked for it. The state that matters is the value, what is
drawn, and whether an update was asked for. `setText()` changes the text of any element
and asks for none (`SetText`, `SetListText`), and neither does `TickBox::setTicked()`. A
tick box may have the default textures, one of its own, or none. **BuildUI** goes through a configuration
file (`GUI::buildUI`, `Frame::add*`): a frame keeps its elements by name alone, while a
file's names are unique only within a kind; texts and push buttons get no default texture
(`NoDefault`).

### 2.4 The drawing

**Renderer2D.** `AddGlyph`, `Begin`, `End` (which prepares each path: static, long and
fast) and `Render`, with the three parts of each ring, their heads, the fences and the
queue of draw calls the card has not finished (`CardFinishes`). **Batching** is the loop
of `renderPrep` that merges glyphs into indirect commands, and what the card makes of
them. **GuiDrawing** is GUIRenderer: the glyphs it keeps for elements, for the rows of
lists, and for the parts (the tick of a slider, the arrows of a scroll box) that `update()`
makes (`UpdateParts`) and the setters delete (`DestroyParts`) without their glyphs.
**FontManager**: trying numbers of rows, the rectangles, the slices (one for the font's
address, one for each character, one for the unsupported one), `draw` and `measure`. **TextureManager**: cache, containers, slices, two owners of the fonts'
container, mip levels of a DDS file. **GLSLProgram**: objects that compile, are copied
(`CopyProgram`: both then have the driver's program, and either deletes it), used and
disposed of; attributes are enabled in the vertex array that is bound, which renderers
bind and set up meanwhile. **Framerate**: between two frames the program may wait for the
screen, and `SDL_Delay` may oversleep (`Waits`). **DebugRenderer**, **Camera2D** as their
names say.

### 2.5 Instances

MCTransfer, MCSendQueue and MCNetworkServer hold the values of constants and the
symmetry of addresses that the configurations need. MCGame, MCGui, MCDrawing and
MCSlicing put components beside each other that share no state: a variable `subject`
chooses at the start which one a behaviour is about, and the others keep the state they
were made with. The state spaces add up instead of multiplying; nothing is lost,
because no action of one reads a variable of another. The parts that do share state are
composed inside one module (Transfer, SendQueue, NetworkServer, Gui, Renderer2D).

The theorems stand in TransferProofs, SendQueueProofs, NetworkServerProofs, SlicingProofs
(which extends MCSlicing and covers the pair of processes too), GameProofs, GuiProofs and
DrawingProofs, each of which extends the module, or the instance, whose runs check the
same properties; DataLemmas has the lemmas about data that several of them need.
Operators with a comment "Mutation of ..." are the same operator with a plausible bug,
used to show that a property can fail.

## 3. The runs

Several properties are conjunctions of named parts; the parts stand, with comments of
their own, in the component's module, and the name of the whole is in brackets below.

| Run | What it asks | Bounds |
|---|---|---|
| `transfer_collide` | Two messages, of three and two packets, under the same or different identifiers, with loss, reordering and duplication, clamping conversions: does the application get anything but the beginning of one message (`DeliveredAsSent`), can a lookup fail (`SequenceFound`), do requests outlive their sequence (`RequestsHaveSequence`)? | 3 times, 2 updates; enough for a sequence to be begun in one update and finished, expired or repeated in the next |
| `transfer_silence` | One message, damage, unasked acknowledgements and replies, then silence, wrapping conversions: types (`TypeOK`), assembly only while lagging (`OnlyLaggingDelivers`), giving up (`SilentPeerGivenUp`) | 7 times; packets until the third, the rest is longer than `LostAfter`. Enough for a damaged packet to be requested twice, which makes the connection lag, and the message to be assembled afterwards |
| `sendqueue_order` | Two calls of `send()`, of two packets and one, two retransmissions, stop and destruction at any time: order and no repetition, also while the queue is cleared (`SentInOrder`), what a notification guarantees (`NotifiedDrains`), when the destructor returns (`DestructionEnds`) | none on the interleaving; three packets are what it takes for a producer to come between two of another call |
| `server_ends` | Two peers that connect, talk and leave, the server stopped at any time: denial (`NobodyDenied`), nothing of a connection after its end (`LastWord`), goodbyes (`GoodbyeRemoves`) | 4 packets, 4 ticks: two updates, with a batch before and between |
| `slicing` | Slices fit their packets and stay inside the message (`SlicesSound`) and cover it (`CoversMessage`). The pair of processes: a thread has a socket, at most one packet comes late (`IpcSound`); keep-alives die out, the number arrives, the destructor ends (`IpcProgress`) | every length up to eight packets of five bytes (the theorems lift these); three objects, so that either process begins anew once, three calls, two datagrams in a socket, so that it can be full |
| `game` | Screens entered and left alternately but for one named case (`ScreensSound`), a press seen only in its frame (`PressSeenInItsFrame`), requests and exits honoured but for that of the first `onEntry()` (`RequestsHonoured`). Zombies counted, ghosts explained, cleanup only of what is out of the list (`ListTellsChildren`), zombies reaped unless a signal was lost (`ZombieReaped`). What the client's application hears and in which order (`ClientHears`), arrivals processed and destruction ended unless the thread sleeps (`ClientProgress`) | three screens, so that there is one with both neighbours; two entries of each, two events a frame; three children, enough for two to end behind one signal while another is started; three packets |
| `gui` | Pointers alive or in a named exception (`PointersKnown`), keys go to the focus (`KeysGoToFocus`, the refinement), tips, menus and hover textures come and go (`WhatShowsGoes`), what is drawn is what is held (`ShownIsHeld`), every fault has one of its named causes (`FaultsAreKnown`), a frame is its last file (`FrameIsItsFile`), values stay in range (`StaysInRange`), a timer's functions agree to one unit (`TimerAgrees`) | two frames of which one comes later, one element in each, one menu, two starts; ranges and steps of which one does not divide the other; lists of up to three; three radio buttons; four files, of which one has shared names |
| `drawing` | Ring buffers settle (`RingsAgree`), locks do not grow while long paths are drawn (`LocksBounded`), commands draw their glyphs (`CommandsDrawGlyphs`), the GUI's glyphs are alive and placed, and only deleted rows and parts are drawn for nobody (`GlyphsMatchElements`), characters in their slices, apart and inside (`FontSound`), slices and containers owned once (`TexturesSound`), lines within their shape (`ShapesBuffered`), programs and attributes returned but in named cases (`ProgramsOwned`), matrix and frame times current, no frame shorter than the limit (`ViewAndPace`) | rings have three parts, so mixes reach four glyphs and every head goes round; four glyphs of two textures and two shapes, every sequence; two elements, a row and a part, with three glyphs, so that a part is drawn twice beside its element; fonts of four to six characters, with zero width, wide, too wide for any texture, and without padding; two slices a container; two disposals; two names for two programs, so that a name is reused; one array to be bound, set up or not |

The times of the network configurations are scaled: `WordSize` is small so that the
clock has passed it, as 2^32 ms passed in February 1970, and `FloatStep` divides it, as
2^17 divides 2^32. What matters to the code is only the order of these numbers. A
timer's `Width` stands for 2^32 and is small enough for `getTimeLeft()` to wrap; its units
(`Ticks`) are two and three steps of the clock, so that what is left is cut.

Most runs say `CHECK_DEADLOCK FALSE`: the bounds on time and packets end every
behaviour of Transfer, threads and games end, an undefined read is followed no further,
and threads may sleep for ever, which is what `DestructionEnds` and `ClientProgress`
are about.

Fairness, which is stated only where a thread of the program runs or time passes:

- `Transfer!FairSpec` lets time pass and the update run. The update thread has nothing
  to do but that; what keeps it from it is arriving packets, since each notification
  starts its wait anew, and the property is about a peer that fell silent.
- `SendQueue!FairSpec` lets every thread take its next step as the scheduler of the
  system does. The application is not made to send, the owner not to stop, and no
  signal or spurious wakeup is relied on.
- MCGame: the game's thread runs, and a screen returns; `ProcessManager::update()` is
  called again and again and a pending signal is delivered; the client's threads and
  its owner's join are scheduled.
- MCGui: `GUI::update` is called in every frame and timers run out. For the tick box and
  the button, an update in which nothing drags the element happens again and again
  (strong fairness, because a drag asks for an update of its own in between).
- MCSlicing: the threads of the pair and the destructors are scheduled. Nobody is made
  to call anything.

A property that needed more would not hold, and each liveness property names the cases
in which what it promises does not come.

What the runs show that a reading would hardly:

- `DeliveredAsSent` rests on the CRC alone (dropping the check breaks it with two racing
  senders). `SequenceFound` holds only because the 32-bit expiry time is already past
  when it is stored: with a field of 64 bits the `.at()` of a late duplicate would throw
  and end the server. `OnlyLaggingDelivers` says that on x86-64 messages of several
  packets practically do not arrive; `NobodyDenied` that the branch that denies a peer
  is dead code while the server lives.
- `ScreensPaired` has one exception: the screen whose EXIT_APPLICATION ends the game is
  left twice. `RequestsHonoured` has one: what is asked for in the first `onEntry()`.
- `ListTellsChildren` names the two ways in which the list goes wrong for good: a child
  that ends before it is inserted, and a SIGCHLD that was merged or overwritten by the
  decrement.
- `RingsAgree` says that long paths settle three preparations after their last change,
  not earlier: every draw call reads the first part of a ring, whichever was written
  last. `LocksBounded` fails for a program that draws static paths only.
- `CommandsDrawGlyphs` holds for shapes only up to the first command that is shared:
  `firstVertex` counts commands from then on, vertices before.
- `FaultsAreKnown` is a list of faults, each with the calls that lead to it.
- `HoverEnds` names three cases in which a tick box stays drawn as it is not, one of them
  every click: `setTicked` asks for no update.
- `ExpiryAgreesWithTimeLeft` allows for a last unit in which `getTimeLeft()` is 0 and the
  timer has not expired.
- `FirstRobberyHasCause`: a program is deleted under an object that has it by a copy of
  the object, or by one that is disposed of twice.

## 4. What the code does that its comments deny

Runs that expect a violation; each checks what a comment says.

| Run | The comment | What the run shows |
|---|---|---|
| `claim_length` | `net/Packet.h:35` "total length of data across packets" | an assembled message is delivered with the length of one packet (`net/PacketSequence.cpp:89`) |
| `claim_address` | `net/Network.cpp:256` "immediate reply of retry requests" | the queued pointer to `sender` is read after the listen thread zeroed or reused it |
| `claim_denial` | `net/NetworkServer.h:35` "IPStr and time to remove" | seconds are compared with milliseconds: the entry goes with the next update |
| `claim_trampling` | `draw/BufferLock.h:65` "if an overlap occurs, wait until this has resolved, or data trampling will occur" | the manager is built with `false` (`draw/Renderer2D.cpp:27`), so only `glWaitSync` is called, which returns at once: the program writes what unfinished draw calls read |

Seen while modelling and not the subject of a run.

Network:

- On x86-64 the hard expiration of a sequence ("time to forcefully close the packet
  sequence", `net/PacketSequence.h:31`) is past when it is created.
- A notification between the check of the queue and the wait is lost, in `sendLoop`
  (`net/Network.cpp:313`) and in the client's `updateLoop` (`net/NetworkClient.cpp:68`).
- The server's update thread begins to wait although there is data
  (`net/NetworkServer.cpp:66`), and each arrival makes it wait anew.
- Last slices of no or one byte make packets that `listenLoop` abandons
  (`net/Network.cpp:249`): messages of those lengths never arrive.
- The search for gaps pushes the index where the number is `i+offset`
  (`net/PacketSequence.cpp:124`), so it asks for packets it has, and it never notices
  that the last packets are missing.
- A message whose packets all arrive twice is delivered twice when the first copy is
  complete before the second begins.
- A latency of exactly -1 ms keeps arrivals from being noted (`net/Connection.cpp:223`).
- The destructor clears the queue between the check and the `front()` of the send
  thread; a datagram that announces the end of a connection points to the connection
  that the same update deletes (`net/NetworkServer.cpp:207`).
- IPC: `addDatagram` sends through the read socket to an address of zeros, so "Network
  (Process A) -> Process B" (`net/NetworkIPC.cpp:159`) never arrives. A primary that
  completes its pair before the secondary is bound keeps a closed socket to write to,
  and still reports a connection with the first keep-alive. `closeSocket` unlinks a name
  without its directory. A signal ends the thread.

Game:

- A screen list without a current screen is dereferenced.
- `pKill` leaks the Process; `pKillAll` erases what its iterator stands on.

GUI:

- Both arrows of a scroll box are made in the place of the upper one until they are
  moved; a number that is typed never takes effect.
- A ticked box is not drawn ticked after the mouse left it; `setTicked` and `setText` ask
  for no update; a box with a texture of its own, or with none, reads a null hover
  texture. A button may stay
  drawn as pressed.
- Elements of two kinds under one name: the second is lost, and is taken for one of the
  other kind by a `static_cast`. The objects of radio groups are never deleted.
- A list that is shortened while its popout is open is read beyond its end.
- `Timer::addTime` ignores what it is given. Popouts and context menus test a rectangle
  of zeros; a context menu with entries reads a null texture
  (`gui/ContextMenu.cpp:40`); `gui/GUI.cpp:635` takes `back()` of an empty string.

Drawing:

- Fast glyphs are drawn for several frames, and a glyph added between `end()` and
  `render()` is deleted without having been drawn.
- Front to back sorting compares pointers. A GUI element's glyph keeps its first
  texture; hidden elements and closed rows stay drawn, and so do a slider's tick and a
  scroll box's arrows that are deleted and made anew (`gui/Slider.cpp:142-156`,
  `gui/ScrollBox.cpp:88-111`); a `Glyph` is cast to the larger
  `GUIGlyph` (`gui/GUIRenderer.cpp:322`).
- Each character is uploaded to a slice of its own (`draw/FontManager.cpp:162-164`), and
  texts are drawn from `font->textureAddress` (`:361`), a slice to which nothing is
  uploaded (`OwnSlices`).
- A font leaves out its last two characters; a second font exhausts the container it
  shares; sizes 1 to 7 have no padding (`draw/FontManager.cpp:56`), which puts uploads one
  row below the texture; `measure` starts with an uninitialised vector.
- `hasGLExtension` looks at the first extension only and inverts the answer; `dispose()`
  leaves the map of textures; two destructors own the fonts' container; slices never
  return; `maxSlices` is read uninitialised (`draw/Texture2D.cpp:91`).
- `GLSLProgram::dispose` keeps the name it deleted; copies share it
  (`draw/GLSLProgram.cpp:22-32`). `DebugRenderer::end()` before
  `init()` is drawn beyond its end. `Camera2D::init()` after an update leaves the matrix
  as it was. The ring of FPSLimiter is shared by all limiters.

## 5. The proofs

Checked by tlapm without any unproved step. Every invariant and every action property
that a run checks is also a theorem, and so is the refinement of Focus: the runs show
them on small instances, the theorems for every value of the constants. Left to TLC is
what needs fairness (5.6).

### 5.1 Assumptions

The modules name what they assume of their constants; TLC evaluates all of it with the
runs. Most say what set a constant is from. Those that carry an argument:

| Assumption | Why the code gives it | Where it is needed |
|---|---|---|
| `EpochAssumption`: seconds since 1970, plus five, are fewer than ms | both clocks are of one time | `NobodyIsDenied` |
| `ConnectionAssumption`: 2^32 ms have passed since 1970 | so they have | `NoLookupFails` |
| `EntriesAssumption`: a screen may be entered once | a bound of the model | `ScreensAreSound` |
| `PIDsAssumption`: finitely many pids, none is 0 | pid_t | `ListTellsOfChildren`, which counts zombies |
| `GuiAssumption`: no menu is an element of a frame | they are different classes | the pointers |
| `GuiDrawingAssumption`: elements, rows and parts are different and finitely many; a part is of one element | different classes; memory | the glyphs |
| `FilesAssumption`: within a kind names are unique | `GUI::buildUI` reads a list of names per kind (`gui/GUI.cpp`) | `FramesAreTheirFiles` |
| `DropdownAssumption`: lists are sequences, of at most `MaxElements` | `std::vector`; a bound of the model | the drop-down list |
| `ProgramAssumption`: no name is 0, `NoArray` is no array | OpenGL's names | `ProgramsHaveOwners` |
| `TexturesAssumption`: a DDS file is at least 1 by 1 | a picture has pixels | the levels of a file |
| `FontAssumption`: a font has more than three characters and a height; a padding may be 0 | `charStart` and `charEnd` are constants; padding is an eighth of the size | the slices of the first font |

Two theorems have a hypothesis of their own, which every run that checks the property
satisfies:

- `RequestsFollowSequences` needs `~Damages`: with damage it is false, because the request
  for a damaged packet of a sequence that nobody has seen stays.
- `OnlyLaggingAssembles` needs `FloatsAreCoarse`: a float steps by more than one where the
  times are, and the step divides the size of a word (2^17 and 2^32).
  With saturating conversions the property claims nothing, and needs nothing.

### 5.2 DataLemmas

The library's induction theorems take operators, so induction is stated over sets:
`ByInduction` (a set of numbers that has 0 and with n also n + 1 has all) and
`SetInduction` (the same of the subsets of a finite set). The library's folds are defined
as "the function that satisfies this equation", and nothing follows from that until
one does: `RecursionExists` builds it for functions on numbers, as the limit of those on
0 .. n, and `FoldExists` from it for `MapThenFoldSet`. With these come what sums are
(`SumOfSplit`: one element and the rest; `SumOfMore`; `SumOfSame`), the least and the
greatest of a set, the order `SetToSeq` gives, remainders that go round, and sequences
laid end to end (`FlattenIs`).

### 5.3 The network

**TransferProofs.**

- `NoLookupFails`. The strengthening is that `expiredSequences` is empty between steps:
  an entry is `x % WordSize < WordSize <= Epoch <= now`, so the filter at the end of
  `Expire` leaves none.
- `TypeCorrect`, with `WireOK` and `QueueOK` in the invariant: a step that receives must
  know the type of what it receives, and a sequence that is built from queued packets
  that a bag of them is one.
- `RequestsFollowSequences`: the requests of an update are those of sequences that are
  not finished, every gap belongs to one that stays, and acknowledgements remove both.
- `DataIsAsSent`. `DeliveryInv`: whatever is in flight, queued, or in a sequence and not
  damaged is a slice of a message the client sent, and what is in the buffer was copied
  from one message, each slice once, so that the first bytes of it are the first of the
  message (`CopiedBegins`). An update delivers when as many packets are there as the
  message has and the CRC is right; that these are *each slice once* is a count
  (`CompleteAndIntact`): a bag with one of each of n things and n in all has no other.
- `OnlyLaggingAssembles`. `HardInv`: no sequence has an `m_hardExpiration` that is
  "never": a float is a multiple of `FloatStep`, and so is what is left of it in 32 bits,
  while "never", `WordSize - 1`, is not. So every complete sequence that is held is expired at once unless the
  connection lags.

**SendQueueProofs.** `EverySendIsInOrder`. The entries carry a ghost number. `IdsIncrease`:
numbers increase in the queue and in what was sent, and all that is yet to be sent is
above all that was, except the entry in front between its sending and its pop.
`NothingLost`: until somebody destroys the object, the numbers are 1, 2, 3, ... through
what was sent and on through the queue. The exception is what makes the split of
`sendLoop` into send and pop, with producers between them, safe.

**NetworkServerProofs.**

- `NobodyIsDenied`. Not inductive: an update removes connections, and the entries of
  `closedConnections` only go if they are older than now. `DenialInv` adds that every
  entry is below `now`, so the update that removes a connection removes every entry.
- `TypeCorrect`; its hard part is the map that each update rebuilds.
- `LastWordIsLast`. `WordInv`: no two addresses share an object, the words were said by
  objects that were created, and an object that has said its last is in nobody's hands.
- `GoodbyesRemove`: the action property follows from the step alone.

**SlicingProofs.** `SlicesFit` and `SlicesCover` from `LoopInv`: `position` is the end of
the last slice, and what remains is what the remaining rounds will take. `PairIsSound`
from `PairInv`: a thread in its loop has a socket, one without an object has no thread,
and after `clear` only a thread in `poll()` can bring one packet more.

### 5.4 The game and the interface

**GameProofs.**

- `ScreensAreSound`. `ScreensInv`: between `init()` and `exitGame()` the list stands on the
  current screen, and what a screen has asked for leads to one that may still be entered;
  entries and exits are then equal but on the current screen.
- `PressesAreOfTheFrame`: the copy of the keys is what the frame began with.
- `ListTellsOfChildren`. `UpdaterInv`: the count that `update()` loaded is at most the
  count now. `StartingInv`: a child between `fork()` and `insert()` is in no list. Zombies
  are counted by the cardinality of a set, one step at a time.
- `ClientHearsInOrder`. `BufferInv`: packets are numbered, the buffer holds the latest
  arrivals without a gap, what was told came before. `SessionInv`: nothing is told before
  the acceptance, and a batch is there as long as nobody destroys the client.

**GuiProofs.**

- `PointersAreKnown`. `GuiInv`: frames go only all at once, so what was touched belongs to
  a frame that was made and what is under the mouse to one that is there.
- `FocusIsKept`: `FocusStep` maps each action of Gui to one of Focus or to a stutter.
- `ValuesStayInRange`: `BoxFollows` says what any call leaves of a scroll box, one lemma
  per call; the slider alike.
- `TimersAgree`, `ShownIsTrue` (the invariants of box, slider, list and radio buttons:
  either an update is due or what is drawn is what is held), `FramesAreTheirFiles`
  (`BuildInv`: a name is taken by the kind of an object that is built) and
  `FaultsHaveCauses` (each invariant names the causes next to the fault).

### 5.5 The drawing

DrawingProofs. `PartSteps`: a step of the instance is one of every part, or a stutter.

- `LocksStayFew`. Each fence is waited for before its range is written again. The
  invariant bounds the locks of the commands by the `Age` of their ring: what was locked
  since the first fragment was written, which overlaps and so lets go of all.
- `RingsFollowGlyphs`. `SettledInv`: as many fragments hold the present transforms as there
  were preparations since the last update. `ShownInv`: the long path only grows, and each
  fragment of commands has those of one of the last three updates.
- `GlyphsAreDrawn`. `PartsInv`: the commands share out the glyphs in their order.
  `ShapesInv`: until two glyphs are merged every glyph has a command.
- `GuiGlyphsAreTrue`: `GlyphsMatchElements` is inductive with the types; a part that is
  made anew has no glyph, so the old one is of nobody.
- `ProgramsHaveOwners`: until the first robbery, objects that are not disposed of and have
  the same program have it from the same maker (`OwnIsOwn`); enabled attributes are of an
  object in use and of the bound array, or among those left (`EnabledAreUsed`).
- `TexturesAreSound`. `ContainersKnown`, `TexturesKnown`, `ErasKnown`: a slice is in one
  hand, every texture is the cached one of its path, and the textures of this era are
  those in a container of the vectors. `UploadsFill`: for every size of a file, the levels
  are halves down to 1 by 1, and their sizes add up to the buffer.
- `ViewAndPaceHold`. The matrix is inductive with its flags. `RingOfTimes`: the ring holds
  the last frames at `count % Samples`, and the sum over its indices is that over the last
  entries of the history, however often it went round. A frame is at least as long as its
  work and its delay, whatever the waits add.
- `ShapesAreBuffered`. `Tallies`: the vertices and lines of each shape, counted, are those
  its kind has; a shape adds to its own counts only, a path adds a circle per point.
- `FontIsSound`. `Laid`: the rows of the texture that was found have each character once
  (`RowsDealt`, by induction over the characters dealt), none wider than the texture
  (`PowerReaches`: doubling reaches what it should). `Packed`: so does the sequence of
  rectangles, whatever order `SetToSeq` gives. Slices are numbered by the turn of their
  character, which is a sum over the rows before. `TextMeasured`: the widest line ends where
  its last character does.

### 5.6 Left to TLC

- What needs fairness: `SilentPeerGivenUp`, `NotifiedDrains`, `DestructionEnds`,
  `RequestsHonoured`, `ZombieReaped`, `ClientProgress`, `IpcProgress`, `WhatShowsGoes`. The
  proof system has no rule for `ENABLED`, and so none for fairness.
- The four runs that expect a violation: a counterexample needs no proof.
- `SendQueue`'s type invariant is not proved, nor is it needed: the proof asks of an entry
  only its number.

Two models were given another form, of the same values, so that they could be
reasoned about: the chains of DebugRenderer's indices, and the sums and the power of two
of FontManager, are functions in place of recursive operators.

## 6. What is not modelled

- The byte layout of packets, the CRC, logging, statistics: no property is about them.
- Sockets, ports, interfaces, address strings: system calls and formatting.
- `broadcast` and the opening of ports: one call of the socket each.
- The ageing of stored sequences (`net/NetworkServer.cpp:213-226`) and with it the life of
  a queued packet's memory: that what is sent may be read from freed memory when its
  sequence aged out is plain from the lines, and no comment says otherwise.
- NetworkPeer is commented out; InternalNetworkServer and InternalNetworkClient are
  constructors.
- MemoryMappedFile and MemoryMutex: nothing in the repository uses them. From reading:
  the lock file is removed by any destructor, so that two processes can hold locks on two
  files of one name; closing any descriptor of it drops a process's lock; the size that
  `zeroFill` writes is never set; `sync()` returns the inverted result.
- Database, configuration, game time, audio, ResourceManager, SystemStats: wrappers of
  client libraries and of the operating system whose results are handed on.
- Physics bodies: Box2D objects without state of their own.
- TileSheet, Window, the decoding of PNG files, rasterising of characters, shader
  sources, the rectangles and the layout of the GUI: arithmetic and calls of libraries,
  which no property tells apart. Where the mouse is, is any set of what it may be over.
- `pKillAll(true)` past the element it erases: its iterator is invalid.

## 7. The plan

Done, in this order: Connection and Transfer (the most important behaviour: does a
message arrive), SendQueue, NetworkServer, Slicing and the first theorems; then MainGame,
ProcessManager and NetworkClient; Focus, Gui and the elements; the drawing; NetworkIPC.

Then the proofs, component by component, until no safety property of a run was without
one.

Next:

1. A DatagramService: what Transfer promises the application (messages that were sent,
   in any order, some of them, again if their identifier is used again), with Transfer
   shown to implement it by a mapping on `buffer` and `sentAs`, by TLC and, on
   `DeliveryInv`, by proof.
2. The same for SendQueue, a queue from which the owner may clear, on `QueueInv`.
3. The ageing of stored sequences in SendQueue, which is the hazard at
   `net/NetworkServer.cpp:222`, and the search for gaps at the ends of a sequence, the one
   at `net/PacketSequence.cpp:118`.

## 8. Running it

    tlc -workers 2 -config transfer_collide.cfg MCTransfer
    tlc -workers 2 -config gui.cfg MCGui
    tlapm TransferProofs.tla

The longest run takes two minutes; DrawingProofs takes ten minutes, the other proofs one
or two each.
