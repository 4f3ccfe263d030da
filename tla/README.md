# LC_Fixture: models, checks and proofs

The repository holds four firmware projects for STM32 microcontrollers. This
directory holds TLA+ models of them, the TLC runs that check the models on
small instances, and theorems about them that TLAPS proves for every instance.
The system has no written specification: everything here is translated from
the C sources, and the comments there are what the code is held against.

## 1. Inventory

### LC_Fixture: the bench that tests the "LC" board

A PC sends framed text commands over USART1; the fixture switches the device
under test (DUT) on, talks to it over USART3, measures it with the ADC, listens
on CAN, and sends a framed reply. `main` is one endless loop:
`verify_pc_data, handle_pc_data, calc_ad_value, handle_flag, part_of_power_on`.
All interrupts have preemption priority 0, so handlers do not nest, but they
land between any two steps of `main`. Variables are shared without locks and
without `volatile`; the Debug build is not optimised, and the models take every
access in the order of the source.

| Part | State | Operations | What is hard |
|---|---|---|---|
| PC link (`hal.c`) | `uart_pc`: state, buffer, length, frame timer | USART1 and TIM3 interrupts, `verify_pc_data`, `handle_pc_data` | bytes that land between two statements of main; lost bytes; pauses; malloc failing; the interrupt that returns without reading the data register |
| Device link (`hal.c`) | `uart_dut`, `timer2`, supply pin | `uart_to_dut`; USART3, TIM3 and TIM2 interrupts | late, partial or missing answers; the timeout racing the answer; timers left over |
| Commands and supervision (`hal.c`) | supply, `adc`, `power_on_delay`, `cmd_to_dut`, `reply_to_pc`, `can`, `timer4`, relays | fourteen commands, `calc_ad_value`, `handle_flag`, `part_of_power_on`; CAN and TIM4 interrupts; ADC by DMA | a bring-up and a reply that are due loops later, between other commands; five places that cut the supply; ignored return values |
| PC frames (`tool.c`, `crc16.c`) | the send buffer | `packet_hex`, `packet_float`, `verify_data`, `crc16_calc` | typed-in CRCs, lengths that are guessed, operator precedence |
| DUT frames (`tool.c`, `hal.c`) | | seventeen typed frames, `test_barcode`, `u8CRC_CalcBlockCRC` | the order of bytes, nibbles and of the CRC unit |
| Set-up (`Drivers/`) | registers | `*_init`, delays | none: straight-line code, not modelled |

Correct means: what is executed is what was sent and judged; nothing is run
twice; a wait for the device ends; a device on the supply is watched; a GOOD is
earned; every command is answered; frames carry what they should.

### Logo_Back_Light_Control: a battery-powered lamp

`main` loops over `key_test`, `adc_convert`, `led_control` and `led_breathing`.
The key interrupt debounces: it starts a 50 ms one-shot and waits inside its
handler until the TIM3 interrupt, which nests into it, has counted that to zero.
State: the presses acted on, the three software timers (`key`, `led`,
`breathing`), the PWM level, the battery flag. What is hard: the handler that
waits for another handler, keys that move while main is in the middle of the last
move, the three functions that write the same PWM register. Correct means: every
press counts once, the release after the third switches off, a low battery ends in
power-off, no counter wraps.

### net_on_nrf24l01: a router that hands out addresses by radio

RT-Thread threads around an nRF24L01. A node asks for an address
(`regist_therad`), its network thread moves packets between the chip and one
receive and one send buffer; the router's network thread receives, its
registration thread looks up or appends to the address pool (`get_addr`) and
answers. Event flags are all that orders the threads. What is hard: buffers that
are overwritten between event and use, event flags that merge, the pin that the
driver spins on, lost packets, restarts, a count in eight bits. Correct means:
different nodes have different addresses and keep them over a restart, an
acknowledgment is taken only by its addressee, nobody waits for ever when nothing
goes wrong.

### NON_T1: the acknowledged link that followed it

`non_send` sends up to four times and waits 100 ms for an event after each;
`thread_recv` signals that event, or answers what it was not waiting for. Correct
means: an answer counts for one message at most, a message is acknowledged at
once when nothing goes wrong, and `non_send` returns. What is hard: the answer
names no message, the flag outlives the wait, `e` has no initial value.

### Vendored

RT-Thread 2.1.0, the STM32 peripheral libraries, CMSIS, the drivers of the board
package and the IDE's project files: more than nine tenths of the lines. Of RT-Thread
the event flags, and the timeout of a thread that waits for one, are modelled.

## 2. Modules

| Module | What it is | Source |
|---|---|---|
| `FrameTimer` | the receive buffer and two-tick frame timer both serial links share | `hal.h`, `hal.c` |
| `PcLink` | the link from the PC: bytes, interrupts, and each statement of `verify_pc_data` and `handle_pc_data` that touches shared state | `hal.c`, `tool.c` |
| `CommandPort` | the abstract promise of `PcLink`: commands are issued, spoiled, run | |
| `DutLink` | one exchange with the device, statement by statement, and its interrupts | `hal.c` |
| `DutPort` | the abstract promise of `DutLink`: ask, then an answer, or a timeout that cuts the supply | |
| `Fixture` | the main loop: all commands, the supervision, the delayed bring-up, CAN; over `DutPort` | `hal.c`, `tool.c`, `adc.c` |
| `Bits` | the exclusive or of C on words of sixteen bits, as a function | |
| `Crc16` | the CRC of the PC's line, by its table and by its polynomial | `crc16.c` |
| `Verify` | a command as the PC frames it, and `verify_data`; `PcLink` and `PcFrames` both use it | `tool.c` |
| `PcFrames` | replies and commands byte by byte | `tool.c` |
| `DutFrames` | device frames byte by byte | `tool.c`, `hal.c` |
| `BackLight` | the lamp: key interrupt, TIM3, and main at the grain at which they land | `hal.c` of the lamp |
| `RtEvent` | event flags: send, receive with clear, timeout | `ipc.c`, `thread.c` of RT-Thread |
| `Radio` | one nRF24L01 and the driver's operations on it | `24L01.c` |
| `Dhcp` | the address pool | `dhcp.c` |
| `Network` | router and nodes over `RtEvent`, `Radio` and `Dhcp` | `node.c`, `router.c` |
| `AddressServer` | the abstract promise of `Network`: each node is leased one address for good | |
| `NonLink` | NON_T1: a station that sends and one that answers, over `RtEvent` and `Radio` | `node.c`, `24L01.c` of NON_T1 |
| `MC*` | the modules that TLC runs; `MCFrames` puts both frame models in one run | |
| `PcLinkProofs`, `DutLinkProofs`, `FixtureProofs`, `BackLightProofs`, `NetworkProofs`, `NonLinkProofs` | the theorems about the module of that name | |
| `FramesProofs` | the theorems about `Crc16`, `PcFrames` and `DutFrames` | |
| `BoardProofs` | what the operators of `RtEvent` and `Radio` do; the proofs about `Network` and `NonLink` instantiate it | |

How they fit: `PcLink` implements `CommandPort` and `DutLink` implements
`DutPort`. `Fixture` is built on the two abstractions: its `PcSends` puts one
command at a time before `main`, which is what `CommandPort` leaves of the
link, and its exchanges are the actions of `DutPort` itself (`Dut!Ask`,
`Dut!Answered`, `Dut!GivesUp`). `UsesDutPort` says the converse: the fixture does
nothing to the device that `DutPort` does not allow, so the two models compose.

Abstractions worth knowing:

* In `PcLink` a byte is the pair (frame, place) it comes from, so that the properties
  can tell the frames apart. Its value is what `Verify` makes of the frame's text, CRC
  included, and that is what `verify_data` is shown (`Passes`): a byte of the CRC may
  equal the ending, which the code tells by its value only. While RXNE is set and
  the state is RECEIVED the interrupt is taken again and again: in the model nothing
  is enabled then.
* A command that `handle_pc_data` executes may take any time: main just stays
  at `wipe`, and interrupts go on.
* In `DutLink` the device may answer whenever it has been asked, byte by byte,
  stop in the middle, or be silent; answers are numbered by the request they
  belong to. `DutPort.Answered` promises no more than that something came.
* In `Fixture` the send buffer is kept from when it is packed until it is sent: every
  packing starts with a memset, so what is left there is never read.
* In `Fixture` the ADC shows one of three readings, the classes that the limits
  of `calc_ad_value` tell apart, and the DMA may change it at any moment. The
  answers of the device are whatever the commands distinguish. `EXTI4`'s flag
  is read by nobody. The delay before the bring-up counts loops
  (`DelayLoops`), 5000 in the code.
* `BackLight`: the voltage is low or not, the ADC has a buffer or not, both at any
  moment. The EXTI handler is five steps, main's functions are split where an
  interrupt in between can be told apart. `pwr_on` of the timer handler is never
  enabled and left out.
* `Radio` keeps the first received packet: the driver reads one and flushes the
  others. STATUS is read by `nrf24l01_tx_packet` without selecting the chip, so
  which flags the write back clears is any subset. Reading it in
  `nrf24l01_rx_packet` and writing it back are two steps in `NonLink`, one in
  `Network`, which has enough interleavings without it.
* `Network`: nodes are numbered in the order of their first start. All threads
  have the same priority, so one runs until it waits; anything else is a fault
  that is counted: weight 1 (`Light`) for a packet somebody does not hear and for
  a start while others are busy, weight 2 (`Heavy`) for a time slice that ends
  while a thread has work, malloc without memory, and restarts of node or router.
  `orderly` says that no slice ended so and that the router kept running.
* `NonLink`: a packet carries, for the record, the call that sent it; the code
  cannot see that. `e` starts with any value (`lucky` says it was not the one that
  means success). `races` counts slices that end while a thread has work and timeouts
  that fall while `thread_recv` has; `spun` says that one fell into the wait for
  the pin; `smooth` that nothing was missed, early or raced. The 1000 ms between two
  calls are any time. One station sends, as `node.c:157` says of the test.
* Variables marked "history" in the modules are not in the code; they remember what
  the properties speak about.

## 3. Runs

Nine runs must pass:

| Run | Question | Bounds |
|---|---|---|
| `pc_link_any` | any PC, any line, malloc failing: index, stranded bytes, order | two frames of 5 and 6 bytes that both can be run, a buffer of 8: one fits, two that merge overflow; the CRC of the second ends in a byte that equals the ending |
| `pc_link_polite` | a PC that waits for a quiet link: executed as judged and no storm for frames it did not interrupt, `CommandPort` | three frames, so that one follows a spoiled one: one whose CRC ends in zero, one with a CRC byte that equals the ending, and a plain one; lost bytes and pauses anywhere |
| `dut_link_any` | any device: own answers, own timers, `DutPort` | three exchanges of three bytes: a late answer reaches over two of them |
| `fixture_all` | all commands: supervision, verdicts, outputs, replies, `DutPort` kept | a bring-up delay of two loops, up to two commands without reply |
| `fixture_answers` | every command is answered | the commands whose reply is delayed or that share its state; a delay of two loops and up to two commands without reply, so that one comes between pwr_on and its reply |
| `frames` | CRCs, values, barcodes byte by byte | every reply code; each channel at its ends and where its digits change, a byte of the device up to 255; all texts of `cmd_list`, with a barcode whose CRC ends in a zero byte and one whose CRC is zero; all typed frames; a hundred barcodes |
| `back_light` | presses, power-off, low battery, a handler that returns | six moves of the key: the third press and its release; times of one or two ticks |
| `network` | addresses, the pool, no node left waiting, `AddressServer` | two nodes, faults up to weight 2; a byte that holds five addresses |
| `non_link` | what an acknowledgment means, and that `non_send` returns | two messages, one resend, one race: an answer to the first reaches into the second |

`DelayLoops = 2` is enough because the loop count matters only through "the
bring-up falls due in a later loop than pwr_on, with a whole loop of other
commands in between". `MaxOwed` bounds how many commands the PC leaves
unanswered: two let a command come between pwr_on and its late reply. A reply
that is never sent counts for good (`joined`), so two `pwr_on` of which one is lost
use the bound up, as a PC that waits for its replies would be stuck. In
`back_light` the levels keep the order of the real ones, breathing takes two steps
to the top, and the flashes end after one. `MaxFrames`, `MaxCalls`, `MaxEdges`,
`MaxFaults` and `MaxRaces` bound histories: two faults are, for instance, two
lost packets, a node that starts in the middle of another's registration whose
acknowledgment is lost, one restart, or one slice that ends at a bad moment.

`network` has a view (`MCView`): the receive buffer of a node whose registration thread
has ended is left out, as nothing reads it any more.

Deadlock is not checked where the modelled system may stop for good: `PcLink`, whose
PC sends a finite number of frames and may leave a byte before a closed link (the
interrupt that does not read the data register): an impolite PC at any time, a polite
one when it interrupts a frame after a CRC byte that equals the ending, as the rest
of that frame then finds the first part accepted; `Network`, which comes to rest when everybody is registered or has
given up, and `NonLink`, whose calls are bounded and whose sender can hang in the
wait for the pin. All other runs check it.

Three runs must fail, each showing where the code departs from its own comments:

| Run | What TLC finds |
|---|---|
| `pc_link_lossy` | `verify_data` groups as `(crc == hi << 8) \| lo`: a frame that lost a byte is accepted |
| `back_light_key` | a breathing step in progress, or due, overwrites the brightness the key has just chosen |
| `non_link_stale` | `non_send` returns 0 for a message nobody heard: an answer that comes after the timeout is followed by one more, which is itself answered and acknowledges the next, lost, message |

More that the models show, stated in the modules where noted and refuted by TLC,
but not kept as runs; those with a configuration named can be seen with it:

* The ending is told by its value: a frame that a polite PC interrupts after a CRC byte
  0xA5 is accepted, its last byte comes in between the verdict and `state = RECEIVED`,
  and what is executed was never judged (`ExecutedIsJudged` of `PcLink`,
  `PcLinkCut.cfg`: `barcode:2491894723`). The properties of `pc_link_polite` that speak
  of the verdict are therefore about frames that were not interrupted.
* The frame timer that a late answer left running ends the next exchange:
  `uart_to_dut` returns 0 with an empty buffer (`ZeroMeansData` of `DutLink`,
  `DutLinkLate.cfg`). `AnswerIsOwn` is about devices that were never late.
* A second `pwr_on` within the delay of the first restarts it, and the two get one reply
  (`NoReplyForgotten` of `Fixture`, `FixtureTwice.cfg`). `RepliesAccounted` counts
  such commands in `joined`.
* A right frame whose CRC ends in a zero byte is turned down, `barcode:4637344289` for
  instance (`RightFramesVerify` of `PcFrames`, `FramesZero.cfg`); it is the same grouping
  as in `pc_link_lossy`. `OnlyZeroEndingsRefused` says that there are no others.
* `packet_float(recv_buf[6], 1, 0)` has room for two digits: a temperature of 100 is
  reported as 10, with a right CRC (`ReplyCarriesValue` of `PcFrames`,
  `FramesTemp.cfg`). `ReplyShowsLeadingDigits` says what arrives instead.
* The 300 mA limit never applies: `cmd_to_dut.enable` is only set between
  `handle_flag` and `part_of_power_on`, where nothing measures
  (`LooseLimitOncePeripheralsOn` of `Fixture`).
* A TIM4 left counting can end a later CAN test at once (`CanTimeoutIsOwn` of
  `Fixture`).

Every property of a passing run has a mutant: a plausible bug in one
definition, written beside it in the module, with which TLC finds the property violated.

### Fairness

`PcLink`: main never blocks, the TIM3 counter runs from set-up on, a pending
receive interrupt is served, and a PC that began a frame finishes it
(`WF_vars(PcContinues)`; without this there is no frame to judge). `DutLink`:
`uart_to_dut` and the two hardware timers; nothing is assumed of the device.
`Fixture`: main, which includes the return of an exchange (shown by `DutLink`),
and TIM4. `BackLight`: the key's handler, the TIM3 handler, and main when no
handler runs; nothing is assumed of key or battery. For all of these weak fairness
suffices: none is disabled again by another one.

`NonLink`: the timer of the wait, the sender's radio and its `thread_recv` (weak),
and strong fairness of its test thread, which is ready again and again but shares the
processor: RT-Thread takes the threads of a priority in the order in which they
became ready. Of the other station nothing is asked, not even that it is there.
`Network` assumes no fairness: `RestsRegistered` says of the states in which
nothing can go on what liveness would say of the behaviours that reach them.

## 4. Proofs

What a theorem here states that a run checks too, it states for every value of the
constants that satisfies the module's assumption, and the hypotheses it names.

`PcLinkProofs`, for every number and length of frames (at least five bytes,
`PcLinkAssumption`) and every buffer size:

* `LinkTypeCorrect`, `LinkIndexInBounds`, `LinkNoStrandedBytes`: any PC, any
  line, malloc failing or not. The invariant is `LinkInv`. `NoStrandedBytes` is
  not inductive alone: `HandleReopen` would break it unless the buffer is empty
  there, and it stays empty because the link is closed while a command runs
  (`ClosedWhileHandled`), which in turn needs the flag and main's place together.
* `LinkRunInOrder`: any PC, any line. `BytesInOrder` says that the buffer, the data
  register and what is still to be sent are in the order of the PC; `RunsAreOver`,
  that once a frame was run all other bytes that will ever be in the buffer belong
  to later ones. The buffer keeps a frame that was judged when malloc fails and that
  is judged again: it is not run before, so nothing is said of it.
* `PoliteExecutedAsJudged`, `PoliteNoStorm` (`ASSUME Polite`): `OneFrame` says that
  all bytes about belong to one frame. For a frame that no pause has cut, `Settled`
  says that once the frame timer has gone off its last byte has come: nothing more is
  to be sent and the data register is empty until the link is open and judged. So no
  byte can follow the verdict, whatever the values of the bytes are; that is
  `HoldsJudged`. A frame that was cut (history `cut`) may go on after the verdict, and
  nothing is said of it: `PcLinkCut.cfg` shows why.
* `LinkImplementsPort` (`ASSUME Polite, Fits`): the safety part of the refinement,
  `Spec => Port!Init /\ [][Port!Next]_(Port!vars)`. `IntactInv` describes an
  undamaged frame (the buffer holds exactly its prefix, and main is not
  disturbed before it is whole); `RunOnce` and `NoneLost` tie the buffer to the
  log. `Fits` says every frame is shorter than the buffer; the longest command,
  a barcode, has 22 bytes and `MAX_LEN` is 32.

`FixtureProofs`, for every set of commands, every delay of the bring-up and any
number of unanswered commands (`FixtureAssumption`): all the safety properties
of `fixture_all`, from one inductive invariant, `FixtureInv`. `Steps` lists the
actions once, and each has its step in the proof. `Supervised` is inductive as it
stands; the others are not:

* `FixtureTypeCorrect` needs `AckedSoFar` to bound the count of acknowledged
  exchanges, which is counted up without looking.
* `FixtureGoodMeansAcked` needs `AckedSoFar`: during the bring-up no older reply
  is outstanding, and while the verdict is good every exchange so far was answered.
* `FixtureCanGoodIsFresh` needs `BufferIsFresh` between the reset and the
  decision, and `Serving`: the command `uart_pc` holds stays the one main is in.
* `FixtureMagnetReleased` follows from `MagnetOnlyForHall`.
* `FixtureRepliesAccounted`, and `FixtureNoUnsolicitedReply` with it: a reply may be on
  its way as the command being served, as the delay, as the bring-up that is due or
  under way, or as the flag of `reply_to_pc`, and no step makes two of one or none. What
  is owed is exactly that and the `pwr_on`s that joined the delay of an earlier one
  (history `joined`). It needs that the bring-up begins in the loop in which it
  falls due (`BringUpAtOnce`): no other delay can fall due meanwhile.
* `FixtureUsesDutPort`: main waits exactly while an exchange is under way
  (`WaitsDuringExchange`), and only main touches the supply.

`DutLinkProofs`, for any device, any length of answers, buffer and number of
exchanges (`DutLinkAssumption`: an answer is shorter than the buffer):

* `DutTypeCorrect`, `DutTimerOwned`: `DutInv`. That TIM2 does not run outside an
  exchange needs that it is only given up on after it expired, and stopped then
  (`ExpiredStops`).
* `DutAnswerIsOwn`: `OwnInv` says, for a device that was prompt so far, that it is
  silent between exchanges, and that within one nothing, a prefix or all of this
  answer has come (`HeardNothing`, `HeardPart`, `HeardAll`), with the frame timer
  running exactly as long as something is still to come or to be timed.
* `DutLinkImplementsPort`: every step is one of `DutPort` or is not seen there,
  because `ret` is 1 exactly while `uart_to_dut` runs (`ReturnedWhenIdle`).

`BackLightProofs`, for any times, levels and number of moves
(`BackLightAssumption`: times fit sixteen bits and are not zero, the levels are in
order):

* `LampTypeCorrect`: no counter wraps because an enabled timer has been loaded
  (`KeyLoaded`, `LedLoaded`), and the key's runs only while its handler waits for
  it; breathing ends at most two steps above the top (`LevelBounded`).
* `LampPressesCounted`: `OnItsWay` follows one move of the key from the pin, through
  the handler, to main; `Handled` says how many presses main has acted on at each
  point of the way.

`BoardProofs`, about operators, for any set of flags and threads: `rt_event_send`
folds over the list of those who wait, and what a fold does for a list of any length
is induction. As at most two threads wait on a board (`Tidy`), the three lengths are
worked out one by one: `SendServes` says who is resumed, with what, and what is left;
`RecvServes` and `TimeoutServes` the same of the other two operations. The masks of
different threads must not meet, which holds for all boards here and is a part of
`Tidy`. After it no proof looks into a list again.

`NetworkProofs`, for any number of nodes, addresses and faults (`NetworkAssumption`):

* `NetworkPoolSound`: `Counted` adds that the addresses count up modulo what a
  byte holds; only then does the next one differ from all before.
* `NetworkTypeCorrect`: `Inv`. A chip is given a packet only while it has none
  because a packet to send means that the only thread of the board that sends
  (`Talker`) is at the wait for the pin; a thread that waits is at `got`, has
  received nothing, and none of its flags is set (`Good`), so it cannot be in the list
  twice. For each action a lemma `...Does` says what it does to its board; all later
  proofs use these.
* `Refines`: `Known` is `Inv`, `PoolInv` and `Serving`. An acknowledgment, wherever
  it is (in a receive buffer, in a chip, in what is being sent), says what the pool
  says (`RightAt`); the router is the first in the pool, so no node has address 0
  (`RouterFirst`); between reading `recv_buf` and using what was read nobody else
  runs (`AtWork`). The last two hold as long as `orderly` does, and a
  slice that ends at a bad moment really breaks them. That addresses do not wrap
  (`PoolFits`) is the pigeonhole principle: no id is listed twice, and there are
  fewer ids than addresses.

* `AllRegister` is the theorem that `RestsRegistered` holds.

For `AllRegister` the invariant is `Registering`: a node that was not started is as it will be then
(`OffFresh`), and while there was no fault the network is either calm, or exactly one
node registers and all others have nothing to say (`Peaceful`). The registration is
followed through its stages: the node is asking (`Requesting`, with the router at
rest), waits while the router receives, reads and answers (`Waiting`, `Handling`),
then has the answer in its chip, in its buffer and with its thread (`Answered`:
`Arrived`, `Fetched`, `HandedOn`), then is registered and has its confirmation to send
(`Confirming`), with the router done with its answer and nothing in its chip
(`Replied`). None of these is a state of rest (`BusyGoesOn`). What makes it work is
said in `Harmless` and `Waiting`: the flags of the two radios may be cleared with
the wrong status, or not be cleared and set RECV_PACKET off again, and whatever the
router then reads for a second time holds no request that would be answered twice. That
includes an empty queue: what the driver reads out of one may look like a request, and
the router answers it (`RouterLooks`). In peace it never reads one: while RX_DR is
up the packet that raised it is in the queue, and between the flushing and the next
packet RX_DR is down. A network that is calm (`Calm`) and in which nobody has anything
to do is just what a node needs that starts, or starts again (`QuietIsCalm`).

`NonLinkProofs`, for any number of calls, resends and races (`NonLinkAssumption`):

* `NonLinkTypeCorrect`: `Inv`, with the same parts as above, and the bounds of the
  counters.
* `AnswersCount`: an answer, the flag it sets and the thread it wakes are one
  token. `Held` counts what has not yet made `non_send` return 0 and still may;
  `Enough` says that this and the calls that were acknowledged are no more than
  the answers, which are counted up to the number of calls. It needs `lucky`: a word `e` that starts with the value that
  means success is a success without an answer.
* `SmoothIsRight`: `Smooth` says in which of five phases a call is when nothing is
  missed, early or raced (`PhaseIdle` to `PhaseWoken`), and what both stations hold then.

`FramesProofs`: what the bytes of the frames are, for any commands, reply codes,
channels, values and barcodes (`PcFramesAssumption`, `DutFramesAssumption`), and of
the CRC for byte sequences of any length:

* `TableIsPolynomial`: `crc16_calc`, a byte and a lookup at a time, computes the
  remainder by the polynomial. Exclusive or is bit by bit in `Bits`, from the low end
  (`XorHalves`), so its laws follow by induction over words (`WordInduction`). Then
  one turn of the register is linear, eight turns take a byte to what the table says
  of it (`CrcStepIs`), and two functions that are computed alike agree
  (`SameRecursion`).
* `DamageShows`: eight turns are one to one (`EightInjective`), and from one
  register on, different pairs of bytes lead to different registers (`TwoBytes`).
  So damage to one byte, or to two neighbours, shows whatever follows.
* `CommandsTaken` says exactly which right commands `verify_data` takes: those whose
  CRC does not end in a zero byte, or is zero. The code compares a CRC that runs over
  the high byte too with that byte times 256; when the low byte is zero, the two
  are the same only for a CRC of zero.
  `ZeroEndingsRefused` is that of what is in the receive buffer. The commands with
  fixed texts are all taken; not all barcodes are (`FramesZero.cfg`).
* `RepliesRight`, `BitsShow`, `LeadingDigitsArrive`: `PcInv` says what is in the send buffer
  after each operation. The CRCs typed into `packet_hex` are worked out
  (`FixedCrcs`). For the measured values, `Written` says what digits `Decimal` finds,
  `Printed` what `Format` makes of them, and `Reads` follows the reader over blanks,
  digits and point. `LeadingDigitsArrive` says how much of a value arrives: all of it
  exactly if the digits before the point fit the width `packet_float` gives them
  (`Fits`), else its leading digits. That is the only place where the guessed length
  matters; the CRC is right in any case. No channel of the ADC loses a digit, a
  byte of the device does from 100 on (`FramesTemp.cfg`).
* `DutFramesRight`, `BarcodesArrive`: `DutInv`, whose part `Summing` says that the
  CRC unit holds the register of the bytes fed so far. The barcodes are all
  functions from ten places to digits.

Two closed facts are assumed there, with nothing in them that could be chosen:
`CrcTable`, that the 256 entries of the table are what the polynomial makes of each
byte, and `TypedFrames`, that the seventeen typed-in frames end in their CRC. TLC
evaluates both, completely, at the start of the run `frames`.

The induction in this module does not use the library's theorems, which take an
operator. It is done over sets: a set of numbers that holds 0 and with each number
the next one holds them all (`SetInduction`), because what is not in it would have a
least element.

A proof attempt also found that `Mask` of `Network` had been written with two
alternatives that overlap, so that TLC's choice, not the definition, decided what the
registration thread of the router waits for. It is now a plain IF.

Only model-checked: liveness, which is out of the prover's reach. That is, that
commands are run and exchanges end, `EveryCommandAnswered`, `HandlerReturns`,
`PowerOffFollowsRelease`, `LowEndsInOff`, `SendReturns`, and the liveness half of
`ImplementsCommandPort` and `ImplementsDutPort`.

## 5. Not modelled

* Peripheral set-up, busy delays, `flash.c` and `crc32_calc` (called by nobody),
  logging: straight-line code with no state that the rest reads.
* `heart_beat_thread` (its body does nothing), `non_send` of `router.c` (nobody
  starts it), malloc failing in `dhcp_init`.
* The heap of the fixture, and the age of a measurement: `adc_val` is NULL before
  the first calculation and is not cleared by `pwr_off`, whose `memset` has its
  arguments swapped. A measurement is one token in `Fixture`.
* `test_can` compares the eight bytes of the CAN frame in one step, though the CAN
  interrupt could replace them in the middle. In NON_T1
  two threads talk to the chip; a transaction over SPI is one step, though the end
  of a time slice could tear it.
* The timer `pwr_on` of the lamp. Nothing enables it in the source, so its handler does
  nothing; a comment beside it doubts that the lamp would switch off without it
  (`hal.c:71` of the lamp), which is not a matter of the program's states.
* Time in milliseconds; the order of interrupts that wait together.
* The vendored code, apart from the event flags.

## 6. Plan

1. Done: all safety properties of the passing runs, and the safety half of the three
   refinements, are proved.
2. One specification of the fixture with its two links in place of the ports, and
   the theorem that it implements `Fixture`.
3. The safety of `PcLink` for a PC that is not polite, beyond order and index: what
   `CommandPort` would have to give up.
