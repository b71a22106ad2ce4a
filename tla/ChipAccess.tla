------------------------------ MODULE ChipAccess ------------------------------
(***************************************************************************)
(* How RaonTunerInput drives the tuner chip.  A register is reached by its  *)
(* page, which is itself selected by a write to register 3, and by its     *)
(* number; every access is a request, written to one USB endpoint, and an  *)
(* answer, read from another one: two transfers.  The answer to a write is *)
(* one byte, 0xa1.                                                         *)
(*                                                                         *)
(* A routine of the code is the sequence of its accesses; where it looks   *)
(* at what it has read, the outcome is a parameter of the routine.  Values *)
(* are kept for the registers the properties are about (Tracked).          *)
(***************************************************************************)
EXTENDS Integers, Sequences, FiniteSets

CONSTANTS
  Tuned,         \* channels that are tuned
  Subchannels,   \* subchannels that are opened
  Sharing,       \* whether the parser's thread opens one while data is read
  MaxCalls       \* bound: routines called after the initialisation

Channels == 0..40      \* NUM_DAB_ENSEMBLES of them
Threads  == {"command", "fib"}

ASSUME ChipAssumption ==
  /\ Tuned \subseteq Channels
  /\ Subchannels \subseteq 0..63
  /\ Sharing \in BOOLEAN
  /\ MaxCalls \in Nat

VARIABLES
  page,      \* the chip's page register
  reg,       \* the chip's tracked registers, by page and number
  pending,   \* the chip's interrupts
  answers,   \* the chip's answers that nobody has read yet
  script,    \* the accesses a thread has still to make
  asking,    \* the operation a thread waits for the answer to
  powered,   \* m_isInitialized
  tuning,    \* the command thread's routine is one the parser's thread is not
             \* running in: it does not exist yet, or reset has joined it
  tuned,     \* history: the channel last tuned; its rows are in the chip
  opened,    \* history: what was last written to open or close a subchannel
  calls      \* routines called so far, but for readData

vars == <<page, reg, pending, answers, script, asking, powered, tuning, tuned, opened,
          calls>>

-----------------------------------------------------------------------------
(* DAB_FREQ_TABLE_MHZ, in kHz.                                             *)
Frequency == <<
  174928, 176640, 178352, 180064, 181936, 183648, 185360, 187072, 188928,
  190640, 192352, 194064, 195936, 197648, 199360, 201072, 202928, 204640,
  206352, 208064, 209936, 210096, 211648, 213360, 215072, 216928, 217088,
  218640, 220352, 222064, 223936, 224096, 225648, 227360, 229072, 230784,
  232496, 234208, 235776, 237488, 239200 >>

(* g_aeAdcClkTypeTbl_DAB_B3: the type is the row of the synthesiser table. *)
ClockType == <<
  1, 3, 1, 3, 1, 3, 1, 1, 0, 1, 1, 1, 0, 1, 1, 0, 1, 0, 1, 3, 1, 1, 1, 0, 1,
  3, 1, 1, 1, 0, 1, 0, 0, 1, 0, 1, 1, 0, 1, 0, 1 >>

(* g_abAdcClkSynTbl, with the upper bits of REGE8 to REGEE.                *)
Synthesiser == <<
  << \h48, \h51, \h13, \h25, \h06, \h7D, \hB4 >>,
  << \h46, \h51, \h0F, \h27, \h07, \h60, \hB8 >>,
  << \hFF, \hFF, \hFF, \hFF, \hFF, \hFF, \hFF >>,
  << \h4C, \h51, \h1F, \h27, \h06, \hE1, \hB8 >> >>

(* changedAdcClock: registers 3C to 43 of page FM, by clock type.          *)
Oscillator == <<
  << \h4B, \h37, \h89, \h41, \h8F, \hC2, \hF5, \h00 >>,
  << \h00, \h00, \h00, \h40, \h00, \h00, \hF0, \h00 >>,
  << \hB5, \h14, \h41, \h3A, \h0D, \h74, \hDA, \h00 >>,
  << \h69, \h03, \h9D, \h36, \hCC, \hCC, \hCC, \h00 >> >>

(* g_atPllNF_DAB_BAND3.                                                    *)
PllNF == <<
  \h38F3D55, \h3982800, \h3A112AA, \h3A9FD55, \h3B3BD55, \h3BCA800, \h3C592AA,
  \h3CE7D55, \h3D82800, \h3E112AA, \h3E9FD55, \h3F2E800, \h3FCA800, \h40592AA,
  \h40E7D55, \h4176800, \h42112AA, \h429FD55, \h432E800, \h43BD2AA, \h44592AA,
  \h4466800, \h44E7D55, \h4576800, \h46052AA, \h469FD55, \h46AD2AA, \h472E800,
  \h47BD2AA, \h484BD55, \h48E7D55, \h48F52AA, \h4976800, \h4A052AA, \h4A93D55,
  \h4B22800, \h4BB12AA, \h4C3FD55, \h4CC2800, \h4D512AA, \h4DDFD55 >>

(* setFrequency: the row of a frequency in these tables, counted from 0.   *)
(* The three N frequencies lie between the steps of 1712 kHz.              *)
Row(f) ==
  (f - 174928) \div 1712 + (IF f >= 224096 THEN 3 ELSE IF f >= 217008 THEN 2
                            ELSE IF f >= 210096 THEN 1 ELSE 0)

-----------------------------------------------------------------------------
(* Accesses.  A register whose value is not tracked is set to 0.           *)
COMM == 4
FM   == 6
HOST == 7
DD   == 9
FIC  == 10
MSC1 == 12
RF   == 15

Access(op, r, v) == <<[op |-> op, reg |-> r, val |-> v]>>
Page(p)   == Access("set", 3, p)          \* switchPage
Set(r, v) == Access("set", r, v)          \* setRegister
Get(r)    == Access("get", r, 0)          \* readRegister
Bulk      == Access("bulk", \h10, 0)      \* FIC or MSC data
Raw       == Access("raw", 0, 0)          \* rtvRfSpecial's
Look      == Access("look", \h33, 0)      \* readRegister(INT_E_STATL)
LookFic   == Access("lookFic", \h33, 0)

Fill(first, vals) == [i \in 1..Len(vals) |-> Set(first + i - 1, vals[i])[1]]
Sets(rs)    == [i \in 1..Len(rs) |-> Set(rs[i], 0)[1]]
Gets(rs)    == [i \in 1..Len(rs) |-> Get(rs[i])[1]]
Times(n, s) == [i \in 1..(n * Len(s)) |-> s[((i - 1) % Len(s)) + 1]]

Tracked == ({RF} \X (\hE8..\hEE \cup \h23..\h26)) \cup ({FM} \X (\h3C..\h43))
             \cup {<<COMM, \h6A>>} \cup ({DD} \X {\h3A, \h46, \h48})

-----------------------------------------------------------------------------
(* The initialisation: the routines of initializeSync in its order.        *)
PowerUp(tries) == Times(tries, Page(HOST) \o Set(\h7D, 6) \o Get(\h7D))

ConfigurePowerType == Page(RF) \o Sets(<<\h54, \h52, \h30, \h2F>>)

ConfigureAddClock(polls) ==
  Page(RF) \o Fill(\hE8, Synthesiser[1]) \o Times(polls, Get(\h15))

TdmbInitTop == Page(FM) \o Sets(<<7, 5, 6, \h0A>>)
TdmbInitComm ==
  Page(COMM) \o Sets(<<\h10, \hE1, \h35, \h3B, \h36, \h3A, \h3C, \h3D, \h3D, \hA6,
                       \hAA, \hAF>>)
TdmbInitHost ==
  Page(HOST) \o Sets(<<\h10, \h13, \h14, \h19, \hF0, \hF1, \hF2, \hF3, \hF4, \hF5,
                       \hF6, \hF7, \hF8, \hFB>>)
TdmbInitOfdm ==
  Page(FM)
    \o Sets(<<\h12, \h13, \h14, \h15, \h16, \h38, \h1A, \h20, \h25, \h44, \h46, \h47,
              \h48, \h49, \h54, \h55, \h56, \h59, \h5A, \h6D, \h8B, \h6A, \h6B, \h85,
              \h8D, \h8E, \h33, \h53, \h6F, \hBA>>)
    \o Page(COMM) \o Set(\h6A, 1)
    \o Page(FM) \o Fill(\h3C, Oscillator[1])
    \o Sets(<<\h94, \h98, \h99, \h9B, \h9C, \h9D, \h9F, \hA0, \hA2, \hA3, \hA4, \hA8,
              \hA9, \hAA, \hAB, \hAC, \hAD, \hAE, \hEB, \h93, \h94, \hA2, \hA4, \hAF>>)
TdmbInitFEC ==
  Page(DD) \o Sets(<<\h80, \h81, \h87, \h45, \hDD, \h39, \hE6, \hA5>>)

RtvResetMemoryFIC == Page(DD) \o Set(\h46, 0)
RtvOEMConfigureInterrupt ==
  Page(DD) \o Sets(<<9, \h0B>>) \o Page(HOST) \o Sets(<<\h28, \h2A>>)
RtvStreamDisable  == Page(HOST) \o Sets(<<\h29>>)
RtvConfigureHostIF == Page(HOST) \o Sets(<<\h77, 4, \h0C>>)

RtvRFInitilize ==
  Page(RF)
    \o Sets(<<\h27, \h2B, \h2D, \h2E, \h31, \h34, \h35, \h3A, \h3B, \h3C, \h43, \h44,
              \h46, \h49, \h4A, \h4B, \h53, \h55, \h5A, \h60, \h6B, \h6E, \h6F, \h72,
              \h73, \h77, \h78, \h84, \h85, \h86, \h87, \h8A, \h8B, \h8C, \h8F, \h90,
              \h93, \h94, \h99, \h9A, \h9B, \h9C, \h9D, \h9E, \h9F, \hA0, \hA1, \hA2,
              \hA3, \hA4, \hAE, \hB5, \hBD, \hBE, \hBF>>)
    \o [i \in 1..(\hE7 - \hBF) |-> Set(\hBF + i, 0)[1]]
    \o Set(\hA5, 0) \o Set(\hE9, \h41) \o Set(\hAE, 0) \o Set(\hE9, \h51)
    \o Sets(<<\h37, \h39>>) \o Gets(<<\h10, \h11>>)
    \o Sets(<<\h2C, \h47, \h35, \h2A, \h2D, \h61>>)
    \o Page(RF) \o Sets(<<\h6B>>)
RtvRfSpecial == Raw \o Raw \o Raw

SetupMscThreshold == Page(DD) \o Sets(<<\h56, \h57>>) \o Page(DD)
SetupMemoryFIC == Page(DD) \o Set(\h46, \h14) \o Set(\h46, \h16)

InitializeSync(tries, polls) ==
  PowerUp(tries) \o ConfigurePowerType \o ConfigureAddClock(polls)
    \o TdmbInitTop \o TdmbInitComm \o TdmbInitHost \o TdmbInitOfdm \o TdmbInitFEC
    \o RtvResetMemoryFIC \o RtvOEMConfigureInterrupt \o RtvStreamDisable
    \o RtvConfigureHostIF \o RtvRFInitilize \o RtvRfSpecial
    \o SetupMscThreshold \o SetupMemoryFIC

-----------------------------------------------------------------------------
(* Tuning.  When the clock does not lock, the PLL is left alone.           *)
MutantChangedAdcClock(type, polls) ==
  Page(RF) \o Fill(\hE8, Synthesiser[type + 1]) \o Times(polls, Get(\h15))
    \o (IF type = 3 THEN Page(COMM) \o Set(\h6A, \h31) ELSE <<>>)
    \o Page(FM) \o Fill(\h3C, SubSeq(Oscillator[type + 1], 1, 4)) \o Set(\h54, 0)
    \o Fill(\h40, SubSeq(Oscillator[type + 1], 5, 8))
ChangedAdcClock(type, polls) ==
  Page(RF) \o Fill(\hE8, Synthesiser[type + 1]) \o Times(polls, Get(\h15))
    \o Page(COMM) \o Set(\h6A, IF type = 3 THEN \h31 ELSE 1)
    \o Page(FM) \o Fill(\h3C, SubSeq(Oscillator[type + 1], 1, 4)) \o Set(\h54, 0)
    \o Fill(\h40, SubSeq(Oscillator[type + 1], 5, 8))

MutantPllBytes(nf) ==
  << nf \div 2^22, nf \div 2^14, (nf \div 2^5) % 256, 4 * (nf % 64) + 1 >>
PllBytes(nf) ==
  << (nf \div 2^22) % 256, (nf \div 2^14) % 256, (nf \div 2^5) % 256,
     4 * (nf % 64) + 1 >>

SoftReset == Page(FM) \o Sets(<<\h10, \h10>>)

SetFrequency(f, polls, locked) ==
  ChangedAdcClock(ClockType[Row(f) + 1], polls)
    \o (IF locked
        THEN Page(RF) \o Fill(\h23, PllBytes(PllNF[Row(f) + 1])) \o Sets(<<\h20>>)
               \o Gets(<<\h15, \h12, \h13, \h14>>) \o Page(FM) \o Sets(<<\h10, \h10>>)
        ELSE <<>>)

-----------------------------------------------------------------------------
(* Subchannels.                                                            *)
ClearAndSetupMscMemory == Page(DD) \o Set(\h48, 0) \o Set(\h48, 5)

Switch(val) ==
  Page(DD) \o Set(\h35, \h70) \o Page(HOST) \o Set(\h62, 0)
    \o Page(DD) \o Set(\h3A, val)
OpenSubChannel(s)  == Switch(128 + s)
CloseSubchannel(s) == Switch(s)

(* Data.                                                                   *)
ReadFicData == Page(FIC) \o Bulk \o Page(DD) \o Set(\h35, 1)
ReadMscData == Page(MSC1) \o Bulk \o Page(DD) \o Set(\h35, 4)
ClearMscBuffer == ClearAndSetupMscMemory \o Set(\h35, 4)

MutantGetAntennaLevel(reception) ==
  Page(DD) \o Get(\h37)
    \o (IF reception = "poor" THEN Page(DD) \o Set(\h46, \h1E) \o Set(\h35, 1) ELSE <<>>)
GetAntennaLevel(reception) ==
  Page(DD) \o Get(\h37)
    \o (IF reception = "none" THEN <<>>
        ELSE Gets(<<\h88, \h89, \h8A, \h8B, \h8C, \h8D, \h8E, \h8F, \hD7>>))
    \o (IF reception = "poor"
        THEN Page(DD) \o Set(\h46, \h1E) \o Set(\h35, 1) \o Set(\h46, \h16)
        ELSE <<>>)

GetLockStatus == Page(DD) \o Get(\h37) \o Get(\hFB)

(* readData up to the status, and what it does on it: the FIC data first,  *)
(* then an MSC buffer that over- or underran is cleared, or else read.     *)
MutantServe(status) ==
  IF status.overrun THEN ClearMscBuffer
  ELSE (IF status.fic THEN ReadFicData ELSE <<>>)
         \o (IF status.msc THEN ReadMscData ELSE <<>>)
Serve(status) ==
  (IF status.fic THEN ReadFicData ELSE <<>>)
    \o (IF status.overrun THEN ClearMscBuffer
        ELSE IF status.msc THEN ReadMscData ELSE <<>>)

ReadData == Page(DD) \o Look

OnScanReadFic(locked) ==
  GetLockStatus \o (IF locked THEN Page(FM) \o Page(DD) \o LookFic ELSE <<>>)

-----------------------------------------------------------------------------
(* The chip: a request is executed and an answer is queued.                *)
Write(a) ==
  IF a.reg = 3
  THEN page' = a.val /\ UNCHANGED <<reg, pending>>
  ELSE /\ reg' = IF <<page, a.reg>> \in Tracked
                 THEN [reg EXCEPT ![<<page, a.reg>>] = a.val] ELSE reg
       /\ pending' = IF page = DD /\ a.reg = \h35
                     THEN pending \ ((IF a.val = 1 THEN {"fic"} ELSE {})
                                       \cup (IF a.val = 4 THEN {"msc"} ELSE {}))
                     ELSE pending
       /\ UNCHANGED page

Request(t) ==
  /\ script[t] # <<>> /\ asking[t] = "none"
  /\ LET a == Head(script[t]) IN
       /\ IF a.op = "set" THEN Write(a) ELSE UNCHANGED <<page, reg, pending>>
       /\ asking' = [asking EXCEPT ![t] = a.op]
       /\ \E overrun \in BOOLEAN :
            /\ overrun => a.op = "look"
            /\ answers' = Append(answers,
                 [to |-> t, op |-> a.op,
                  status |-> [fic |-> "fic" \in pending, msc |-> "msc" \in pending,
                              overrun |-> overrun]])
  /\ script' = [script EXCEPT ![t] = Tail(@)]
  /\ UNCHANGED <<powered, tuning, tuned, opened, calls>>

(* What is at the head of the endpoint is taken for the answer.            *)
Answer(t) ==
  /\ asking[t] # "none" /\ answers # <<>>
  /\ answers' = Tail(answers)
  /\ asking' = [asking EXCEPT ![t] = "none"]
  /\ script' = [script EXCEPT ![t] =
       IF asking[t] = "look" THEN Serve(Head(answers).status)
       ELSE IF asking[t] = "lookFic"
       THEN (IF Head(answers).status.fic THEN ReadFicData ELSE <<>>)
       ELSE @]
  /\ UNCHANGED <<page, reg, pending, powered, tuning, tuned, opened, calls>>

Interrupt(i) ==
  /\ tuned.pll # -1
  /\ pending' = pending \cup {i}
  /\ UNCHANGED <<page, reg, answers, script, asking, powered, tuning, tuned, opened, calls>>

-----------------------------------------------------------------------------
(* The calls.  Only one thread at a time uses the chip (Tuner), but for    *)
(* the parser's, which opens a subchannel.                                 *)
Idle(t) == script[t] = <<>> /\ asking[t] = "none"

Run(t, accesses) ==
  /\ Idle(t)
  /\ Sharing \/ \A u \in Threads : Idle(u)
  /\ script' = [script EXCEPT ![t] = accesses]
  /\ UNCHANGED <<page, reg, pending, answers, asking>>

Called == calls < MaxCalls /\ calls' = calls + 1

(* 100 attempts to power up fail, or one succeeds.                         *)
Initialize(tries, polls) ==
  /\ ~powered /\ Called
  /\ Run("command", IF tries = 100 THEN PowerUp(100) ELSE InitializeSync(tries, polls))
  /\ powered' = (tries < 100)
  /\ tuning' = TRUE
  /\ UNCHANGED <<tuned, opened>>

Tune(c, polls, locked) ==
  /\ powered /\ Called
  /\ Idle("fib")
  /\ Run("command", SetFrequency(Frequency[c + 1], polls, locked) \o SoftReset)
  /\ tuned' = [clock |-> c, pll |-> IF locked THEN c ELSE tuned.pll]
  /\ tuning' = TRUE
  /\ UNCHANGED <<powered, opened>>

(* The other routines; readData is called when there is no command, also   *)
(* before the chip is powered up.                                          *)
Receive(t, accesses) ==
  /\ Run(t, accesses)
  /\ IF t = "command" THEN tuning' = FALSE
     ELSE (tuning => Idle("command")) /\ UNCHANGED tuning
  /\ UNCHANGED <<powered, tuned>>

SetService(t, s) ==
  /\ tuned.pll # -1 /\ Called
  /\ Receive(t, ClearAndSetupMscMemory \o OpenSubChannel(s))
  /\ opened' = 128 + s

Close(s) ==
  /\ Called
  /\ Receive("command", CloseSubchannel(s))
  /\ opened' = s

Read == Receive("command", ReadData) /\ UNCHANGED <<opened, calls>>

ReadAntenna(reception) ==
  /\ Called
  /\ Receive("command", GetAntennaLevel(reception) \o ReadData)
  /\ UNCHANGED opened

ScanRead(locked) ==
  /\ tuned.clock # -1 /\ Called
  /\ Receive("command", OnScanReadFic(locked))
  /\ UNCHANGED opened

-----------------------------------------------------------------------------
Init ==
  /\ page = HOST
  /\ reg = [r \in Tracked |-> -1]
  /\ pending = {}
  /\ answers = <<>>
  /\ script = [t \in Threads |-> <<>>]
  /\ asking = [t \in Threads |-> "none"]
  /\ powered = FALSE /\ tuning = FALSE
  /\ tuned = [clock |-> -1, pll |-> -1]
  /\ opened = -1
  /\ calls = 0

Step(t) == Request(t) \/ Answer(t)

Next ==
  \/ \E t \in Threads : Step(t)
  \/ \E i \in {"fic", "msc"} : Interrupt(i)
  \/ \E tries \in {1, 2, 100}, polls \in {1, 10} : Initialize(tries, polls)
  \/ \E c \in Tuned : Tune(c, 1, TRUE) \/ Tune(c, 10, TRUE) \/ Tune(c, 10, FALSE)
  \/ \E s \in Subchannels : SetService("fib", s) \/ SetService("command", s) \/ Close(s)
  \/ \E reception \in {"none", "good", "poor"} : ReadAntenna(reception)
  \/ \E locked \in BOOLEAN : ScanRead(locked)
  \/ Read

(* The threads go on, and the command thread reads when nothing is called. *)
Fairness == WF_vars(Read) /\ \A t \in Threads : WF_vars(Step(t))

Spec == Init /\ [][Next]_vars /\ Fairness

-----------------------------------------------------------------------------
(* Types of the chip's and of the threads' state.                          *)
TypeOK ==
  /\ page \in {COMM, FM, HOST, DD, FIC, MSC1, RF}
  /\ DOMAIN reg = Tracked /\ \A r \in Tracked : reg[r] \in -1..255
  /\ pending \subseteq {"fic", "msc"}
  /\ \A t \in Threads : asking[t] \in {"none", "set", "get", "bulk", "raw", "look", "lookFic"}
  /\ {powered, tuning} \subseteq BOOLEAN
  /\ opened \in -1..255

Quiet == powered /\ \A t \in Threads : Idle(t)

Holds(p, first, vals) == \A i \in DOMAIN vals : reg[<<p, first + i - 1>>] = vals[i]

(* After a tuning the clock synthesiser, the sample rate, the oscillator   *)
(* and the PLL are those of the tables' rows for this channel, whatever    *)
(* was tuned and initialised before; if the clock did not lock, the PLL is *)
(* still that of the last channel that did.  setFrequency finds the row by *)
(* arithmetic on the frequency.                                            *)
TunedRegisters ==
  Quiet =>
    /\ tuned.clock # -1 =>
         LET type == ClockType[tuned.clock + 1] IN
           /\ Holds(RF, \hE8, Synthesiser[type + 1])
           /\ Holds(FM, \h3C, Oscillator[type + 1])
           /\ (reg[<<COMM, \h6A>>] = \h31) <=> (type = 3)
    /\ tuned.pll # -1 => Holds(RF, \h23, PllBytes(PllNF[tuned.pll + 1]))
    /\ \A c \in Channels : Row(Frequency[c + 1]) = c

(* Between two routines the chip is set up for the FIC, and the subchannel *)
(* register and the MSC memory are as the last setService or               *)
(* closeSubchannel left them: no other routine disturbs them.              *)
ReceptionSetUp ==
  Quiet =>
    /\ reg[<<DD, \h46>>] = \h16
    /\ reg[<<DD, \h3A>>] = opened
    /\ reg[<<DD, \h48>>] \in {-1, 5}

(* Every interrupt is served, FIC data also when the MSC buffer overruns   *)
(* all the time (readData returns behind clearMscBuffer).                  *)
Served == \A i \in {"fic", "msc"} : i \in pending ~> i \notin pending

(* What a thread reads is the answer to its own request.                   *)
OwnAnswer ==
  [][\A t \in Threads :
       asking[t] # "none" /\ asking'[t] = "none" =>
         Head(answers).to = t /\ Head(answers).op = asking[t]]_vars
=============================================================================
