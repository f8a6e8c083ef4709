------------------------------ MODULE BoardMem ------------------------------
(***************************************************************************)
(* How the library moves data between the host and the memory of an artix  *)
(* unit (src/board/artix.c, helper.c, subcore.c, dma.c): artix_mem_write,  *)
(* artix_mem_read, artix_config, the burst of artix_setup_stim, the fail   *)
(* pins and the GPIO calls, down to the single command of the driver.      *)
(*                                                                         *)
(* A function that only issues commands is the sequence of its commands;   *)
(* todo is what the call under way has still to issue.  Subcore, agent,    *)
(* gvpu and memcore are four state machines in a row, each reached through *)
(* the ones before it; they are external and do what the library relies    *)
(* on.  They work concurrently with the host: a command that was issued    *)
(* takes effect later, and subcore_idle waits for it.  Sizes and addresses *)
(* count words.                                                            *)
(***************************************************************************)
EXTENDS Integers, Sequences

CONSTANTS
    BURST,        \* BURST_BYTES
    DMA_SIZE,     \* size of the DMA map
    FIFO,         \* ARTIX_READ_FIFO_BYTES
    MEM,          \* words of memory of a unit
    Addrs,        \* addresses given to artix_mem_write and artix_mem_read
    Sizes,        \* sizes given to them
    MaxCalls,     \* bound: calls made
    NULL

Units == {"a1", "a2"}

(* A word is the number of the call that wrote it and its position in the  *)
(* data of that call.                                                      *)
Words  == (-1 .. MaxCalls) \X (0 .. MEM)
Memory == [Units -> [0 .. MEM - 1 -> Words]]

(* A transfer prepared, and what is known of a call under way.             *)
Transfers ==
    [op : {"prep"}, dir : {"tx"}, data : Seq(Words), size : Nat]
    \cup [op : {"prep"}, dir : {"rx"}, to : Nat, size : Nat]
Calls == [op : {"write", "read", "setup", "fail_pins", "config", "gpio"},
          unit : Units \cup {NULL}, addr : Nat, size : Nat, buf : Nat,
          before : Memory, start : Nat]

ASSUME BoardAssumption ==
    /\ {BURST, DMA_SIZE} \subseteq Nat \ {0} /\ DMA_SIZE % BURST = 0
    /\ {FIFO, MEM, MaxCalls} \subseteq Nat
    /\ Addrs \subseteq Nat /\ Sizes \subseteq Nat \ {0}
    /\ \A a \in Addrs, s \in Sizes : a + s + BURST <= MEM
    /\ NULL \notin Units \cup Transfers \cup Calls

VARIABLES
    call,         \* the call under way
    todo,         \* the commands it has still to issue
    calls,        \* number of calls made
    alloc_offset, \* where the next DMA buffer starts
    prepared,     \* is_tx_prepared, is_rx_prepared and the transfer prepared
    status,       \* the status packet read last
    read_data,    \* what artix_mem_read has copied out so far
    subcore,      \* its state, the unit it is set to, bursts set up and left
    agent, gvpu, memcore, \* the state each is in and the one loaded, per unit
    mem,          \* the memory of each unit
    fault         \* "none", or why the call cannot go on

hostVars  == <<call, todo, calls, alloc_offset, prepared, status, read_data>>
boardVars == <<subcore, agent, gvpu, memcore, mem>>
vars      == <<call, todo, calls, alloc_offset, prepared, status, read_data, subcore,
               agent, gvpu, memcore, mem, fault>>

ZERO == <<0, 0>>
Word(n, i) == <<n, i>>

-----------------------------------------------------------------------------
(* Commands, and the helpers as sequences of commands                      *)

subcore_idle == <<[op |-> "idle"]>>
subcore_load(u, s) == <<[op |-> "load", unit |-> u, state |-> s]>>
subcore_write_packet(p) == <<[op |-> "write", packet |-> p]>>
subcore_read_packet == <<[op |-> "read"]>>
Data(d) == [addr |-> 0, data |-> d]

(* Mutant: the state is loaded without waiting for subcore.                *)
helper_subcore_load_at_once(u, s) == subcore_load(u, s)

(* subcore_load and subcore_run make one command.                          *)
helper_subcore_load(u, s) == subcore_idle \o subcore_load(u, s)

(* AGENT_STARTUP only when the status of the unit does not show it done;   *)
(* an init error of the unit ends the process.                             *)
Startup(u) == <<[op |-> "startup", unit |-> u]>>
CheckInit  == <<[op |-> "check_init"]>>
StartupCommands(u) ==
    helper_subcore_load(u, "AGENT_STARTUP") \o subcore_read_packet \o CheckInit

helper_agent_load(u, s) ==
    Startup(u)
    \o helper_subcore_load(u, "CTRL_WRITE") \o subcore_write_packet(Data(s)) \o subcore_idle
    \o helper_subcore_load(u, "CTRL_RUN") \o subcore_idle

helper_gvpu_packet_write(u, p) ==
    helper_agent_load(u, "GVPU_LOAD")
    \o helper_subcore_load(u, "CTRL_WRITE") \o subcore_write_packet(p) \o subcore_idle

helper_gvpu_load(u, s) ==
    helper_gvpu_packet_write(u, Data(s)) \o helper_agent_load(u, "GVPU_RUN") \o subcore_idle

helper_get_agent_status(u) ==
    helper_agent_load(u, "STATUS")
    \o helper_subcore_load(u, "CTRL_READ") \o subcore_read_packet \o subcore_idle

helper_print_agent_status(u) == helper_get_agent_status(u)

helper_get_agent_gvpu_status(u) ==
    helper_agent_load(u, "GVPU_STATUS")
    \o helper_subcore_load(u, "CTRL_WRITE") \o subcore_write_packet(Data("GET_CYCLE"))
    \o helper_subcore_load(u, "CTRL_READ") \o subcore_read_packet \o subcore_idle

(* The status read before is looked at: exit(1) unless it shows the state. *)
CheckGvpu(u, s)    == <<[op |-> "check_gvpu", unit |-> u, state |-> s]>>
CheckMemcore(u, s) == <<[op |-> "check_memcore", unit |-> u, state |-> s]>>

helper_memcore_load(u, s) ==
    helper_gvpu_load(u, "MEM_LOAD")
    \o helper_print_agent_status(u) \o helper_get_agent_status(u) \o CheckGvpu(u, "MEM_LOAD")
    \o helper_gvpu_packet_write(u, Data(s)) \o helper_gvpu_load(u, "MEM_RUN")

(* Mutant: memcore is expected to be reading, however little there is.     *)
check_state_always(u, s, num_bursts) == helper_get_agent_status(u) \o CheckMemcore(u, s)

(* What fits in the read FIFO may have been read by the time of the check. *)
helper_memcore_check_state(u, s, num_bursts) ==
    IF s # "MEMCORE_READ_BURST" \/ num_bursts * BURST > FIFO
    THEN helper_get_agent_status(u) \o CheckMemcore(u, s) ELSE <<>>

(* Mutant: memcore is told of one burst fewer than subcore.                *)
burst_setup_one_less(u, addr, num_bursts) ==
    helper_memcore_load(u, "MEMCORE_SETUP_BURST")
    \o helper_gvpu_load(u, "MEM_BURST") \o helper_agent_load(u, "BURST_LOAD")
    \o helper_subcore_load(u, "CTRL_WRITE")
    \o subcore_write_packet([addr |-> addr, data |-> num_bursts - 1]) \o subcore_idle

helper_burst_setup(u, addr, num_bursts) ==
    helper_memcore_load(u, "MEMCORE_SETUP_BURST")
    \o helper_gvpu_load(u, "MEM_BURST") \o helper_agent_load(u, "BURST_LOAD")
    \o helper_subcore_load(u, "CTRL_WRITE")
    \o subcore_write_packet([addr |-> addr, data |-> num_bursts]) \o subcore_idle

-----------------------------------------------------------------------------
(* Transfers                                                               *)

(* Mutant: the buffer of the call before is kept.                          *)
no_alloc_reset == <<>>

gcore_dma_alloc_reset == <<[op |-> "alloc_reset"]>>
gcore_dma_alloc(n)    == <<[op |-> "alloc", size |-> n]>>
prep_tx(data)         == <<[op |-> "prep", dir |-> "tx", data |-> data, size |-> Len(data)]>>
prep_rx(n, to)        == <<[op |-> "prep", dir |-> "rx", to |-> to, size |-> n]>>
gcore_dma_start       == <<[op |-> "start"]>>

SetupBurst(u, num_bursts) ==
    subcore_idle \o helper_subcore_load(u, "SETUP_BURST")
    \o subcore_write_packet(Data(num_bursts)) \o subcore_idle

(* Mutant: subcore is told of a burst that never comes.                    *)
prep_dma_write_one_more(u, num_bursts) ==
    SetupBurst(u, num_bursts + 1) \o helper_subcore_load(u, "DMA_WRITE")

subcore_prep_dma_write(u, num_bursts) ==
    SetupBurst(u, num_bursts) \o helper_subcore_load(u, "DMA_WRITE")

(* The limit of 65504 bursts is far above what a DMA buffer holds.         *)
subcore_prep_dma_read(u, num_bursts) ==
    SetupBurst(u, num_bursts) \o helper_subcore_load(u, "DMA_READ")

(* A rest makes one more burst.                                            *)
NumBursts(size) == size \div BURST + (IF size % BURST # 0 THEN 1 ELSE 0)

(* Words i .. j - 1 of the data of the n-th call.                          *)
Part(n, i, j) == [k \in 1 .. j - i |-> Word(n, i + k - 1)]

(* Mutant: every full buffer is taken from the start of the data.          *)
ChunkFirst(n, i) == Part(n, 0, DMA_SIZE)

(* The i-th full buffer of the data, counted from 0.                       *)
Chunk(n, i) == Part(n, i * DMA_SIZE, (i + 1) * DMA_SIZE)

(* Concatenation of f[0], ..., f[n - 1].                                   *)
Concat(f, n) ==
    LET C[i \in 0 .. n] == IF i = 0 THEN <<>> ELSE C[i - 1] \o f[i - 1] IN C[n]

WriteTransfers(n, size) ==
    LET num_chunks == size \div DMA_SIZE
        data_mod   == size % DMA_SIZE
    IN  IF size > DMA_SIZE
        THEN gcore_dma_alloc(DMA_SIZE)
             \o Concat([i \in 0 .. num_chunks - 1 |-> prep_tx(Chunk(n, i)) \o gcore_dma_start],
                       num_chunks)
             \o IF data_mod = 0 THEN <<>>
                ELSE prep_tx(Part(n, size - data_mod, size)) \o gcore_dma_start
        ELSE gcore_dma_alloc(NumBursts(size) * BURST)
             \o prep_tx([k \in 1 .. NumBursts(size) * BURST |->
                            IF k <= size THEN Word(n, k - 1) ELSE ZERO])
             \o gcore_dma_start

artix_mem_write(u, addr, size, n) ==
    helper_burst_setup(u, addr, NumBursts(size))
    \o helper_print_agent_status(u)
    \o helper_memcore_load(u, "MEMCORE_WRITE_BURST")
    \o helper_memcore_check_state(u, "MEMCORE_WRITE_BURST", NumBursts(size))
    \o helper_print_agent_status(u)
    \o helper_gvpu_load(u, "MEM_WRITE") \o helper_print_agent_status(u)
    \o helper_agent_load(u, "GVPU_WRITE")
    \o gcore_dma_alloc_reset
    \o subcore_prep_dma_write(u, NumBursts(size))
    \o WriteTransfers(n, size)
    \o helper_get_agent_gvpu_status(u) \o subcore_idle
    \o helper_gvpu_load(u, "TEST_CLEANUP") \o helper_print_agent_status(u)

(* The rest of a large read asks subcore for its whole bursts only.        *)
ReadTransfers(u, size) ==
    LET num_chunks == size \div DMA_SIZE
        data_mod   == size % DMA_SIZE
        Read(n, bursts, to) ==
            prep_rx(n, to) \o subcore_prep_dma_read(u, bursts) \o gcore_dma_start
    IN  IF size > DMA_SIZE
        THEN gcore_dma_alloc(DMA_SIZE)
             \o Concat([i \in 0 .. num_chunks - 1 |->
                            Read(DMA_SIZE, DMA_SIZE \div BURST, i * DMA_SIZE)], num_chunks)
             \o IF data_mod = 0 THEN <<>>
                ELSE Read(data_mod, data_mod \div BURST, size - data_mod)
        ELSE gcore_dma_alloc(NumBursts(size) * BURST)
             \o Read(NumBursts(size) * BURST, NumBursts(size), 0)

artix_mem_read(u, addr, size) ==
    helper_burst_setup(u, addr, NumBursts(size))
    \o helper_print_agent_status(u)
    \o helper_memcore_load(u, "MEMCORE_READ_BURST")
    \o helper_memcore_check_state(u, "MEMCORE_READ_BURST", NumBursts(size))
    \o helper_print_agent_status(u)
    \o helper_gvpu_load(u, "MEM_READ") \o helper_agent_load(u, "GVPU_READ")
    \o gcore_dma_alloc_reset
    \o ReadTransfers(u, size)
    \o helper_get_agent_gvpu_status(u) \o subcore_idle
    \o helper_gvpu_load(u, "TEST_CLEANUP") \o helper_print_agent_status(u)

artix_setup_stim(u) ==
    helper_gvpu_load(u, "TEST_INIT") \o helper_gvpu_packet_write(u, Data("NUM_VECS"))
    \o helper_gvpu_load(u, "TEST_SETUP") \o helper_agent_load(u, "GVPU_WRITE")
    \o gcore_dma_alloc_reset \o subcore_prep_dma_write(u, 1)
    \o gcore_dma_alloc(BURST) \o prep_tx([k \in 1 .. BURST |-> ZERO]) \o gcore_dma_start
    \o helper_gvpu_load(u, "TEST_CLEANUP")

FailPins(u) ==
    helper_gvpu_load(u, "TEST_FAIL_PINS") \o helper_agent_load(u, "GVPU_READ")
    \o gcore_dma_alloc_reset \o subcore_prep_dma_read(u, 1)
    \o gcore_dma_alloc(BURST) \o prep_rx(BURST, 0) \o gcore_dma_start

artix_get_stim_fail_pins == FailPins("a1") \o FailPins("a2")

(* The buffer follows the one allocated last: nothing resets the offset.   *)
artix_config(u, file_size) ==
    gcore_dma_alloc(file_size) \o helper_subcore_load(u, "CONFIG_SETUP") \o CheckInit
    \o prep_tx([k \in 1 .. file_size |-> ZERO]) \o gcore_dma_start \o subcore_idle

Gpio(cmd) == helper_subcore_load(NULL, "GPIO_DNA") \o subcore_write_packet(Data(cmd))

helper_subcore_set_boot_done == Gpio("BOOT_DONE") \o subcore_idle
helper_subcore_set_led       == Gpio("SET_LED") \o subcore_idle
helper_subcore_get_dna_id    == Gpio("GET_DNA") \o subcore_read_packet \o subcore_idle

-----------------------------------------------------------------------------
(* The board: what a packet and a burst do, unit by unit                   *)

Running(s) == subcore.phase = "running" /\ subcore.state = s
Finishing  == [subcore EXCEPT !.phase = "finishing"]

Idle(m, u) == [m EXCEPT ![u].state = "IDLE"]

Refused == fault' = "refused" /\ UNCHANGED <<boardVars, status, read_data>>

(* A control packet goes to the agent, which passes it on if it is told to. *)
ToAgent(u, p) ==
    \/ /\ agent[u].state = "IDLE"
       /\ agent' = [agent EXCEPT ![u].loaded = p.data]
       /\ UNCHANGED <<gvpu, memcore, fault>>
    \/ /\ agent[u].state = "GVPU_LOAD"
       /\ agent' = Idle(agent, u)
       /\ \/ /\ gvpu[u].state = "MEM_LOAD"
             /\ memcore' = [memcore EXCEPT ![u].loaded = p.data] /\ gvpu' = Idle(gvpu, u)
          \/ /\ gvpu[u].state = "TEST_INIT"
             /\ gvpu' = Idle(gvpu, u) /\ UNCHANGED memcore
          \/ /\ gvpu[u].state \notin {"MEM_LOAD", "TEST_INIT"}
             /\ gvpu' = [gvpu EXCEPT ![u].loaded = p.data] /\ UNCHANGED memcore
       /\ UNCHANGED fault
    \/ /\ agent[u].state = "BURST_LOAD"
       /\ gvpu[u].state = "MEM_BURST" /\ memcore[u].state = "MEMCORE_SETUP_BURST"
       /\ agent' = Idle(agent, u) /\ gvpu' = Idle(gvpu, u)
       /\ memcore' = [memcore EXCEPT ![u].state = "IDLE", ![u].addr = p.addr, ![u].left = p.data]
       /\ UNCHANGED fault
    \/ /\ agent[u].state = "GVPU_STATUS"
       /\ UNCHANGED <<agent, gvpu, memcore, fault>>

AgentTakes(u) ==
    \/ agent[u].state \in {"IDLE", "GVPU_LOAD", "GVPU_STATUS"}
    \/ /\ agent[u].state = "BURST_LOAD"
       /\ gvpu[u].state = "MEM_BURST" /\ memcore[u].state = "MEMCORE_SETUP_BURST"

PacketToBoard(p) ==
    \/ /\ Running("CTRL_WRITE") /\ AgentTakes(subcore.unit)
       /\ ToAgent(subcore.unit, p)
       /\ subcore' = Finishing /\ UNCHANGED <<mem, status, read_data>>
    \/ /\ Running("SETUP_BURST")
       /\ subcore' = [Finishing EXCEPT !.bursts = p.data]
       /\ UNCHANGED <<agent, gvpu, memcore, mem, status, read_data, fault>>
    \/ /\ Running("GPIO_DNA")
       /\ subcore' = IF p.data = "GET_DNA" THEN subcore ELSE Finishing
       /\ UNCHANGED <<agent, gvpu, memcore, mem, status, read_data, fault>>
    \/ /\ ~(Running("CTRL_WRITE") /\ AgentTakes(subcore.unit))
       /\ ~Running("SETUP_BURST") /\ ~Running("GPIO_DNA")
       /\ Refused

AgentTells(u) == agent[u].state \in {"STATUS", "GVPU_STATUS"}

PacketFromBoard ==
    \/ /\ Running("CTRL_READ") /\ AgentTells(subcore.unit)
       /\ status' = [gvpu |-> gvpu[subcore.unit].state, memcore |-> memcore[subcore.unit].state]
       /\ agent' = Idle(agent, subcore.unit)
       /\ subcore' = Finishing /\ UNCHANGED <<gvpu, memcore, mem, read_data, fault>>
    \/ /\ Running("AGENT_STARTUP")
       /\ agent' = [agent EXCEPT ![subcore.unit].started = TRUE]
       /\ subcore' = Finishing /\ UNCHANGED <<gvpu, memcore, mem, status, read_data, fault>>
    \/ /\ Running("GPIO_DNA")
       /\ subcore' = Finishing
       /\ UNCHANGED <<agent, gvpu, memcore, mem, status, read_data, fault>>
    \/ /\ ~(Running("CTRL_READ") /\ AgentTells(subcore.unit))
       /\ ~Running("AGENT_STARTUP") /\ ~Running("GPIO_DNA")
       /\ Refused

(* Whole bursts are counted; the words of a broken one wait for the rest.  *)
DmaToBoard(data) ==
    LET u     == subcore.unit
        n     == Len(data) \div BURST
        last  == n = subcore.bursts
        toMem == gvpu[u].state = "MEM_WRITE" /\ memcore[u].state = "MEMCORE_WRITE_BURST"
        open  == agent[u].state = "GVPU_WRITE" /\ (toMem \/ gvpu[u].state = "TEST_SETUP")
    IN  \/ /\ Running("CONFIG_SETUP")
           /\ subcore' = Finishing
           /\ agent' = [agent EXCEPT ![u] = [state |-> "IDLE", loaded |-> "IDLE", started |-> FALSE]]
           /\ gvpu' = Idle(gvpu, u) /\ memcore' = Idle(memcore, u)
           /\ UNCHANGED <<mem, fault>>
        \/ /\ Running("DMA_WRITE") /\ open
           /\ subcore' = [subcore EXCEPT !.bursts = @ - n,
                                         !.phase = IF last THEN "finishing" ELSE @]
           /\ agent' = IF last THEN Idle(agent, u) ELSE agent
           /\ gvpu'  = IF last THEN Idle(gvpu, u) ELSE gvpu
           /\ IF toMem
              THEN LET a == memcore[u].addr
                   IN  /\ memcore' = [memcore EXCEPT ![u].addr = @ + Len(data), ![u].left = @ - n,
                                ![u].state = IF memcore[u].left = n THEN "IDLE" ELSE @]
                       /\ mem' = [mem EXCEPT ![u] = [w \in DOMAIN @ |->
                                IF w \in a .. a + Len(data) - 1 THEN data[w - a + 1] ELSE @[w]]]
              ELSE UNCHANGED <<memcore, mem>>
           /\ UNCHANGED fault
        \/ /\ ~Running("CONFIG_SETUP") /\ ~(Running("DMA_WRITE") /\ open)
           /\ fault' = "refused" /\ UNCHANGED boardVars

(* The driver waits three seconds for what it was told to expect.          *)
DmaFromBoard(size, to) ==
    LET u       == subcore.unit
        n       == subcore.bursts
        fromMem == gvpu[u].state = "MEM_READ" /\ memcore[u].reading
        last    == ~fromMem \/ memcore[u].left = n
        open    == agent[u].state = "GVPU_READ" /\ (fromMem \/ gvpu[u].state = "TEST_FAIL_PINS")
        a       == memcore[u].addr
    IN  \/ /\ Running("DMA_READ") /\ open /\ n * BURST >= size
           /\ subcore' = [Finishing EXCEPT !.bursts = 0]
           /\ agent' = IF last THEN Idle(agent, u) ELSE agent
           /\ gvpu'  = IF last THEN Idle(gvpu, u) ELSE gvpu
           /\ IF fromMem
              THEN /\ memcore' = [memcore EXCEPT ![u].addr = @ + n * BURST, ![u].left = @ - n,
                            ![u].state = IF last THEN "IDLE" ELSE @, ![u].reading = ~last]
                   /\ read_data' = [i \in DOMAIN read_data |->
                            IF i \in to .. to + size - 1 THEN mem[u][a + i - to] ELSE read_data[i]]
              ELSE UNCHANGED <<memcore, read_data>>
           /\ UNCHANGED <<mem, fault>>
        \/ /\ Running("DMA_READ") /\ open /\ n * BURST < size
           /\ fault' = "timeout" /\ UNCHANGED <<boardVars, read_data>>
        \/ /\ ~(Running("DMA_READ") /\ open)
           /\ fault' = "refused" /\ UNCHANGED <<boardVars, read_data>>

(* CTRL_RUN: the agent enters the state loaded; GVPU_RUN makes the gvpu    *)
(* enter the one loaded there, MEM_RUN the memcore.                        *)
RunMemcore(u) ==
    \E s \in IF memcore[u].loaded = "MEMCORE_READ_BURST" /\ memcore[u].left * BURST <= FIFO
             THEN {"IDLE", "MEMCORE_READ_BURST"} ELSE {memcore[u].loaded} :
        memcore' = [memcore EXCEPT ![u].state = s,
                                   ![u].reading = memcore[u].loaded = "MEMCORE_READ_BURST"]

SubcoreRunsAgent ==
    LET u == subcore.unit
    IN  /\ Running("CTRL_RUN")
        /\ subcore' = [subcore EXCEPT !.phase = "idle"]
        /\ \/ /\ agent[u].loaded # "GVPU_RUN"
              /\ agent' = [agent EXCEPT ![u].state = agent[u].loaded]
              /\ UNCHANGED <<gvpu, memcore>>
           \/ /\ agent[u].loaded = "GVPU_RUN" /\ gvpu[u].loaded = "MEM_RUN"
              /\ RunMemcore(u) /\ UNCHANGED <<agent, gvpu>>
           \/ /\ agent[u].loaded = "GVPU_RUN" /\ gvpu[u].loaded # "MEM_RUN"
              /\ gvpu' = [gvpu EXCEPT ![u].state =
                              IF gvpu[u].loaded = "TEST_CLEANUP" THEN "IDLE" ELSE gvpu[u].loaded]
              /\ UNCHANGED <<agent, memcore>>
        /\ UNCHANGED <<hostVars, mem, fault>>

SubcoreIdles ==
    /\ subcore.phase = "finishing"
    /\ subcore' = [subcore EXCEPT !.phase = "idle"]
    /\ UNCHANGED <<hostVars, agent, gvpu, memcore, mem, fault>>

Board == SubcoreRunsAgent \/ SubcoreIdles

-----------------------------------------------------------------------------
(* The host issues the next command                                        *)

Command(op) == fault = "none" /\ todo # <<>> /\ Head(todo).op = op
Issued      == todo' = Tail(todo)
C           == Head(todo)

HostOnly == UNCHANGED <<call, calls, status, read_data, boardVars, fault>>

(* subcore_idle: waits.                                                    *)
IssueIdle ==
    /\ Command("idle") /\ subcore.phase = "idle" /\ Issued
    /\ UNCHANGED <<alloc_offset, prepared>> /\ HostOnly

IssueLoad ==
    /\ Command("load") /\ Issued
    /\ \/ /\ subcore.phase = "idle"
          /\ C.state = "AGENT_STARTUP" => ~agent[C.unit].started
          /\ subcore' = [subcore EXCEPT !.phase = "running", !.state = C.state, !.unit = C.unit]
          /\ UNCHANGED fault
       \/ /\ subcore.phase # "idle" \/ (C.state = "AGENT_STARTUP" /\ agent[C.unit].started)
          /\ fault' = "refused" /\ UNCHANGED subcore
    /\ UNCHANGED <<call, calls, alloc_offset, prepared, status, read_data, agent, gvpu,
                   memcore, mem>>

(* GCORE_AGENT_STARTUP_DONE_MASK of the status register of the unit.       *)
StartupMissing(u) == ~agent[u].started

CheckStartup ==
    /\ Command("startup")
    /\ todo' = (IF StartupMissing(C.unit) THEN StartupCommands(C.unit) ELSE <<>>) \o Tail(todo)
    /\ UNCHANGED <<alloc_offset, prepared>> /\ HostOnly

IssueWrite ==
    /\ Command("write") /\ Issued /\ PacketToBoard(C.packet)
    /\ UNCHANGED <<call, calls, alloc_offset, prepared>>

IssueRead ==
    /\ Command("read") /\ Issued /\ PacketFromBoard
    /\ UNCHANGED <<call, calls, alloc_offset, prepared>>

CheckStatus ==
    /\ Command("check_gvpu") \/ Command("check_memcore")
    /\ Issued
    /\ fault' = IF C.state = (IF C.op = "check_gvpu" THEN status.gvpu ELSE status.memcore)
                THEN "none" ELSE "exit"
    /\ UNCHANGED <<call, calls, alloc_offset, prepared, status, read_data, boardVars>>

(* GCORE_STATUS_INIT_ERROR_MASK: a unit may fail to come up.               *)
CheckInitError ==
    /\ Command("check_init") /\ Issued
    /\ fault' \in {"none", "init_error"}
    /\ UNCHANGED <<call, calls, alloc_offset, prepared, status, read_data, boardVars>>

(* gcore_dma_calc_size rounds up to the 128 bytes of a bus burst, a part   *)
(* of the 1024 of a burst.                                                 *)
Alloc ==
    /\ Command("alloc_reset") \/ Command("alloc")
    /\ Issued
    /\ alloc_offset' = IF C.op = "alloc" THEN alloc_offset + C.size ELSE 0
    /\ call' = [call EXCEPT !.buf = IF C.op = "alloc" THEN alloc_offset ELSE @]
    /\ UNCHANGED <<calls, prepared, status, read_data, boardVars, fault>>

gcore_dma_prep ==
    /\ Command("prep") /\ Issued
    /\ prepared' = C
    /\ UNCHANGED alloc_offset /\ HostOnly

IssueStart ==
    /\ Command("start") /\ Issued
    /\ prepared' = NULL
    /\ \/ /\ prepared = NULL
          /\ fault' = "refused" /\ UNCHANGED <<boardVars, read_data>>
       \/ /\ prepared # NULL
          /\ \/ prepared.dir = "tx" /\ DmaToBoard(prepared.data) /\ UNCHANGED read_data
             \/ prepared.dir = "rx" /\ DmaFromBoard(prepared.size, prepared.to)
    /\ UNCHANGED <<call, calls, alloc_offset, status>>

Issue == \/ IssueIdle \/ IssueLoad \/ CheckStartup \/ IssueWrite \/ IssueRead
         \/ CheckStatus \/ CheckInitError \/ Alloc \/ gcore_dma_prep \/ IssueStart

-----------------------------------------------------------------------------

Begin(op, u, addr, size, commands) ==
    /\ call = NULL /\ fault = "none" /\ calls < MaxCalls
    /\ call' = [op |-> op, unit |-> u, addr |-> addr, size |-> size, buf |-> 0,
                before |-> mem, start |-> alloc_offset]
    /\ todo' = commands /\ calls' = calls + 1
    /\ read_data' = [i \in 0 .. size - 1 |-> ZERO]
    /\ UNCHANGED <<alloc_offset, prepared, status, boardVars, fault>>

CallMemWrite == \E u \in Units, a \in Addrs, s \in Sizes :
    Begin("write", u, a, s, artix_mem_write(u, a, s, calls + 1))
CallMemRead == \E u \in Units, a \in Addrs, s \in Sizes :
    Begin("read", u, a, s, artix_mem_read(u, a, s))
CallSetupStim == \E u \in Units : Begin("setup", u, 0, 0, artix_setup_stim(u))
CallFailPins  == Begin("fail_pins", NULL, 0, 0, artix_get_stim_fail_pins)
CallConfig    == \E u \in Units : Begin("config", u, 0, 0, artix_config(u, DMA_SIZE))
CallGpio      == \E c \in {helper_subcore_set_boot_done, helper_subcore_set_led,
                           helper_subcore_get_dna_id} : Begin("gpio", NULL, 0, 0, c)

Return ==
    /\ call # NULL /\ todo = <<>> /\ fault = "none"
    /\ call' = NULL
    /\ UNCHANGED <<todo, calls, alloc_offset, prepared, status, read_data, boardVars, fault>>

Init ==
    /\ call = NULL /\ todo = <<>> /\ calls = 0 /\ alloc_offset = 0
    /\ prepared = NULL /\ read_data = <<>>
    /\ status = [gvpu |-> "IDLE", memcore |-> "IDLE"]
    /\ subcore = [phase |-> "idle", state |-> "IDLE", unit |-> NULL, bursts |-> 0]
    /\ agent = [u \in Units |-> [state |-> "IDLE", loaded |-> "IDLE", started |-> FALSE]]
    /\ gvpu = [u \in Units |-> [state |-> "IDLE", loaded |-> "IDLE"]]
    /\ memcore = [u \in Units |-> [state |-> "IDLE", loaded |-> "IDLE", addr |-> 0, left |-> 0,
                                   reading |-> FALSE]]
    /\ mem = [u \in Units |-> [w \in 0 .. MEM - 1 |-> Word(-1, w)]]
    /\ fault = "none"

Next ==
    \/ CallMemWrite \/ CallMemRead \/ CallSetupStim \/ CallFailPins \/ CallConfig \/ CallGpio
    \/ Issue \/ Return
    \/ Board

(* The thread goes on with its call; a command issued is carried out.      *)
Spec == Init /\ [][Next]_vars /\ WF_vars(Issue \/ Return) /\ WF_vars(Board)

-----------------------------------------------------------------------------
(* Properties                                                              *)

SubcoreStates == {"IDLE", "CTRL_WRITE", "CTRL_READ", "CTRL_RUN", "SETUP_BURST", "DMA_WRITE",
                  "DMA_READ", "CONFIG_SETUP", "AGENT_STARTUP", "GPIO_DNA"}
AgentStates   == {"IDLE", "GVPU_LOAD", "GVPU_RUN", "GVPU_WRITE", "GVPU_READ", "GVPU_STATUS",
                  "STATUS", "BURST_LOAD"}
GvpuStates    == {"IDLE", "MEM_LOAD", "MEM_RUN", "MEM_BURST", "MEM_WRITE", "MEM_READ",
                  "TEST_INIT", "TEST_SETUP", "TEST_CLEANUP", "TEST_FAIL_PINS"}
MemcoreStates == {"IDLE", "MEMCORE_SETUP_BURST", "MEMCORE_WRITE_BURST", "MEMCORE_READ_BURST"}

(* Host and board are of their types; a machine is only ever loaded with a *)
(* state of its own.                                                       *)
BoardTypeOK ==
    /\ call \in Calls \cup {NULL} /\ prepared \in Transfers \cup {NULL}
    /\ calls \in 0 .. MaxCalls /\ alloc_offset \in Nat
    /\ status \in [gvpu : GvpuStates, memcore : MemcoreStates]
    /\ subcore \in [phase : {"idle", "running", "finishing"}, state : SubcoreStates,
                    unit : Units \cup {NULL}, bursts : Nat]
    /\ agent \in [Units -> [state : AgentStates, loaded : AgentStates, started : BOOLEAN]]
    /\ gvpu \in [Units -> [state : GvpuStates, loaded : GvpuStates]]
    /\ memcore \in [Units -> [state : MemcoreStates, loaded : MemcoreStates, addr : 0 .. MEM,
                              left : Nat, reading : BOOLEAN]]
    /\ mem \in Memory
    /\ fault \in {"none", "refused", "exit", "init_error", "timeout"}

(* Sizes whose last transfer ends on a burst.                              *)
Whole(size) == size <= DMA_SIZE \/ size % BURST = 0

(* "subcore must be in IDLE state to load and run" (helper.c:38), "Subcore *)
(* msut be in ctrl_write state" (subcore.c:139), "in ctrl_read state"      *)
(* (subcore.c:160), "Only run state once" (helper.c:188): in every call    *)
(* each command meets subcore, agent, gvpu and memcore in a state that     *)
(* takes it, however long they take for the command before.                *)
CommandsTaken == fault # "refused"

(* The two checks that end the process are never met: gvpu is in MEM_LOAD  *)
(* and memcore in its burst state when they are looked at (helper.c:303,   *)
(* helper.c:334).                                                          *)
ChecksHold == fault # "exit"

(* The words of the bursts that hold the data.                             *)
Region(size) == call.addr .. call.addr + ((size + BURST - 1) \div BURST) * BURST - 1

(* A write that returns has put its data, and zeros up to the end of the   *)
(* last burst, at the address in the unit selected and nowhere else; a     *)
(* read that returns has copied what is there; no other call changes       *)
(* memory (artix.c:65-199, artix.c:237-362).                               *)
TransferDone ==
    call # NULL /\ todo = <<>> /\ fault = "none" =>
        /\ mem = [u \in Units |-> [w \in 0 .. MEM - 1 |->
              IF call.op = "write" /\ u = call.unit /\ w \in Region(call.size)
              THEN IF w < call.addr + call.size THEN Word(calls, w - call.addr) ELSE ZERO
              ELSE call.before[u][w]]]
        /\ call.op = "read" =>
              read_data = [i \in 0 .. call.size - 1 |-> mem[call.unit][call.addr + i]]

(* Every buffer handed to the DMA lies inside the map, but for a           *)
(* configuration that follows another transfer of the same process: it     *)
(* does not start "from start of dma buffer" (artix.c:1352).               *)
DmaInsideMap ==
    prepared # NULL =>
        \/ call.buf + prepared.size <= DMA_SIZE
        \/ call.op = "config" /\ call.start # 0

(* No call waits for ever: every wait for subcore and every transfer ends  *)
(* (subcore.c:71, dma.c:210-235), unless the size is larger than a DMA     *)
(* buffer and leaves a broken burst at the end, or the unit does not come  *)
(* up.                                                                     *)
CallReturns ==
    (call # NULL /\ Whole(call.size)) ~> (call = NULL \/ fault = "init_error")

=============================================================================
