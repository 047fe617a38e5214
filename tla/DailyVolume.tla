---- MODULE DailyVolume ----
(***************************************************************************)
(* The daily volume cap, seen from the exchange.  The router counts in     *)
(* memory what it knows it posted; two history variables count what the    *)
(* exchange may have been given since the window was last started anew,    *)
(* and how often the router's count fell behind it.  Every step is one of  *)
(* Executor's.                                                             *)
(***************************************************************************)
EXTENDS Executor

VARIABLES
  posted,  \* history: what the exchange may have been given in this window
  slips    \* history: crashes and lost answers of posts in this window

ledger == <<posted, slips>>

VolumeInit == Init /\ posted = 0 /\ slips = 0

\* maybe_reset_daily_volume() starts a new window.
NewWindow == mode = "none" /\ mode' = "once" /\ windowOver

\* The order reaches the exchange, whether or not the answer comes back.
Posting == cur # NoId /\ sent'[cur]["post"] > sent[cur]["post"]

\* The counter falls behind: it is lost with the process, or an order that may
\* have been accepted is not added to it.
Slip == crashes' > crashes \/ (Posting /\ ret'.stage = Failed)

Record ==
  /\ posted' = CASE NewWindow -> 0
                 [] Posting   -> posted + memory[cur].usdc
                 [] OTHER     -> posted
  /\ slips'  = CASE NewWindow -> 0
                 [] Slip      -> slips + 1
                 [] OTHER     -> slips

VolumeNext == Next /\ Record

VolumeSpec == VolumeInit /\ [][VolumeNext]_<<vars, ledger>>

----
\* What the exchange may have been given in one window is within the cap for
\* as long as the router keeps count, over all orders, passes, direct calls and
\* windows; and each crash and each post whose answer is lost lets through no
\* more than the cap once again.  A window that is over is long over: one of
\* 24 hours anywhere meets at most two of those that are counted here.
PostedPerSlip == Cap > 0 => posted <= Cap * (1 + slips)

====
