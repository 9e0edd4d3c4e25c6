-------------------------- MODULE EepromRefinement --------------------------
(***************************************************************************)
(* The EEPROM emulation implements EepromStore as long as the flash driver *)
(* reports no error: the map a restart would recover, computed from the    *)
(* pages alone, changes only as EepromStore says.                          *)
(***************************************************************************)
EXTENDS EepromEmulation

ActivePage == CHOOSE p \in Pages : flash[p].status = "active"
ReceivingPage == CHOOSE p \in Pages : flash[p].status = "receiving"
HasActive == PagesOf("active") # {}
HasReceiving == PagesOf("receiving") # {}

Used(p) == Index \ Free(p)

\* When eeprom_init resumes a transfer, a variable that is only in the active
\* page is copied if the newer ones leave a free word for it.
Survives(v) ==
    LET newer == {u \in Vars : /\ Holding(ReceivingPage, u) = {}
                               /\ \E k \in Holding(ActivePage, u) :
                                     k > Last(Holding(ActivePage, v))}
    IN  Cardinality(Used(ReceivingPage)) + Cardinality(newer) < PageWords

\* The value of v after a power failure at this moment and the restart.
Durable(v) ==
    IF ~HasActive /\ ~HasReceiving THEN None
    ELSE IF ~HasActive THEN Lookup(ReceivingPage, v)
    ELSE IF ~HasReceiving THEN Lookup(ActivePage, v)
    ELSE IF Holding(ReceivingPage, v) # {} THEN Lookup(ReceivingPage, v)
    ELSE IF Holding(ActivePage, v) # {} /\ ~Survives(v) THEN None
    ELSE Lookup(ActivePage, v)

\* Every value of v still in flash.
Copies(v) == UNION {{flash[p].word[k].data : k \in Holding(p, v)} :
                       p \in PagesOf("active") \cup PagesOf("receiving")}

Store == INSTANCE EepromStore
            WITH Capacity <- PageWords,
                 store <- [v \in Vars |-> Durable(v)],
                 past <- [v \in Vars |-> Copies(v)],
                 up <- booted

StoreSpec == Store!Spec

----------------------------------------------------------------------------

\* Between two operations eeprom_read returns, for every variable, exactly
\* what a restart would recover: nothing the caller can read is lost by a
\* power failure, and nothing it cannot read comes back.
ReadsDurable ==
    errors = 0 /\ booted /\ pc = "ready" => \A v \in Vars : Read(v) = Durable(v)

\* The erase count a restart would recover.
DurableCount ==
    LET n == NumberOf(flash[IF HasActive THEN ActivePage ELSE ReceivingPage].count)
    IN  IF n = CountMax THEN 0 ELSE n

\* Outside formatting the erase count survives transfers and power failures,
\* and grows by one at a time (until it wraps at its width), while the driver
\* reports no error.
EraseCountSteady ==
    [][errors' = 0 /\ (HasActive \/ HasReceiving) /\ (HasActive' \/ HasReceiving')
          /\ pc # "formatted"
       => DurableCount' \in {DurableCount,
                             (DurableCount + 1) % CountMax}]_vars

\* Two pages are never active, even after an error of the flash driver:
\* eeprom_init does not have to choose between two stores.
OneActive == errors <= 1 => \A p, q \in PagesOf("active") : p = q

\* A store that accepts calls: its page is active in RAM and in the flash.
Usable == booted /\ active \in Pages /\ flash[active].status = "active"

\* Whatever interrupted transfers and errors of earlier boots have left in the
\* flash (two active pages, two receiving ones, pages half copied), a boot in
\* which the driver reports no error ends with a usable store, unless power
\* fails first.  A boot with an error may end without one (pc = "wild").
ComesUp == \A n \in 0 .. MaxErrors :
              pc = "scan" /\ errors = n ~> pc = "off" \/ errors > n \/ Usable
============================================================================
