--------------------------- MODULE MCMetarRuntime ---------------------------
EXTENDS MetarRuntime

CONSTANTS Home, Away

MCAirports == {Home, Away}

MCRequest ==
    [airport : MCAirports, purpose : {"primary", "lookup"},
     generation : 0 .. MaxEvents + 1, lookupGeneration : 0 .. MaxEvents,
     epoch : 1 .. MaxEvents + 1]

\* The flight plan names one of the airports or, in VFR, none.
MCContext ==
    [vfr : {FALSE}, airport : MCAirports] \cup [vfr : {TRUE}, airport : {Away, NoAirport}]

MCFirstContext == {[vfr |-> FALSE, airport |-> Home]}

=============================================================================
