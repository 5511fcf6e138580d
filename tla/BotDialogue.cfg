CONSTANTS
    Objects = {m1, m2, m3}
    Texts = {"shipment_received", "withdraw", "c1"}
    NoText = NoText
    Kinds = {"Init", "InitRequest", "Text", "Wake", "PaymentRequest", "ChatPayment"}
    Contents <- MCContents
    Faults = TRUE
SPECIFICATION Spec
INVARIANTS TypeOK EverySound OfferedAsPicked
SYMMETRY MCSymmetry
CHECK_DEADLOCK FALSE
