------------------------ MODULE MCSilverTransformer ------------------------
(* Model values for SilverTransformer. *)
EXTENDS SilverTransformer

Sale(revenue, profit) ==
    [c \in AmountColumns |->
        CASE c = "total_revenue" -> revenue [] c = "total_profit" -> profit [] OTHER -> 0]

NoSales == [m \in Messages |-> Sale(0, 0)]

\* In the first message, one cent of revenue and a loss of 1.01: -10100.00 percent.
\* In the others, a loss of 0.03 on 400.00: -0.0075 percent.
UnevenSales ==
    [m \in Messages |-> IF m = <<0, 0>> THEN Sale(1000, -101000) ELSE Sale(40000000, -3000)]

=============================================================================
