------------------------------ MODULE Exchange ------------------------------
(***************************************************************************)
(* What a swap at Kyber or Uniswap is taken to cost, when the wizard buys, *)
(* and what the exchange does with the transaction.                        *)
(*                                                                         *)
(* A market is what the contracts and the node answer while the costs are  *)
(* calculated; the swap is mined in another one.  Prices of a token are in *)
(* wei for a whole token, fractions of numerator and denominator where     *)
(* they are multiplied out.                                                *)
(***************************************************************************)
EXTENDS Amounts

MinOf(a, b) == IF a <= b THEN a ELSE b
MaxOf(a, b) == IF a >= b THEN a ELSE b

\* get_by_name
Exchanges == [kyber |-> "Kyber", uniswap |-> "Uniswap"]

Markets ==
  [listed : BOOLEAN,                     \* is_listing_token
   expected : Nat, slippage : Nat,       \* getExpectedRate of Kyber
   amountsIn : Nat,                      \* getAmountsIn of Uniswap
   gasPrice : Nat, maxGasPrice : Nat,    \* of the strategy, and Kyber's limit
   estimate : Nat, blockGas : Nat]       \* estimateGas, gasLimit of the block

-----------------------------------------------------------------------------
(* The price of gas *)

\* web3's strategy with GAS_PRICE_MARGIN.
WithMargin(price) == (27 * price) \div 20

\* The prices the strategy may generate, none if it raises.  The gas station of the main
\* net answers with a price or without one.  That it cannot be reached is an exception of
\* requests, which the handler of ConnectionError does not catch.
GasPrices(network, station, price) ==
  IF network # "mainnet" THEN {WithMargin(price)}
  ELSE CASE station.answer = "price" -> {110000000 * station.fast}
         [] station.answer = "none" -> {WithMargin(price)}
         [] OTHER -> {}

\* _get_gas_price
GasPrice(exchange, m) ==
  Rounded(IF exchange = "Kyber" THEN MinOf(m.gasPrice, m.maxGasPrice) ELSE m.gasPrice)

\* The estimate with GAS_LIMIT_MARGIN, within nine tenths of a block.
Gas(m) == MinOf((5 * m.estimate) \div 4, (9 * m.blockGas) \div 10)

-----------------------------------------------------------------------------
(* The costs *)

\* Kyber has no liquidity for a rate of zero.
HasRate(exchange, m) == exchange = "Kyber" => m.expected # 0 /\ m.slippage # 0

\* Kyber's rate, of ETH for a token.
KyberRate(m) == Rounded(MaxOf(m.expected, m.slippage))

\* The amount times its rate.  Uniswap's rate is a price of the amount, divided by it.
Price(exchange, amount, m) ==
  IF exchange = "Kyber" THEN [num |-> amount * KyberRate(m), den |-> Exact]
  ELSE [num |-> Rounded(m.amountsIn), den |-> 1]

\* EXCHANGE_PRICE_MARGIN: six fifths.  Decimal(1.2) is the float below it and products
\* and quotients keep `decimals' digits, which takes less than this part of Exact; as_wei
\* cuts off what is left of a wei.
Slack == 100
EthSold(price) ==
  {s \in 0 .. (6 * price.num) \div (5 * price.den) :
     5 * (s + 1) * price.den * Exact > 6 * price.num * (Exact - Slack)}

\* The sum of costs has what is left of a wei of the ETH sold, which may round it up.
Totals(gas, price, sold) ==
  {Rounded(Rounded(gas * price) + sold), Rounded(Rounded(gas * price) + sold + 1)}

\* calculate_transaction_costs, of which there are none if it raises ExchangeError.  What
\* else may raise, the estimate of gas above all, raises to the handler.
Costs(exchange, amount, m) ==
  IF ~m.listed \/ amount <= 0 \/ ~HasRate(exchange, m) THEN {}
  ELSE UNION {{[gas_price |-> GasPrice(exchange, m), gas |-> Gas(m), eth_sold |-> s,
                total |-> t, exchange_rate |-> KyberRate(m)] :
               t \in Totals(Gas(m), GasPrice(exchange, m), s)} :
              s \in EthSold(Price(exchange, amount, m))}

\* The estimate the page asks for: a conflict where there are no costs.
Estimates(exchange, amount, m) ==
  LET costs == Costs(exchange, amount, m) IN
  IF costs = {} THEN {[status |-> 409]}
  ELSE {[status |-> 200, as_wei |-> c.total] : c \in costs}

\* _run_swap buys unless the costs exceed the balance read.
Affordable(c, balance) == ~(c.total > Rounded(balance))

\* The most the transaction takes from the account.
Needs(c) == c.gas * c.gas_price + c.eth_sold

-----------------------------------------------------------------------------
(* The transactions, and what the contracts make of them *)

WEB3_TIMEOUT == 300

\* swapETHForExactTokens: all of the amount or nothing, in time and for what is sent.
UniswapSwap(c, amount, timestamp) ==
  [value |-> c.eth_sold, amountOut |-> amount, deadline |-> timestamp + WEB3_TIMEOUT]

UniswapBought(tx, timestamp, price) ==
  IF timestamp <= tx.deadline /\ price <= tx.value THEN tx.amountOut ELSE 0

\* trade: what is sent brings tokens at the rate of the moment, up to the amount, if the
\* rate is the least one asked for.  The rate asked for is the one of ETH for a token.
KyberTrade(c, amount) ==
  [value |-> c.eth_sold, maxDestAmount |-> amount, minConversionRate |-> c.exchange_rate]

KyberBought(tx, rate) ==
  IF rate >= tx.minConversionRate THEN MinOf(tx.maxDestAmount, (tx.value * rate) \div Exact)
  ELSE 0
=============================================================================
